# AD-Research: verification development

AD-Research collects market data, computes indicators, scores and signals every day, and trades on
them: on simulated accounts automatically, on Binance by request of an administrator. Beside that it
collects news, translates them and sums them up. This directory holds TLA+ models of the parts whose
correctness depends on the order of things: the lock of the scheduled jobs, the rows that record their
runs, the daily chain, the indicator tasks in Celery, the news drains, paper trading and live trading.
TLC checks them on small instances; TLAPS proves their safety for every value of the constants.

Names of definitions follow the code. `PROJECT.json` maps each definition to the lines it models, and
lists the hazards, the runs, the mutants that show that each property can fail, and the findings.

## Inventory

| part | state | operations | interacts through | what is hard |
|---|---|---|---|---|
| distributed lock, `core/redis_client.py` | key `lock:<name>`: token, expiry | `redis_lock`: try once or poll, body, compare-and-delete | Redis; every scheduled job | expiry under a running body, lost replies, failed releases, crashes |
| job runs, `core/etl_log_helper.py`, `data/pipelines/base.py` | rows of `etl_log` | start, finish, retry | database; the lock around a run | killed runs, a log write that fails unnoticed |
| cleanup, `core/scheduler.py` 247-343 | its session's marks | hourly: mark stuck rows, delete locks by name, commit | rows and locks of all jobs | runs that end meanwhile, shared locks, a failing commit |
| daily A-share chain, `core/scheduler.py` | cron table, one-shot jobs in memory, markers in Redis | bars, indicators, fallback, scores, signals, trades | one shared lock `daily_pipeline`, completion markers | stale gate, deferral, order of jobs, restarts |
| scheduler leadership, `main.py` | a file lock | startup, shutdown | the file system | two schedulers |
| indicator task, `tasks/indicator.py` | date lock, rows of the date, marker, messages in the broker | reserve and send, calculate, retry, release by name, count, mark | scheduler (dispatch, gate), Redis, broker, database | kills, redelivery, reservations that outlive the task or are deleted by another |
| news translation, `services/news/translation_service.py` | title, text, staleness and attempts of each row | drain, pass on ingestion, reader's request | database sessions, the language model | calls of minutes between reading and writing, refusals, rows that block the window |
| news full text and summaries, `services/news/scheduler_*.py` | product and attempts of each row | two drains, fetch on ingestion or by a reader, daily reset | database sessions, the pages, the model | counters read before a wait and written after, resets in the middle of a batch, outages |
| news collection and sentiment | rows under a unique hash | crawl, classify | the news modules see new rows and stamps | text and I/O, left to tests |
| paper trading, `services/paper_trading_service.py` | cash, position, orders | order, automatic trades, mark to market, archive | database sessions; quotes over the network | lost updates, stale identity maps, unique constraint |
| live trading, `api/v1/live_trading.py`, `services/risk_control.py` | configuration, order rows, breaker in memory | order, cancel, reset, enable, delete | the exchange, the database, several processes | check and act a round trip apart, lost replies, restarts |
| scoring and strategies | score and signal rows | pure calculation | run by the chain | arithmetic, left to tests |
| authentication, registration | tokens, codes, counters | login, refresh, verify | Redis, database | rotation races; planned |
| everything else | | | | see "components" in `PROJECT.json` |

What makes each part correct:

- lock: while two leases run there are not two holders; nobody deletes the key of another; waiting ends;
- runs: a row is spared until it is as old as the threshold of its job; the outcome of a run that ended in
  time is final; a run loses its lock only by expiry or on account of an old row; no row says "running" for
  ever;
- chain: scores and signals are computed on complete indicator sets; a run that was put off is not
  forgotten, and what may end it without a result is known; a set that slips past the gate unfinished is a
  later one than the gate saw; trades come after the signals; there is one scheduler;
- indicator task: one dispatch of a date at a time as long as its reservation stands; no marker claims
  coverage the table lacks; a date that stays the latest gets a verdict once failures stop;
- news: a translated excerpt does not hide the full text that came later, unless it came during the very
  call; no row starves the others; a hopeless row costs a bounded number of tries a day; after an outage
  every row gets what it is owed;
- paper trading: never overdrawn; each order fills as if it were alone, so the books are what the orders
  add up to; an archived account is quiet;
- live trading: what the daily filter counts stays below the limit or passes it by a known margin; after the
  switch is turned off a known number of orders may still go out; a row never runs ahead of the exchange,
  and never goes back; every order the exchange accepted has a row, or a known failure.

## Modules

| module | models | state and actions |
|---|---|---|
| `LeaseLock` | what a lock with an expiry promises | holder, time left, members; grant, give up, quit, elapse |
| `RedisLock` | `redis_lock` step by step | the key and, for each client, its place in the function, token, deadline and lease; one action for each command and its failure |
| `EtlRuns` | runs of any length, their rows and the cleanup | extends `LeaseLock`; rows with job, status and age; the sweep as scan, one DEL for each row, one commit |
| `DailyChain` | one day of the chain on several workers | extends `LeaseLock`; slots of half an hour; what is due, one-shot jobs, polling runs, bars, indicator coverage, markers, scores, signals, trades; what became of the deferred scores (`fate`); the file lock and the processes |
| `IndicatorDate` | what the gate may believe of one trade date | coverage of the table, marker; one step |
| `IndicatorTask` | the Celery tasks of one date | extends `IndicatorDate`; whether the date is still the latest, the reservation, and for each task its place, kind, retries, time left and claim |
| `NewsTranslation` | Chinese titles and texts of foreign articles | the columns of the rows, the drain's queue, and what each of three passes has read and is waiting for |
| `NewsDrains` | the full-text and the summary drain with the daily reset | products, attempts, batches, the row each lane is at, ticks before the reset |
| `PaperTrading` | one account, one instrument | the two rows, database sessions with their identity map, the market-value job |
| `PaperAccount` | what a simulated account promises | cash and quantity; an order fills in one step, covered by both |
| `LiveTrading` | one Binance configuration | switch, breakers by process, request threads, orders at the exchange, rows, the day of the filter |
| `RedisLockProofs`, `EtlRunsProofs`, `DailyChainProofs`, `IndicatorTaskProofs`, `NewsTranslationProofs`, `NewsDrainsProofs`, `PaperTradingProofs`, `LiveTradingProofs` | the theorems | |
| `MC...` | the instances TLC checks | |

`RedisLock` implements `LeaseLock` (checked and, for its steps, proved), and `EtlRuns` and `DailyChain`
are built on `LeaseLock`: they use the lock by its abstraction and inherit what was shown of it.
In the same way `IndicatorTask` implements `IndicatorDate` (checked and proved), and `DailyChain` sees the
tasks of a date by their rows and their marker: `DatesAsPromised` shows that these behave as
`IndicatorDate` says for each date. The chain relies on no more than the tasks deliver: its gate trusts a
marker, and a marker is only as good as the count behind it. `PaperTrading` implements `PaperAccount`
(checked and proved) except for one kind of step, which the refinement names: the commit of a session
that another one has committed past since it read (`Overwrite`).

How the models correspond to the code:

- An await, a network call or a poll separates two actions; what the code does between them, with no
  other actor able to see a part of it, is one action. A database transaction is one action at its commit.
- `redis_lock`: a client with `Wait = 0` is `wait_timeout=None`. Time counts down in units; `key.by` and
  `lease` are not in Redis, they record who wrote the key and what the client believes.
- `EtlRuns`: nothing bounds a run. A row's `age` stops at its threshold, where age no longer matters, and
  from there on the row is `Old`: the cleanup takes it for stuck, whether its run is dead or at work. A run
  that outlives its threshold may end between the query and the commit of a sweep, or after both, and the
  two write over each other; that is the exception in `OutcomeIsFinal`.
- `DailyChain`: a run may end without its result in more ways than the cutoff, and none of them puts it off
  again. The scheduler may discard a job it reaches too late or that still runs (`Discard`:
  `misfire_grace_time`, a pool of ten threads, `max_instances`), add_job may fail (`Defer`), a RedisError
  may end the polling, with the key set or not (`PollFails`), and the body may raise (`ScoreRaises`, and the
  other ends, which may change nothing). `fate` says of the deferred scores of a worker which it was:
  "given_up" at the cutoff, "failed" by one of these, "lost" with the process. A marker has a status and
  whether the coverage counted in the table reached 95 %. The status "partial" passes the gate as "success"
  does. A process that stops loses its threads and its one-shot jobs; Redis keys stay. The six hours of the
  date lock of a killed task end in a slot left open.
- `IndicatorTask`: a task slot is one message, from the reservation to the acknowledgement. `reserved` is
  the date lock; `by` is not in Redis, it records who reserved the date. Messages are acknowledged late
  (`task_acks_late`): a killed worker leaves the message for the visibility timeout, and `left` counts the
  try first and then that timeout. A cron entry resolves the date before it waits for `daily_pipeline`, so
  it may reserve a date that is no longer the latest, but none resolves it after `NewBars`. The release is a
  DEL by name. `lapsed` names the tasks whose reservation ended before they did. A task for one shard of the
  market writes rows and no marker.
- `NewsTranslation`: a pass is one session with one row. `src` and `due` are what that session has read of
  the row; commits and rollbacks make it read again (`Reread`), a call that raises does not. `stale` is the
  comparison of the two times, `outdated` names the rows whose text changed between reading and writing.
  `seen` is the number of attempts the session has read: a failed pass writes that value plus one, whatever
  the other pass has written since its last commit or rollback.
- `NewsDrains`: a try reads the counter (`seen`), waits, and writes what it read plus one. `spent` counts
  the tries of a row by its drain since the reset and is in no table. A clock is needed only to say how
  many ticks lie between two resets (`PerDay`).
- `PaperTrading`: sessions overlap in any mix, automatic ones included: the scheduled trades take a lock,
  the endpoint `POST /accounts/{id}/auto-trade` takes none. `Merged` is what an UPDATE of the changed
  columns does to a row another session has changed; `seen` is the identity map, which hands back what a
  session read first. The schema has a unique constraint, so a second INSERT waits for the first and fails
  (`Insert`). `get_pnl_summary` marks positions to market as the hourly job does. `cancel_order` finds no
  pending order: orders fill at once. `overtaken` and `overwrote` are in no table: the sessions that have
  rows in their identity map from before the last commit of another one, and whether one of them has ever
  committed. Sessions that overlap without that are held to the full promise.
- `LiveTrading`: the checks of `check_order` run in order; those before the balance are `CheckBreaker`, the
  round trip for the balance follows, then two queries, each of which sees the commits before it: the daily
  count (`CheckLimit`, `CheckCount`) and the duplicates (`CheckDuplicate`). `_today_start` takes the zone
  off midnight in Shanghai, and the comparison with `created_at` happens in the zone of the session. So
  between midnight and the start of the filter's day (`DayBegins`: at once, or at eight o'clock with a
  session in UTC; which of the two is left open at each `Midnight`) orders are placed that no filter ever
  counts: `early` is this time, and `today` holds the orders begun after it. A row's day and age are those
  of the request's transaction (`created_at` is `now()` of the transaction, opened by its first query).
  `DeleteConfig` takes the rows along (`ON DELETE CASCADE`), and the row of a request that is under way is
  refused by its foreign key. Three variables are in no table: `late` names the orders the exchange accepted
  since trading was switched off, `lost` those whose row was never written (a lost reply, a failed commit, a
  restart), `overlapped` says whether two order requests were ever under way together.

## Runs

| run | instance | what it shows |
|---|---|---|
| `redis_lock` | three users, one trying once, two waiting; leases 2, 1, 3; four tokens | the five properties of the lock, with the refinement of `LeaseLock` |
| `etl_runs` | two jobs with thresholds 2 and 3, runs of any length; two rows | rows are spared until they are old, outcomes of runs that ended in time are final, locks are lost only to expiry and on account of old rows, stuck rows end |
| `daily_chain` | one worker, two dates, a day of eleven slots, the cron table compressed | scores that are owed are planned, and end as a named fate; an admitted date is complete; a partial set that is scored is a later one; dates behave as `IndicatorDate` says |
| `indicator_task` | two tasks of one date; the unit of time is six hours, reservation and hard limit one unit, visibility timeout two; one retry | one dispatch at a time, `IndicatorDate` is implemented, a date that stays the latest gets a verdict |
| `trades_early` (violation) | one worker | trades run while signals are put off |
| `stale_gate` (violation) | one worker, two dates | a partial set is scored past the gate |
| `two_workers` (violation) | two workers | two schedulers run |
| `news_translation` | two articles, one new and with an excerpt, the newer one refused by the model; windows of one row, two attempts, one pass beside the drain | excerpts are seen to be stale, the backlog drains, ordinary articles are translated in full but for two named exceptions |
| `news_drains` | two rows, the newer one hopeless; windows of one row, two attempts, three ticks a day, one attempt beyond the cap | a hopeless row costs one cap a day, the others recover from outages |
| `paper_trading` | two sessions, prices and quantities 1 and 2, cash 4, a BUY and a SELL signal, two sessions opened, both automatic if need be | solvency, books, average cost, archive, and `PaperAccount` is implemented up to overwriting commits |
| `paper_lost` (violation) | the same | an update is lost |
| `live_trading` | two threads, two processes, two keys, two orders, a limit of one, sessions of either zone | overshoot of what the filter counts, late orders, rows behind the exchange and never back, no duplicates, every order accounted for |

Why the bounds are enough. Lock: three clients are the least with a holder that overran, the next holder and
a third that waits; four tokens are one for each client and one left in the key. Runs: a dead row and a live
run that shares the lock need two rows and two jobs, as does a run that outlives its threshold beside one
that does not. Chain: a stale gate needs two dates, deferral to the cutoff needs the whole day, and the
compressed table keeps the order of the cron entries; `Last = 10`, `Deadline = 8`. Indicator task: a second
dispatch needs two tasks, and one retry is the least that keeps a reservation past a failure; six hours
divide the three times of the code, and with them a reservation may expire under a retry and a redelivery
comes after its reservation is over. News translation: starvation needs a hopeless row above another one and
a window of one; two attempts are the least with a failure that is not the last; `Width = 1` lets one pass
overlap the drain. News drains: two rows for the same reason; three ticks let the window move past the
hopeless row on the same day, as 144 do; `Clicks = 1` takes a counter past the cap. Paper: a lost update
needs two sessions, and with `MaxOpened = 2` both may trade every signal at once; cash 4 pays for some
orders and not for all; a third session takes the states past what a run may have. Live: `Ids` bounds the
orders the exchange accepts; two are one more than the limit. Symmetry is used in the runs of the two
trading modules, which check no liveness. Deadlock is allowed in two runs: in paper trading, where an
archived account with no sessions left to open has nothing to do, and in news translation, where all rows
may be translated; everywhere else TLC checks it.

Fairness. `RedisLock`: the clock runs and a client inside the function keeps going; nothing is said of how
long a body takes. `EtlRuns`: the clock runs, runs end, the hourly entry starts the cleanup again and again,
and from some point on its commits succeed (without that no cleanup could be shown to help). `DailyChain`:
the clock runs, and a process does not stand still with something to do (`Proceed`): its scheduler starts
what is due or discards it, its runs get the lock, give up or fail, and its short bodies end, well or not;
no start is owed, and a process that stops is exempt. `IndicatorTask`: time passes; two cron entries a day
resolve the date as long as it is the latest, whatever else is in the broker (strong fairness of `Resolve`,
which new bars disable for good); what is waiting reserves or skips, what is reserved is sent, and workers
take what is queued and get on with it; nobody owes a run by hand, and no chunk of rows. `NewsTranslation`:
the drain alone, which APScheduler starts every ten minutes and whose calls end by their timeout; the passes
of readers and of the ingestion may never come, and may stay where they are. `NewsDrains`: the drains, the
end of a fetch, and the daily reset. Properties that need failures to stop say so: `DateGetsVerdict`,
`ArrivesInFull` and `Recovers` start from "from some point on no failure". The trading modules state no
liveness: a user may never send a request.

## What is proved

Assumptions are the ASSUMEs of the modules: lease lengths and thresholds are positive; prices and
quantities are positive; trade dates are natural numbers, of which 0 stands for none, and the value that
stands for no worker is not one; request threads and orders are finite in number. No theorem
bounds the number of clients, rows, sessions or requests.

- `RedisLockProofs`. `LeaseIsBacked` gives exclusion, and is not inductive: a release might delete another
  client's key. The invariant adds that tokens in use differ (`TokensApart`) and that a client that finds
  its token in the key wrote the key (`TokenNamesOwner`). From it: `LockTypes`, `LeaseBacked`,
  `Exclusion`, `OwnerReleases`, and `LeaseImplemented`, that each step of the lock is a step of the lease.
  `KeysStayWithinTheLease` bounds what a dead holder costs the others: no key has more time left than its
  writer asked for.
- `EtlRunsProofs`. A row in hand is in the table and in one hand (`OpenIsPresent`, `RowsApart`), and what a
  sweep has marked or is about to unlock is old and stays so (`MarkedIsOld`, `UnlocksMarked`):
  `LiveRowsRun`. So only a sweep and the run of an old row may write over its outcome, and both do
  (`OutcomesFinal`). And `LocksLostToOldRows`: a run under which the lock disappears either outlived its
  lease or shares the lock with an old row; the end of another run never takes it. `RunsUseTheLease`: but
  for that deletion by name, runs do with the lock what `LeaseLock` allows.
- `DailyChainProofs`. The invariant says who can be in the lock and why: a run that polls or computes has a
  date of the calendar and belongs to a running scheduler (`RunsAreLed`), a run inside was admitted by way
  of the queue (`MembersWaited`), one-shot jobs go with the process that made them (`RetriesAreLed`), and a
  marker that counted a full set has one behind it (`MarkerIsCounted`). From it: `ChainTypes`,
  `CheckedDates` and `OwedIsPlanned`, for which it matters that the clock does not pass a one-shot job that
  is ripe; what ends a run without a result sets its fate in the same step. `DatesImplemented` maps every
  step of the chain, for each date, to a step of `IndicatorDate` or a stutter. It takes any number of
  workers, dates and slots and any cron table. `PartialSetsAreNewer` bounds the finding `stale_gate`: the
  date a run was admitted for stays complete, so a partial set it scores is of a later date.
  `ShotsEndWithTheDay` and `OwedAfterCutoffRuns` are the safety half of `OwedScoreResolves`: no one-shot job
  is left in the past or planned beyond the cutoff, so what is owed after it polls or computes.
  `ScoresAreComputed` says that an admitted run has a set to compute on, of its date or later; that a
  nonempty set of dates with rows has a latest one takes the least-number principle (lemma `Greatest`, from
  `WellFoundedInduction`). `ElectionIsSound` bounds the finding `two_workers`: the file lock elects one
  process at a time, and it is the end of the function that lets a second one in. `ChainUsesTheLease`: but
  for a process that stops with all its runs, the chain does with the lock what `LeaseLock` allows.
- `IndicatorTaskProofs`. A scheduled task that has not lost its reservation is the one the reservation is
  for (`Backed`), in whatever order runs of the cron entries resolve the date, wait and skip; a try is
  within the hard limit (`LimitHolds`); and a task about to mark carries a claim that the table bears out
  (`ClaimIsCounted`), also when other tasks write between its count and its SET, since rows are never taken
  back. From it: `TaskTypes`, `DispatchedOnce`, `DateImplemented`. What is proved of the abstract date, that
  its markers are true whenever they are read (`MarkersAreTrue`), then holds of the tasks by the refinement
  alone (`TaskMarkersAreTrue`).
- `NewsTranslationProofs`. The bound of the attempts is what is hard: the drain and the pass of the
  ingestion may both add one to a row. A row in hand is not also waiting (`HandsApart`), and a row that one
  of them has, or both, is that far from the end (`RoomForBoth`), counted from what each has read of it,
  which may be old (`SeenFits`). From it: `NewsTypes`, `StaleSeen`. `TranslationsAreCurrent` adds that what
  a pass holds its row held before (`SourcesHeld`): a translation is of the present text, or seen to be
  stale, or was overtaken by the text.
- `NewsDrainsProofs`. `DailyBudget` alone is not inductive: a fetch beside the drain may write an old value
  back. The invariant says that a row in a batch has tries left (`BatchIsFresh`), that what a lane is about
  to write is bounded (`SeenIsBounded`), and that the counter of a row, and each value about to be written
  to it, keep up with the tries of the drain (`TriesAreCounted`). From it: `DrainTypes`, `BudgetKept`.
  `SummariesStopAtTheCap`: the counters of the summaries, which only the drain writes, never pass the cap.
- `PaperTradingProofs`. What is committed was checked against the very values it is computed from
  (`ReadsCover`), and sessions never read an overdrawn account (`ReadsSound`): `Solvent`. The other
  properties rest on one fact about sessions that overlap: one that has not been overtaken holds nothing but
  the rows as they are. So its commit is one fill of the account of that moment, at a price, and covered by
  it: `AccountImplemented`, the refinement of `PaperAccount` with `Overwrite` as its one exception. As long as
  no overtaken session commits, the books balance (`Books`) and the average cost is explained by prices
  (`AverageInRange`), for which a weighted average stays between the bounds of what it weighs and rounding
  does not leave whole-numbered bounds (`RoundedBetween`). `ArchivedIsQuiet` follows from the guards of the
  two ways to open a session. Nothing is assumed of which sessions overlap: any number, automatic or not.
- `LiveTradingProofs`. Every reply about to be written is behind the exchange already (`InFlight`):
  `RowsAreBehind`. `Overshoot` counts: a request passes the check only when the filled orders of the
  filter's day are below the limit, and each request that has passed adds at most one; the orders placed
  before that day begins, which no filter counts, are outside the theorem. `LateOrders` counts in the same
  way: nothing is late while trading is on, and after that each late order is one request fewer on its way.
  `OrdersAreAccounted` follows each order from the exchange to its row: between the two, one request has it
  in hand, and if that one ends otherwise the order is known as lost. That the exchange never gives out an
  order twice makes it one request, and makes `RowsOnlyAdvance`: the row that is written is a new one, and
  what is changed later is an open row, to cancelled. `NoDuplicateOrders` rests on two facts about requests
  that do not overlap, as long as no order is lost (`DupInv`): one at a time is past the check (`Cleared`),
  and what it found, that no fresh order has its instrument and side, is still so when its row is written.

Only model-checked: liveness (`WaitingEnds`, `StuckRowsEnd`, `OwedScoreResolves`, `DateGetsVerdict`,
`BacklogDrains`, `ArrivesInFull`, `Recovers`) and the fairness part of `ImplementsLease`, which the prover
does not reach. Every safety property of the passing runs is proved. The violation runs state what is false
and have no theorem; `PartialSetsAreNewer`, `ElectionIsSound` and `AccountImplemented` say how far three of
them go.

## Findings

Each is a violation run; `PROJECT.json` quotes the line of the documentation it contradicts.

1. `two_workers`: the file that carries the scheduler's lock is held by a local variable, closed on return.
2. `trades_early`: the automatic trades wait for the lock, not for the signals, and the indicator gate
   puts the signals off with the lock free.
3. `stale_gate`: the gate checks the date of the latest bar, the scores use the latest indicator date.
4. `paper_lost`: overlapping paper orders lose updates of cash and position.

Behaviours of the models that a reader should know of, and that the hazards name: the cleanup deletes
`lock:daily_pipeline` by name although several jobs share it, and the reservation of a date is deleted in
the same way; a job that outlives its threshold is failed by the cleanup, loses the lock under its hands and
in the end writes its outcome over the verdict; a deferred score run that meets an error (of Redis, of
add_job, of its body) is not put off again and leaves the day without scores from it; a resting live order
never counts for the daily limit; with a database session in UTC, neither does an order placed between
midnight and eight o'clock in Shanghai, and in that time no daily limit holds; a translation of an excerpt
whose full text came during the call is not seen to be stale (`outdated`), and the teaser stays for good,
which the docstring of `translation_is_stale` means to prevent ("full-body Chinese, not a translated
teaser"); a second manual run of the automatic paper trades trades every signal again, although the
docstring of `trigger_etl_rerun` calls a second run idempotent; a manual run on a worker without a scheduler
that is put off leaves its one-shot job in a scheduler that never runs (the comment at `core/scheduler.py`
908-916 knows it).

## Limits

- Readings of `time.time()` in overlapping uses of a lock are taken to differ.
- The configuration of live trading is read once, before three round trips.
- The cleanup runs hourly, so a killed job blocks the next runs of its lock for hours; how long, the model
  does not say.
- `EtlRuns` has one lock name; rows of jobs with other locks meet only the cleanup.
- In `DailyChain` explicit dates (backfills), the other markets and manual runs are left out, and a
  date has one indicator task at a time. A cron entry and a one-shot job of one job in the same slot are
  one run.
- `IndicatorTask` is about A-shares, whose dispatch carries a date; US and crypto are dispatched without
  one. A message of a retry may exist beside the unacknowledged one it replaces if the worker dies between
  the two: one of them is taken to be there. A status "partial" counts as "success", as it does for the
  gate, and the universe of the coverage does not grow.
- `NewsTranslation` has one reader at a time, though the lock of a request (60 s) is shorter than a call;
  a text arrives once; a body of white space and language codes in capitals are left out; and the two
  times of `translation_is_stale` are taken to be in one zone.
- `NewsDrains` assumes that a fetch ends within the ten minutes between two ticks (`NoneOvertaken`), that
  the commit of a failed try succeeds, and that a day has more ticks than the hopeless rows use up
  (`PerDay` greater than `Cap` times their number over `Batch`), without which nothing older is reached.
  The order of the summaries, importance before time, is one order of the rows.
- Paper trading has one instrument and no `realized_pnl`; quantities and prices are whole numbers, and
  `Rounded` does to them what the scale of the column does to decimals.
- In live trading the limits of a configuration do not change, an order that the exchange expires at once
  is left out, and so is the synchronisation of positions: rows of their own, of
  which the daily-loss check reads a column that nothing writes.

## Not modelled

Of the 127,000 lines most are pages, crawlers, data frames, numerical formulas, prompts and CRUD: text and
arithmetic whose order does not matter, and where a model would repeat the code. Manual runs were tried as
an action of `DailyChain`; they multiply its states past what a run may take, and `RedisLock` covers such a
run as one more client. "components" in `PROJECT.json` gives the reason for each part.

## Plan

Done in this order: `LeaseLock` and `RedisLock` with proofs; `EtlRuns` with proofs; `DailyChain` with proofs;
`PaperTrading` with proofs; `LiveTrading` with proofs; `IndicatorDate` and `IndicatorTask` with proofs and
their composition with `DailyChain`; `NewsTranslation` and `NewsDrains` with proofs; then `PaperAccount` and
the theorems that account for orders and rows of live trading, lost locks, one-shot jobs and the two uses of
the lease. Next:

1. `LiveTrading`: synchronisation of positions (an asset that is sold out keeps its last quantity).
2. Refresh-token rotation and registration codes, as small modules of their own.
3. `PaperTrading`: which signals have been traded, for a second manual run on one day.
