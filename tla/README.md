# Verification of Sandbox Pay

TLA+ models of the payment server in `server/src` and of the web client in
`client/src`, the TLC runs that check them on small instances, and TLAPS proofs
of the properties that matter most. `PROJECT.json` holds the same information
in tabular form: the components, the runs, the source lines each definition
models, the findings, the hazards and the theorems.

## The system

Sandbox Pay is a payment gateway. A merchant creates an order through a signed
API; the customer pays it through Alipay, PayPal or a wallet of the house
("native"); the server books the payment, tells the merchant through a queue
of notifications, and refunds on request. It is a NestJS server over
PostgreSQL with a React client: every handler is an async function, and between
two of its awaits any other handler, a cron job, another instance of the server
or a restart may run. All shared state of the server is in the database, except
for the copies of the settings and the exchange rate that each instance keeps.

| component | state | operations | hard behaviour | what makes it correct |
|---|---|---|---|---|
| order row (`payment.service.ts`, `payment-order.entity.ts`) | one row of `payment_orders`: status, method, trade number, quote, refunds | `markPaid`, `markFailed`, `markRefunding`, `markRefunded`, `markRefundFailed`, each a transaction that locks the row | every confirmation path calls them, concurrently | an order is paid once, on real money, and its balance matches its status |
| checkout (`gateway.controller.ts`, the three gateways, their controllers) | the row; upstream: PayPal orders, the Alipay trade | create or reuse an order, open a channel, switch channel, capture, notify, query, QR code, confirm | loads and saves around awaits; redelivery; calls that time out after they took effect; notifications lost between commit and insert | as above, and money that moved reaches the order and the merchant |
| expiry job (`order-cleanup.task.ts`) | status | one `UPDATE ... WHERE id IN (SELECT ...)` a minute | waits for a row lock with an old snapshot | only Pending orders expire |
| refunds (`refund.service.ts`, `payment.service.ts`) | refunded amount, last refund number, status | `execute`: check, mark, dispatch, enter or roll back | several at once, on stale balances; refunds carried out whose answer is lost; refunds PayPal leaves pending; restarts | what is shown as given back only grows, fits the price, and was given back or left pending by PayPal |
| notification queue (`notify.service.ts`, `admin.service.ts`) | one row per notification: status, retry count, last attempt | enqueue, cron run, replay | overlapping runs and replays save stale rows | Success means accepted; nothing is given up early; everything is decided |
| merchants (`merchant.service.ts`) | rows of `merchants` | ensure, create, update, toggle, reset | load and save races, column by column | an edit undoes no other edit |
| nonce store, signature guard (`nonce-store.service.ts`, `merchant-signature.guard.ts`) | nonce records with an expiry | window check, `tryConsume`, lazy deletion, signature check | find, then save; every request deletes the expired records of all; secrets change meanwhile | a message delivered again is refused |
| order creation (`createOrder`) | rows by `(merchantId, externalOrderNo)` | look up, save another method, insert | no unique key: two requests may both insert | who asks again gets an order of the amount it signed |
| site settings (`site-settings.service.ts`) | a table and a copy of it in every instance | seed, `refresh`, `setMany` | concurrent starts and writes, several instances | no instance serves what the table never held |
| exchange rate (`exchange-rate.service.ts`) | a rate with its expiry in every instance | `getRate` | concurrent misses, slow answers, fallback | a margin takes effect within one lifetime of a rate |
| reconciliation (`reconciliation.service.ts`) | a record per trade of a provider and a day | `reconcile` | rows saved one by one while orders change and another upload runs | what is recorded is what comparing says |
| deleting, resetting, statistics (`admin.service.ts`) | all tables | `deleteTransaction`, `resetData`, `getStats` | several queries; handlers hold copies they save later | a Paid order keeps its notification; statistics are off by no more than what happened between |
| cashier client (`Cashier.tsx`, `MobilePay.tsx`, `ScannerModal.tsx`, `socket.ts`), WebSocket gateway | what a page shows, its poll, its countdown, its room | fetch, poll, push, countdown, confirm | answers fail, are lost and overtake each other; pushes are lost | a page ends on the order's status and does not show a payment that never was |
| session (`AuthContext.tsx`, `auth.controller.ts`, `jwt.strategy.ts`) | token in localStorage, cookie, what each tab believes | mount, login, check, logout, expiry | late answers; several tabs | a logout leaves nothing behind |
| administration pages (`pages/admin/*.tsx`) | filters, list, dialog, drafts | look, list, deed, save | lists answered out of order, lost answers, stale drafts | once the newest answer is shown, the list has every deed the administrator was told of; a deed is done once; a save changes what was typed |
| fees, money, encryption, signatures, static pages, bootstrap | none | — | pure or plain wiring | not modelled |

Interactions: the gateways call `PaymentService`, which is the only writer of
statuses besides the expiry job; `createOrder` of `PaymentService` and of
`PayPalService` also save whole rows they loaded earlier. `markPaid` and
`markRefunded` enqueue the merchant's notification after their commit and push
a status over the WebSocket to the pages in the order's room. `RefundService`
calls the gateways and `PaymentService`. The guard reads the merchants' rows
before every signed request. PayPal's quote comes from the exchange rate, which
like the fees reads the site settings of its instance. The back office deletes
rows that all of them use.

## The modules

```
OrderRow ----+--> Checkout -----> MCCheckout     CheckoutProofs
             +--> Refunds  -----> MCRefunds      RefundsProofs
             +--> OrderLife (below)
RefundLedger <--- (implemented by Refunds)
NotifyQueue  --------------------> MCNotifyQueue  NotifyQueueProofs
Merchants ---> Gateway --+                        MerchantsProofs --> GatewayProofs --+
Rates -------------------+                        RatesProofs ------------------------+
BackOffice --------------+--> MCServer            OfficeProofs <----------------------+
Console -----------------+
OrderLife ---------------+
CashierPages --+
Session -------+-------------> MCClient           ClientProofs
```

**OrderRow** holds the bodies of the locked transactions as operators on a row
record. A record operator leaves the columns it does not name alone, so
Checkout, Refunds and OrderLife share them, each with the columns it needs. Amounts are
integer cents, as in memory in the code.

**Checkout** interleaves, on one order, the requests that open a channel, the
confirmations and the expiry job. A request is a process that runs once; `pc`
says at which await it stands, `copy` is the entity it loaded and will save,
`trade` the trade it is about to book. A transaction under the row lock is one
action. `settled` (the trades that really moved money), `usd` and `alipayOpen`
are the state of PayPal and Alipay; `booked` and `notified` record what
`markPaid` credited and announced; `acked` is Alipay having read 'success'.

| actions | code |
|---|---|
| `PayLookup`, `PaySave` | `createOrder` on an existing order |
| `SwitchChannel`, `OpenNative`, `OpenAlipay` | `switchChannel`, `native createOrder`, `createPagePay` |
| `QuoteRead`, `QuoteSave`, `PayPalCreate`, `PayPalCreateFails` | PayPal `createOrder`: load, await the rate, save, call PayPal |
| `Callback`, `CaptureCompleted`, `CaptureLost`, `CaptureRefused`, `MarkFailed` | PayPal callback, `captureOrder`, `markFailed` |
| `CashierInfo`, `AlipayPaid`, `AlipayUnpaid`, `QrRead`, `AlipayPrecreate` | `getCashierInfo`, `queryAlipayTrade`, `createQrPay` |
| `ConfirmNative`, `AlipayNotify` | `confirmPayment`, `handleNotify` |
| `Book`, `BookRejected`, `BookSkipped`, `Announce`, `AnnounceFails` | `markPaid`: the transaction's three outcomes, then what follows the commit |
| `CleanupSelect`, `CleanupUpdate` | the expiry job: the subquery's snapshot, then the write by id |
| `AlipayPay`, `Expire`, `Crash` | the customer, time, a restart |

**Refunds** interleaves requests of `RefundService.execute` on one paid order.
`executed` and `returned` are what the gateway gave back, `booked` what
`markRefunded` entered. PayPal may also take a refund on and answer with the
status PENDING, which `PayPalService.refund` returns like COMPLETED
(`PayPalDefers`): such a refund is in `pending`, and its cents in `owed`, until
PayPal carries it out (`PendingCompletes`, a step of PayPal that the server
does not notice), which need never happen. `DispatchLost` is a refund the
gateway takes on and whose answer never arrives: the gateways turn every
exception into `null`, as for a refusal.
The order's `payMethod` chooses the gateway. Alipay's and the native channel's
refund numbers are the time in milliseconds, which requests may share
(`StampOf`); Alipay carries out no number twice, the native channel does.

**OrderLife** composes the two services that write a paid order: refunds, now
with the amounts they give back in the currency that was paid, and PayPal's
`createOrder` (`RequoteRead`, `RequoteSave`), which `switch-channel` reaches
whatever the order's status and method. `paid` is the channel and the amount the
order was paid by, which need not be the order's `payMethod`; `given` is what the
gateway returned, and `pending` and `owed` what PayPal left pending, as in
Refunds. `Prorated` is `dispatch`'s `Math.round` of the quote's share.

**RefundLedger** is what refunds promise: an amount that only grows, stays
within a cent of the price, and closes the order when it reaches it. Refunds
implements it with `refunded <- row.refunded` and `closed <- row.status =
"Refunded"`.

**NotifyQueue** models the queue with its cron job. A run of the job is a
worker that loads a batch and posts and saves its rows from copies. Time is a
tick that ages timestamps; the post ends by an answer, an error or its timeout,
and in the last case the merchant may have accepted it. `posts`, `failures` and
`delivered` record what happened outside.

**Merchants** is the table `merchants` under `toggle`, `update`, `reset`,
`create` and the two places that create a first merchant (`onModuleInit`
through `ensureMerchant`, and `resetSecret` on an empty table). `save()` of a
loaded entity is its two queries: the row is read again, the columns in which
it differs from the entity are found (`SelectMerchant`), and those are written
(`WriteMerchant`). A request is a clerk that runs once. `flips`, `told`,
`version` and `blind` record what was answered and which rows were written by
someone who had not read the last write.

**Gateway** is the way of a signed request: the guard's checks on arrival
(`Arrive`: merchant, timestamp, whether the nonce is there), `save()` of the
nonce as its first query and an INSERT or an UPDATE (`SelectNonce`,
`InsertNonce`, `UpdateNonce`), the deletion of expired records and the
signature against the secret read on arrival (`CleanNonces`), then
`createOrder` (`FindOrder`, `Resave`, `InsertOrder`). A message may be
delivered several times and be the same or another message under the one
`externalOrderNo` of the model. `spent` are the deliveries whose nonce was
entered, and `before` those that were when a delivery arrived.

**Rates** has several instances of the server, each with its copy of the two
settings the exchange rate uses and its cached rate. A start is `Boot` (which
defaults are missing), `Seed` or `SeedFails`, `Load`; a write is `SetMany` (the
transaction, which may fail) and `Publish` (the copy); a question is
`QuoteCached`, or `QuoteFetch` and `QuoteAnswer` with the provider's rate or the
fallback. `Stop` is a restart. `committed` and `changed` remember what the
table held and when a copy's margin last changed.

**BackOffice** has the table `payment_orders` with the handlers that create,
book, announce and refund rows or save one they hold, and the administrator's
requests query by query: `UploadBill`, `RecordLine` per line of the bill,
`RecordMissing`, `UploadAnswered`; `FindTransaction`, `DeleteTransaction`;
`ResetOrders`, `ResetNotices`, `ResetAudit`; `CountOrders`, `CountPaid`.
`DeskFails` is a violated unique key or a database error, on any of them.

**CashierPages** has one order, moved by the server (`MarkPaid`, `MarkFailed`,
`Refund`, `Late`, `CleanUp`), and the pages of a customer. `flight` counts the
requests a page has under way and the answers travelling back, so that they
overtake each other; `pushes` and `joined` are the socket and its room. A page
is opened and closed, polls, receives (`Receive`, `FetchFails`), is pushed to,
counts down, and its forms confirm a native payment, of which the server's
half is `ConfirmCheck` and `ConfirmBook`.

**Session** has the tabs of one browser, which share the token and the cookie.
A tab mounts (`Mount`), checks its session, logs in, is refused and logs out;
tokens expire at any time.

**Console** is the list pages of the administration as one page that can do
what any of them can: filters with effects that load, a search that resets the
page and loads at once, pages that turn, deeds begun in a dialog (`Modal`) or
at a button (`Inline`) which reload the list; and the settings page in several
browsers, whose saves post what differs from what was loaded.

The operators marked `mutant` in the modules are plausible bugs of the
definition that follows them. No specification uses them; each shows that a
property of a run would notice that bug (`mutants` in `PROJECT.json`).

## The runs

| run | instance | what it shows |
|---|---|---|
| MCCheckoutAll | three requests of every kind, two PayPal orders, two quotes, expiry, one restart | whatever saves a stale copy, a Paid order stands on a settled and booked trade; only settled trades are announced |
| MCCheckoutLocked | callbacks, cashier polls, native confirmations, two of them at a time with Alipay's redelivery; three PayPal orders whose quotes lie within and beyond a cent of each other; expiry, one restart | one booking; a captured amount agrees with the quote; Alipay's delivery ends only when the order is decided and announced; only the expiry job rewrites a decided order; money taken by Alipay ends in a decided order |
| MCRefundsAll | three requests, price 4, amounts 1, 2, 4, 5, each channel, two requests in one millisecond, one restart | balance and status agree, although numbers collide and no gateway caps the total of native refunds; the order shows no more than was given back, or left pending by PayPal; a success is recorded and announced; Refunding has a cause; a Refunded order never changes; until a restart, a Refunding order with nothing given back is released; RefundLedger is implemented |
| MCNotify | one notification and two overlapping runs, or two notifications and one run at a time with batches of one; one replay, one restart | Success means accepted; not given up before as many failures as delays; every notification is decided |
| MCServer | one of nineteen casts (below) | edits of a merchant keep each other; a message delivered again is refused; an order answered has the signed amount; no instance serves an unsaved setting; a margin takes effect within a rate's lifetime; uploads record what comparing says; a Paid order that survives a reset is announced; statistics are plausible; a customer refunded by the channel that was paid gets back what was paid, to a cent per tolerance and rounding and but for what PayPal left pending, if nothing re-quoted the order; when nothing is under way and the newest request's answer is on the screen, a list has every deed the administrator was told of, and is that of the filters shown unless a deed asked for it; a dialog does its deed once per error shown; a save changes only what was typed |
| MCClient | a page with a form, or the session in two tabs | no page shows as paid what was never booked; a page stops asking only for a reason, shows the decision when it has, and does stop; a logout leaves neither token nor cookie |

The other runs show where the code does not do what its comments or documents
say; TLC finds the property violated.

| run | disagreement |
|---|---|
| MCCheckoutRequote | `PayPalService.createOrder` saves an order it loaded before a payment was booked: the order is Pending again and a second payment is booked, against the comment on `markPaid`'s lock |
| MCCheckoutCapture | of two callbacks of one token, the one PayPal refuses marks the order failed before the one that captured books it: captured money on a Failed order |
| MCRefundsStuck | a partial refund leaves the order Refunding with no request in flight, and no refund is accepted from there |
| MCOrderLifeRate | a paid order is quoted again, and its refund is pro-rated with the new quote instead of the rate captured on the order |
| MCGatewayTwice | two messages for one `externalOrderNo` both find no order and insert one each, against `server/README.md:101` |
| MCCashierFalse | a native confirmation passes its check, the order fails or expires, and the page shows success for an order that was never booked, against the comment of `confirmPayment` |

**Casts.** The parts of MCServer share no state, and neither do those of
MCClient, so that every state of a composition is a pair of states of its parts
and its interleavings add nothing. A behaviour therefore moves one cast of
processes of one part, chosen in `Init`. The casts are the groups whose steps
can disturb each other: three edits of merchants; deliveries of the same
message, of another, of one with another amount and of one with another
method, beside an edit; two edits beside a delivery; two instances with one
write, one with two, and one with a write and two questions; two uploads, an
upload beside a deletion, a deletion beside a reset with a handler that holds a
copy, statistics beside deletions and beside such a handler; two refunds and a
`switch-channel` on an order paid by any channel; filters, dialogs
and buttons of a list page; and two editors of one group of settings or one
editor of two groups. `Gateway` does share the merchants' rows, and its casts
move both.

**Bounds.** Orders share no state (but for a callback with another order's
token, see the abstractions), so one order suffices for Checkout, Refunds,
OrderLife and CashierPages. The races need two requests that overlap and a third
that set them up or profits from them (MCCheckoutRequote needs a re-quote and
two callbacks), so there are three. Two PayPal orders are needed for two quotes,
and a third in MCCheckoutLocked so that quotes a cent apart (within tolerance)
and further apart meet in one run; there two requests and the notifier make the
race. A price of four cents has halves, quarters, an amount one cent short and
one cent over, and total sums on both sides of the tolerance. OrderLife needs a
price whose halves in another currency are no whole cents: twenty cents for
quotes of 7 and 12, refunds of about a half and about the whole, two of them and
one re-quote around or between them. One restart
suffices to cut any request at any await; requests that follow it meet the
state it left. Three delays keep a first, a middle and a last retry and are
increasing as the code's five are. Two notifications and batches of one are
the smallest case of a full batch, for which one run at a time suffices; runs that
overlap need one row. Two merchants and three secrets let a reset
meet an edit of its row and of another. A window of one, a lifetime of two and
a clock up to three let a nonce expire while its message is delivered again.
A rate lives two ticks, the provider takes at most one, and four ticks let a
slow answer, its expiry and a question after it happen. Bills of one and two
lines hold a matching, an unequal, an unknown and a repeated trade. Three
loads, two pages and two filters make a list answered late, twice over. Two
requests of a page under way suffice to overtake. In all modules but
NotifyQueue requests end for good, so `CHECK_DEADLOCK` is off there.

**Fairness.** Checkout: Alipay redelivers while it has not read 'success' and
the server answers what it receives (`WF` of `AlipayNotify` and of the notifier's
`MarkPaid`); nothing is assumed of customers, merchants or the expiry job.
Alipay in fact gives up after about a day; the property speaks of an outage
shorter than that. Refunds: a request that was accepted goes on (`WF` of
`Proceed`), since the SDKs end every call by an answer, an error or a timeout;
which of them, is left open. NotifyQueue: the job starts every minute, a post
ends by its timeout, and time passes; the merchant may refuse for ever.
MCClient: an order's time passes (`WF` of `Late`), the page's interval fires
(`WF` of `Poll`), answers that travel arrive, and of infinitely many requests
some are answered and received rather than lost (`SF` of `Answer` and of the
receipt of a decision). Pushes, the countdown and the expiry job may never
come: `PollingEnds` holds through polls alone.

## The proofs

Every safety property of the passing runs, invariant or action property, is a
theorem for every value of the constants, under the named assumptions of the
modules: disjoint names, positive amounts, a lifetime of a nonce that exceeds the
window by more than a clock is ahead, a provider's timeout below the rate's
lifetime, delays of notifications that do not shrink (`DelayAssumption`; the
code's five rise), bills that are sequences of lines about known orders
(`BillAssumption`), and casts of processes that the parts have
(`CastAssumption`). TLC evaluates each on its run. Every proof follows one
pattern: an inductive invariant, a lemma per group of steps, and a temporal
step.

`CheckoutProofs`
* `TypeCorrect`; `PaidBacked`, `AnnouncedSettled`. The property of the row alone
  is not inductive, because a stale copy may be saved over the row at any time:
  `IInv` asks of the copies what it asks of the row (`Backed`), and that a
  process books only a settled trade and announces only after a booking
  (`Located`).
* `AtMostOneBooking`, `PaidQuoted`, `DecidedIsFinal`, `AckedDecided`, under
  `LockedOnly`: requests that load an order and save it later ("pay" and
  "switch") do not arrive. `MCCheckoutRequote` shows that the assumption is
  needed. `LockedInv` adds that a Pending order has no booking, that there is at
  most one, that the trade booked agrees with the row's quote, and that `acked`
  implies a decision.

`RefundsProofs`
* `TypeCorrect`, `BalanceCorrect`, `RefundingJustified`, `SuccessRecorded`,
  `LedgerOnlyGrows`. The inductive invariant joins them with
  `Standing`: an accepted request asks at most a cent over the price, is carried
  out before it is entered, and is entered before it is announced. The price
  must exceed the tolerance: an order of one cent would be "refunded" before any
  refund.
* `NeverOverstated`: what the order shows as refunded was given back, request by
  request and in total, except for what PayPal left pending; when nothing is
  pending there is no exception. The total needs a sum over requests, of which
  there may be any number: `Covered` says that there is a function which adds
  up amounts, one request at a time, that what was given or left pending covers
  the order's balance and the requests on their way to be entered, and that
  `owed` is the sum over `pending`. A request enters or leaves the sets it is
  applied to by one, so no induction is needed. `TakenOn` says that what was entered was carried out or is pending,
  and that only an order of PayPal has anything pending.
* `Refinement`: every behaviour of Refunds is one of RefundLedger; `BookRefund`
  maps to `Refund`, every other step to a stutter.

`NotifyQueueProofs`
* `TypeCorrect`: a run of the job has its rows in hand and a batch it chose, and
  no timestamp ages past the longest delay, the last one.
* `SuccessDelivered`, `GivenUpLate`. Runs of the job save their copies over each
  other, so `QInv` asks of a copy what it asks of the row (`True`): Success only
  of an accepted post, and a retry count that failed posts cover until the delays
  are used up. `Later` says that what was true of a copy stays true while
  others post.

`MerchantsProofs`
* `MerchantRowsHold`. `CopyHolds` says what a request under way knows: as long
  as its row has the version it read, its copy differs from the row by its own
  edit only, and `save` has found exactly the differing columns. A write that is
  not blind therefore does its own edit and nothing else.

`GatewayProofs` (beside the steps of Merchants)
* `NoRedelivery`. A message is `Guarded` when its nonce is in the table or its
  timestamp does not pass any more. A delivery whose save has found or entered
  the nonce has a guarded message, and a deletion of expired records takes only
  nonces whose timestamps have passed (`NoncesHold`, from the assumption on the
  lifetime). So a delivery that arrives after the nonce was entered finds it or
  is outside the window.
* `RightAnswers`, `ShopTypes`.

`RatesProofs`
* `RatesTypes`, `SavedOnly`: a value reaches a copy from the table or from the
  entries of a request committed before (`TableHolds`).
* `MarginCurrent`. A rate that a slow answer puts back may be older than the one
  it replaces, but expires a lifetime after its question was asked. `RateFits`
  and `QuoteFits` say that a rate or a question that outlives the change of the
  margin by a lifetime began after it; `Seeded` that an instance serves only
  when every setting is in its copy.

`OfficeProofs`, about three parts that share no state, each a specification of
its own
* `PaidTold`. A handler may save a copy over a row that was deleted, reset or
  announced meanwhile: `ToldInv` asks of the copies held what it asks of the
  rows, and while a reset may still empty the queue a notification in it does
  not count.
* `StatsAgree`: between the two queries the table grows by what is inserted at
  most (`Turnover`).
* `UploadsRight`. `Compared` follows the two loops of `reconcile`: what a request
  recorded is what it has said about the lines before the current one and the
  orders left over, of which `seen` are the ones named so far.
* `SettledShows`, `DoneOnce`, `OnlyTyped`. `SettledShows` speaks of lists that show
  the answer of their newest request. `Newest`: the last request for the list
  is for the view on the screen, or was made by a deed, or another is due. `OneAtATime`: a dialog has
  one submission under way at most, and may be pressed again only after an error
  for everything that was done. `SheetInv`: what an administrator's request
  would change was typed by that administrator.
* `GivenBack`. Refunds are rounded to a cent one by one, and the quote and the
  balance may be saved over by a copy. `Settling` finds an amount D in what was
  given or left pending that `Backs` the balance of the order and of every copy: times the price
  it is quote times balance, but for half a cent per refund booked. What is given or
  pending exceeds D by the refunds waiting to be entered (`Covers`), again by a
  function that adds them up. The theorem bounds what is missing by what is
  pending, and by the roundings alone when nothing is. `Enough` turns this, for a balance within a cent of the price, into
  the bound of the property. Proving it corrected the bound: a cent of the price
  that a full refund may leave is worth `CentWorth`, a cent only if the quote is
  not above the price.
* `ServerTypes`: a behaviour of MCServer is one of each part (`ServerParts`), so
  all of them keep their types, and all theorems about the parts hold of it.

`ClientProofs`
* `PaidShownWasBooked`, `StopsWhenOver`, `StoppedShows`. `PageTruth` asks of the
  answers and pushes on their way what it asks of the page, and that a page that
  stopped asking shows the decision or has an answer under way; `FormTruth` that
  a form was confirmed only on an order that was over.
* `NothingRemains`: a logout that found the cookie cleared, with no login since,
  finds no cookie and leaves no token, whatever other tabs do.
* `ClientTypes`, of both parts as MCClient joins them.

Only model-checked: liveness (`AlipayMoneyDecides`, `Released`,
`EventuallyDecided`, `PollingEnds`), which is beyond the prover, and the
properties of the violation runs, which do not hold.

## Abstractions and assumptions

The server:

* OrderLife starts from an order just paid, numbers every refund differently (the
  colliding numbers are in Refunds) and lets a request stop at any of its awaits,
  so that it needs no restart. A gateway gives back no more than was paid
  through it and answers a refund of another channel's payment with `null`; a
  native refund counts as given, for the operator mirrors it by hand.
* A refund PayPal answers with PENDING may be carried out at any later time or
  never; one that PayPal gives up stays in `pending`. PayPal's cap on refunds
  is checked against what was given, when a refund is taken on and again when it
  is carried out, and not against what is pending: PayPal may be stricter.
* TypeORM's `save` reads the row again, compares it with the entity and writes
  the columns that differ. It is two steps in Merchants and Gateway, where other
  steps come between, and one write of the whole copy in Checkout. Columns that
  no handler of the model changes are left out.
* `findOne` with a pessimistic lock and `relations: ['merchant']`
  (`payment.service.ts:148`, `:234`) is taken to lock the order's row until the
  transaction ends. PostgreSQL refuses `FOR UPDATE` on the nullable side of an
  outer join, which is how TypeORM usually joins a relation; the unit tests do
  not reach the database, so this is worth a test against one. Should it be
  refused, the transaction fails before it writes anything.
* A PayPal callback is for a PayPal order of this order. The code captures whatever
  `token` the request names (`paypal.controller.ts:53`) and does not compare
  it with `orderNo`: a token PayPal does not know fails a Pending order, as a
  refused capture of a known one does (`CaptureRefused`); a token of another order
  is not modelled, and is the one way orders are not independent.
* `resetData` deletes with `repository.delete({})` (`admin.service.ts:214`), which
  TypeORM 0.3 probably refuses for its empty criteria. The model lets each of the
  three deletions take place or fail, which allows more than the code then does.
* The expiry UPDATE runs under READ COMMITTED: after waiting for the row's lock
  PostgreSQL evaluates the outer condition again, which is on the id alone, and
  keeps the subquery's result.
* A foreign amount that is not set reads 0 or null; both never match.
* PayPal captures an order once and refuses a second capture. Alipay and PayPal
  refuse to refund more than was paid, and Alipay answers a repeated
  `out_request_no` without moving money. PayPal's pro-rating to USD is left out:
  refunds are compared in cents of the price.
* A cashier poll whose query found the trade paid but whose booking failed goes
  on to the QR code in the code, and ends in Checkout; the QR code is refused
  unless the order is Pending, and a further poll takes that path.
* What fees and settlement amount `markPaid` computes is left out with `payAt`.
* Every order has a notification URL and a merchant. Requests that validation
  turns away leave no trace and are left out.
* A notification's timestamps are in units of the scaled delays, not seconds.
  The database does not fail in the middle of a handler, except on the inserts
  of notifications (`AnnounceFails`) and in the back office (`DeskFails`).
* The guard's queries before the nonce is saved are one step, `Arrive`: they are
  taken to be answered within the minute by which the nonce's lifetime exceeds
  the window. A merchant's clock is behind, or ahead by at most `MaxSkew`, less
  than that minute.
* Signatures compare the secret a message was signed with to the one read.
* BackOffice has one provider and one day, and `markRefunding` alone of the
  refund's steps, since it is what takes an order out of 'Paid'. A failed audit
  entry is swallowed, so audit entries are part of a handler's last step.
* A setting is a small number and a rate is multiplied by the margin;
  `SiteSettingsService.set` has no caller.

The client:

* One page stands for the several loads of it: what is closed is forgotten.
  Loading indicators, the `refreshing` flag and wording are left out.
* One logout per tab is under way; a second one while it waits changes nothing
  more.
* The list pages are one page with the union of their behaviour: a dialog may be
  closed while it submits, as on the merchants page, though the refund dialog
  forbids it.
* What is listed is a revision number, which every deed and every change made
  elsewhere raises.

## Where code and documents differ, without a run

Seen while modelling; each is a note because its run would repeat a guard, or
because the model excepts the case by name.

* `confirmPayment` checks the channel before the lock (`native-pay.service.ts:136`)
  and `createOrder` may change it before `markPaid`.
* A refund that was carried out and whose answer is lost is reported as refused
  (`alipay.service.ts:166`), and the order is rolled back to Paid.
* A refund that PayPal answers with PENDING is entered, announced to the merchant
  and shown like one carried out (`paypal.service.ts:119`), and its status is
  never asked for again: an order may be Refunded with nothing given back.
  `RecordedIsBacked` and `FullyGivenBack` except what is pending, by name and
  amount.
* `createOrder` of PayPal may save an order it loaded before a refund was entered
  (`paypal.service.ts:72`): the refund is forgotten and can be entered again, as far
  as the gateway gives. `FullyGivenBack` asks only that not too little is given.
* The number of a partial refund applied again is added again
  (`payment.service.ts:245`): only a closed order recognises it.
* The documented fifth retry of a notification does not happen, and the first
  waits 15s (`notify.service.ts:111`, `README.md:119`).
* Two deliveries of one message that overlap may both be admitted: the second
  one's `save` finds the row and updates it (`nonce-store.service.ts:36`).
  `RedeliveryRefused` is about deliveries that arrive after the nonce was entered.
* A merchant whose clock is more than a minute ahead can have a message accepted
  again when its nonce has been deleted.
* `findActiveMerchant` does not filter on `isActive` (`merchant.service.ts:60`), and
  two instances that start on an empty table may each create a default merchant.
* Settings are validated by key, not by value; `SettingsPage.tsx:180` promises immediate
  effect, but other instances keep their copies, and a start may overwrite with
  a default what an administrator saved meanwhile. The key
  `native_pay.qr_url` the native gateway reads (`native-pay.service.ts:95`) is not
  the one the settings page saves.
* A second upload of a day fails at the first trade it repeats; orders under
  refund are recorded as missing; a notification inserted between a reset's
  deletions is lost; a late save inserts a deleted order again; the success
  rate may exceed 100%.
* A push stops the poll for one more request; when that fails or is overtaken
  the page stays as it is (`server/README.md:103` calls the poll a safety net).
  A socket that reconnects does not join the room again. `markFailed` pushes
  'failed' also for a Paid order. `getCashierInfo` answers 'pending' for an order
  under refund. The scanner closed and opened again confirms twice.
* A late logout, or a late session check, undoes a newer login; a logout whose
  request fails leaves the cookie.
* The answers to a list's requests may overtake each other, and the last to arrive
  is shown, whatever it was asked for (`OrdersPage.tsx:82`): filters and list
  may disagree until the next load. `SettledShowsView` excepts it.
* A refund whose answer is lost can be sent again from its dialog. Merchant
  dialogs can be closed and opened again while a request is under way, and
  its answer closes the new one. A deed's reload uses the filters of the moment
  it was begun; a keyword typed on page two searches page two. The answer to a
  save of one group of settings replaces the drafts of the others.

## Not modelled

Fees and money conversions are pure floating-point arithmetic without state,
which TLA+ has no numbers for and unit tests reach. Encryption and signatures
are pure cryptography. Bootstrap, migrations, scripts, logging, filters and
interceptors are wiring. The landing page, the documentation page, the
dashboard overview and the sandbox page load once and offer deeds that
Merchants and BackOffice have. The contents of the lists and the sums of the
statistics are left out of BackOffice and Console.

## Plan

1. What the violation runs refute, proved under the assumption each of them
   needs: no two callbacks of one token for `CapturedIsNotFailed`, one quote for
   `AtCapturedRate`, an open order for `SuccessIsBooked`.
2. The steps of the liveness properties that are safety: that whatever waits
   has a next step that brings it nearer to its end.
3. **Fees**: the arithmetic in integer cents against a reference definition.
