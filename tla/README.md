# A TLA+ model of the TRENDWA back end

TRENDWA is a multi-tenant e-commerce platform: a NestJS application (`src/src`)
over one PostgreSQL database reached through Prisma (`src/prisma/schema.prisma`).
Its hard part is neither algorithms nor a network protocol. It is many short
request handlers that read some rows, decide, and then write in a transaction,
at READ COMMITTED, while other handlers do the same. The specifications in this
directory state what those handlers promise together, and check or prove it.

## 1. Inventory of the system

| component | state | operations | what is hard | what makes it correct |
|---|---|---|---|---|
| inventory (`inventory/`) | `InventoryItem` columns, `StockMovement` ledger, `StockReservation` rows, the `Product.stock` mirror | reserve, commit, release, adjust, first touch | adjustments are checked on a row read earlier; rows are created on first use; products vanish under them | columns balance, ledger replays to them, a hold is settled once, nothing is oversold |
| orders (`orders/`) | `Order` row, points ledger | status update, driver, payment, notes | any status may follow any other; checks are made outside the transaction | a settled order holds nothing; points follow the holds |
| checkout (`storefront/`) | orders, points, holds | `createGuestOrder` | retries, shortages, lock order, first touch | all or nothing; one order per request |
| customer account (`customer-account/`) | orders, addresses, returns | cancel, request a return, addresses | races with the merchant | cancels only what is still in the shop |
| returns and refunds (`orders/`) | `Return`, `ReturnItem`, `Refund` | request, decide, restock, refund | the same decision saved twice | restocked once, at most what was bought |
| mail queue (`mail/email-queue`) | `EmailLog`, timers | enqueue, process, retry | crash, retry, at-least-once | one mail per key, every mail settled |
| mails of store events (`mail/transactional-mail`) | `EmailLog`, methods in flight | one method per event | stages left and entered again, the plan read late, two mails of one method | every stage told once, the owner told, the plan gates the customers' mails only |
| subscriptions (`subscriptions/`, `admin/`) | `Subscription`, dates on `Store` | renew, extend, change, suspend, cancel | two rows, two writers | the rows agree; a cancelled one stays so |
| store applications (`store-applications/`) | application, history, store status | submit, review, approve, reject | two reviewers | the history is a path of the workflow |
| messaging (`messaging/`, `customer-chat/`) | conversation, messages, read marks | send, list, count, inbox | no transactions; a message arrives while the thread is read | nothing old is read unseen; no thread is lost from the inbox |
| catalogue (`products/`) | products, variants, images, limits | create, update, remove | limit counted before the insert, history counted before the delete | limit overrun by overlap only; nothing referred to disappears |
| storefront (`storefront/`) | two maps of promises, reviews, ratings | list, invalidate, review | stale and shared entries, aggregates written late | an answer fits its request; a rating fits its reviews |
| address book (`customer-account/`) | addresses | create, edit, delete, default | counts at READ COMMITTED, a promotion outside the transaction | one default |
| shipping and locations (`shipping/`, `locations/`) | cities, rates | set, bulk, copy, close, remove; quote | no transactions, `onDelete: SetNull`, a nullable unique key | one rate per city; all quotes agree |
| reports (`admin/`, `merchant-reports/`, `customers/`) | none: reads of orders, stores and stock | dashboards, trends, paged lists | the same figure computed several ways; months, half-open windows, paging | the figures agree; no unchanged row is missed |
| theme, settings, auth, monitoring, storage | single rows, libraries, I/O | CRUD | little or nothing | see section 7 |

The components meet in few places. Orders call the inventory service inside
their own transaction (`reserveForOrder`, `commitSale`, `releaseReservation`);
returns and merchants call `adjustStock`; the product form writes the stock
mirror beside it and deletes rows others refer to; a city's deletion clears the
rows of rates, addresses and orders; and the checkout asks the delivery rates for
its fee. Everything else, mail above all, is fired after the commit and not
waited for.

## 2. How the code is turned into actions

* One database transaction whose outcome depends only on atomic, conditional
  updates under row locks is one action. The transactions of an order are of
  that kind: their first statement inserts or updates the order's row, which
  locks it, and `reserveForOrder` updates with `available >= quantity` in the
  condition. For checkouts, whose statements lock rows of several products, this
  is not assumed but shown: `Checkout` runs them statement by statement.
* What a handler reads before its transaction, or reads and checks inside it
  without a lock, is an action of its own, and what it read is kept in a
  variable (`adjust`, `request`). Anything may happen in between.
* A query of Prisma with `include`, nested `select` or relations is more than one
  SQL statement: version 6.19 reads the related rows by further statements, since
  the schema does not switch on `relationJoins`. Where the difference can be seen
  (the inboxes of the messages, the order items of a return) each statement is an
  action. So are the statements of a transaction that takes no lock first, and the
  counts that run side by side in a `Promise.all` before a write.
* A rolled back transaction, a lost connection and a stopped process are the
  same thing to the other handlers: an abort action that forgets the request.
* Numbers that only an administrator chooses (prices of a discount, points of a
  delivery, stock typed into a form) are inputs taken from small sets.

## 3. Modules

* `StockLevels` holds the arithmetic of one inventory row: what each operation
  does to the four columns and to the ledger, which is kept as a sum per type of
  movement because that is all that replaying needs.
* `Inventory` is the inventory of a store. `live` and `stock` are the product
  rows and their mirror, `tracked`, `level` and `ledger` the inventory rows and
  movements, `hold` the reservations, `adjust` what a merchant's request has
  checked and not yet written. `ReserveForOrder`, `CommitSale` and
  `ReleaseReservation` are the service's methods of those names; `AdjustRead`,
  `AdjustWrite`, `AdjustAbort` and `AdjustFirst` are `adjustStock`; `EditStock`,
  `RemoveProduct` and `DropVariant` the product service.
* `OrderLifecycle` extends it with the orders: `order` is the row, `points` its
  points ledger, `balance` the customers' points, `request` what a handler has
  read. Its actions conjoin the inventory's own.
* `AtomicCheckout` is what a checkout promises, in one action. `Checkout` is
  `createGuestOrder` statement by statement, with the transactions of the
  database under it: `held` is what an open transaction has locked, `took`, `made`
  and `opening` what it has written and nobody else sees yet; `orders`, `stock`,
  `rows`, `available` and `points` change only when it commits. `Dedupe` and
  `CheckStock` come before the transaction; `InsertOrder`, `DeductPoints`,
  `FindNone`, `ReadOpening`, `CreateRow`, `Reserve`, `UpdateProduct` are its
  statements in the order of the code, the last five once for every line of the
  cart; `CatchConflict` is the handler of P2002. `Interrupt` is a timeout or a lost
  connection, `Victim` the deadlock detector. A retry is another attempt with the
  same key.
* `MailPromise` is what the mail queue promises, in four states per mail: none,
  owed, settled, dropped. `EmailQueue` is the queue of `mail/`: `log` is the
  `EmailLog` row, `job` the `process()` call or the timer of its retry, `sends`
  and `delivered` count what reached the provider. `Enqueue`, `Start`, `Send`,
  `MarkSent`, `Retry` and `GiveUp` are the statements between two awaits of
  `enqueue` and `process`; `RowGone`, `DatabaseFails`, `Restart` and `DeleteRow`
  what can happen in between.
* `Subscriptions` is the billing state of one store: `store` and `sub` are the
  two rows, `activities` and `changes` the two histories, `request` what each
  administrator's request has read. Reading is `BeginPlain`, `BeginExtend` or
  `BeginChange` (`findOrThrow` and `assertTransition`); the commits carry the
  names of the service's methods. The older endpoint of `admin.service.ts` has
  two commits, `updatePlanStore` and `updatePlanSubscription`.
* `StoreApplications` is the review of one store: `app`, `documents` and
  `complete` are what the merchant fills in, `hist` the status history, `mails`
  the mails queued and the status their text tells, `storeStatus` the column that
  opens the shop. A request reads (`Read`), writes (`approve`, `reject`, ..., all
  through `Record`), reads again and composes its mail from what it finds
  (`Compose`), and queues it (`Enqueue`). Each statement after the commit may
  fail (`TellingFails`); `untold` remembers the decisions whose mail is lost that
  way. A cancellation is its two statements, `DeleteMails` and
  `cancelOwnApplication`, between which others queue mails. Its requests are slots
  that are used again, so behaviours are not limited by the number of requests.
* `Returns` is what happens to one delivered order: `order` its payment columns,
  `ret` its returns with their lines, `linked` the lines whose product was not
  deleted since (`RemoveProduct`), `moves` the stock movements of each line, by the
  transaction and the entry of the form that wrote them, `refund` its refunds.
  `ReadForReturn` (an employee) or `ReadForRequest` (the customer, who must find no
  open return) comes before `CreateReturn`.
  `updateReturn` is `ReadForUpdate` (the return with its lines), `ReadLinks` (their
  order items, which tell whether there is a product) and `SaveReturn` with its
  restocking; its form is a sequence of entries that may name a line twice, as the
  schema and the loop of the code allow. `ReadForRefund` and `SumRefunds` come before
  `CommitRefund`; `UpdatePayment` is one write.
* `Catalogue` is the product form, in a store whose first products are one of
  `FirstProducts`: `product`, `variant` and `image` are the rows,
  `remote` the files on the storage, `line` and `moved` the order lines and
  movements that name a variant. An update takes the product's lock
  (`LockProduct`), counts the history of the variants the form omits
  (`CountHistory`), writes (`SaveProduct`), and only then deletes files
  (`Cleanup`); sales and adjustments are between their write and their commit
  when a form counts.
* `Storefront` extends it with the public side: `idCache` and `bestsellers` are
  the two caches, a promise each, whose `by` is the request that runs the query
  until it settles; `review` and `rating` are the reviews and the aggregate on the
  product's row. `ListProducts` takes the store's id from the cache, waits for
  another request's promise, or makes one (`NameStore`, `NamingFails`); after that
  await `LookUp` asks for the bestsellers, which `RunQuery` reads with the filter of
  the request that made the entry. `ResolveStore` reads the store and `Warm` writes
  what it read into the cache; `lag` is the time between. `Tick` is the passing of
  time against the entries' lifetime; `InvalidateCache` comes after the checkout
  that calls it.
* `OrderMails` is `transactional-mail.service.ts`: `stage` is the status of orders
  and returns, `reached` the stages they entered, `sending` the methods in flight
  and `queued` the keys of the queue. `Load`, `Check` and `JoinQueue` are the awaits of
  one mail; `MailsFor` says which mails a method dispatches and in which order.
  `EmailQueue` takes over where it ends.
* `Addresses` is the address book, `Conversations` both kinds of message thread,
  `Locations` the cities of the platform, and `Delivery`, which extends it, the
  rates of a store with everything that names a city. Each query of a service
  without transactions is an action: `OpenThread`, `ReadThread` and `Mark` are
  `listMessages`; `ListChats` (threads and unread counts) and `PreviewChats` the
  merchant's list of chats; `ReadInbox`, `PreviewInbox` and `CountUnread` the
  platform's, which counts last; `CountRates`, `CountOrders` and `CountHomes` the
  three counts before a city's deletion; and `BeginEditCity`, `FindOther` and
  `EditCity`, which writes only the fields given, the edit of a city.
  `CustomerAccount` composes them.
* `ReportData` holds what reports read: orders and stores, and a clock in half
  days with a calendar of three years. `SubscriptionReports` (the super admin's
  subscriptions page, with the EXPIRED status it derives), `PlatformReports`
  (`admin.service.ts` and the lists of customers) and `MerchantReports` are pure
  operators over it, one per figure as the code computes it: a `groupBy` is the
  function from keys to sets of rows (`GroupBy`), a sorted list any list in which no
  row comes after one it should precede (`Sorted`, for which ties are open, as they
  are in the code), and the queue of actions the set of its rows, without the order
  by severity. `StockPages` is the inventory report, with a
  reader who turns the pages of a list while rows change. `StoreReports` composes
  them and states that they agree.
* The modules whose names end in `_proofs` prove the properties of the module
  before the underscore, and of the modules it extends, for any constants:
  `OrderLifecycle_proofs` those of `Inventory` too, `Storefront_proofs` those of
  `Catalogue`, `CustomerAccount_proofs` those of its three parts. `Mails_proofs` is
  about `EmailQueue` and `OrderMails`, `Admin_proofs` about the super admin's side:
  `StoreApplications`, the reports and the stock list.
* The modules whose names begin with `MC` give constants values and symmetries
  for TLC; `EmailQueue` and `StoreApplications` need only their `.cfg`.

A definition whose comment begins with "Mutant" is a plausible mistake, kept
beside the definition it would replace: with it in place the property it is
listed for in `PROJECT.json` fails, which is how we know that the property
looks at that code.

## 4. Runs

The bounds are named constants that appear in guards. Each was chosen as the
smallest at which every action fires and every mutant of section 3 is caught.

**`inventory_stock`** (`MCInventory`, about 581,000 states). A product and a
variant of it, two orders of up to two units, stock up to 2, one merchant who
makes one adjustment of any kind, checked before it is written. Rows balance, the
ledger replays to them, reservations and columns agree, a settled reservation
stays settled, the mirror follows, and `available` is below zero by no more than
the merchant took by hand: checkouts alone never oversell. Two orders are enough
for the last unit to be contested; a product and a variant, because deletion
cascades from one to the other and only the variant can be dropped by the form.

**`orders_race`** (`MCOrderLifecycle`, about 402,000 states). One order, two
requests at a time of any kind, three writes of the row, product edits beside
them. Two requests and three writes cover every pair of overlapping handlers
followed by a reopening. The customer owns one point and a discount costs one or
two, so one price is affordable and the price can change. Delivered and cancelled
orders hold nothing, points follow the holds, the balance replays, and `StockSpec`
says that every step is one of `Inventory`'s own, which is what lets the inventory
be checked alone.

**`checkout_race`** (`MCCheckout`, about 50,000 states). Four calls: a request and
its retry, a request whose cart names the same two lines in the opposite order,
and a third that wants the point the second redeems. One line is a product whose
row exists, the other a variant whose row the first order opens. These are the
smallest carts in which two transactions wait for each other, two first rows of a
variant collide, and points and the last units are contested at once. One order
per request, a loser gets the winner's order, `PlacedAtomically` says that the
tables change as `AtomicCheckout` does, and `Answered` that every call ends.

**`checkout_first_touch`** (violation). See section 6.

**`mail_faults`** (`EmailQueue`, about 17,000 states). Two keys, one of them of a
store application and so deletable, the three attempts of the code, two faults.
The queue implements `MailPromise`, including that a mail is not owed for ever,
and every queued mail is settled if no fault happens and its row stays. Two
faults allow a lost update followed by a restart; keys do not influence each
other except through a restart, so two show all there is.

**`subscriptions_admins`** (`MCSubscriptions`, more than a million states).
Three requests of any kind, two plans, a month of one unit and a year of two, one
tick of the clock. Three requests are the least for a decision based on a row
that has since been changed and changed back. The two rows agree and the
histories explain them unless the older endpoint wrote; a cancelled subscription
comes back only through a request that had read it before.

**`applications_review`** (`StoreApplications`, about 1,392,000 states). Two slots,
one document, up to three decisions: enough for a submission, a request for changes
or an approval, and a decision that overlaps it, with the mail of either composed
before or after the other; a resubmission that is reviewed again is left to the
theorems, which are for any number. The history is a path of the workflow that
ends in the status, the store follows it, and every decision has a mail of its
type, is owed one, or failed with an error after its commit. A mail tells the
decision it is of, or one that overtook it. Of a cancelled registration nothing
comes back, and nothing stays but the mails queued between the two statements of
the cancellation.

**`returns_after_delivery`** (`MCReturns`, about 1,993,000 states). A line of which
one unit was bought, two returns, two refunds, two overlapping requests and three
transactions: enough to restock the same decision twice, in two forms or in one
that names the line twice, to lose the product before, between or after the
reads of a form, to ask for two returns at once, and for a refund to be summed
without the other. A decision taken back and taken again, and a return reopened
beside another, need four transactions and are left to the theorems.
`ReturnsSound` says that a
customer's return was never asked for while another was open: two open returns
mean that requests overlapped, or that an employee opened or reopened one; `RestockFollowsDecision` that nothing but a saved form moves stock, that movements
stay, and that a form saved over the lines it had read moves stock of a line only
when its decision leaves NONE and its product still exists: then once and as
decided, or, if it names the line more than once, at most once per entry; `RefundVerdict` that the order is REFUNDED exactly when its
refunds reach what was paid, except when another refund or payment came between.
The exceptions are the disagreements of section 6; the properties say there are
no others.

**`storefront_shop`** (`MCStorefront`, about 917,000 states). A plan of one product
and a store that is empty or sells one, of a variant and an image; two requests at
a time, two commits (two forms, or a form and a checkout, an adjustment or a
review; the theorems of section 5 are for any number), two filters, one of which
lets nothing through, a lifetime of one tick. In the empty store two creations both
find room and both commit. `LimitOverrun`: the limit is passed by
overlapping creations only, each by one. `NothingStranded`: an order line's variant
leaves only with its product, a movement's only behind a count that could not see
it, and a file leaves the storage only when nothing shows it, or only rows written
later. `ShopFresh`: a cached list is younger than its lifetime and is the list of the
filter it was made for, with every sale that passes that filter and whose checkout had
invalidated the cache before the request looked; a store that closed is hidden when
the lifetime of its entry is over, which `resolveStore` prolongs by the time
between its read and its write; a rating is that of its reviews unless its last recomputation was
overtaken or failed.

**`mail_events`** (`MCOrderMails`, about 2,559,000 states). An order, its return, a
refund, events of the store and of accounts, two requests that may act on an old
stage, four events, two methods in flight and one failure or stop. `NoticesSound`:
every stage entered is told, or was given up for a reason, and the owner hears of
every order whatever happens to the buyer's mail. `PlanRespected`: the plan gates
exactly the mails to customers.

**`account_requests`** (`MCCustomerAccount`, about 825,000 states). Two editors of
an address book with four edits and a failure; two callers in two threads with
three calls (four requests of both kinds) and a failure or a change of the plan; two askers with three requests
among two cities in two governorates. The parts share no row, so a behaviour
belongs to the book and the threads or to the delivery rates. `BookSound`: one
default, as long as requests do not overlap. `ThreadsSound`: `lastMessageAt` never
falls behind a message sent before, only a message that came while its thread was
being opened is marked unseen, and an inbox row previews no less than there was
when it was asked for and hides no message of then by counting nothing. `DeliverySound`: one rate per city, one per governorate if nothing
overlapped, and the same fee on the store's pages, for the merchant, for a saved
address and at the checkout. `KeepTheirCity`: a row loses its city only if it
named it after the deletion had counted.

**`reports`** (`MCStoreReports`, about 26,000 states). Two stores, three orders with
fixed lines, from 28 to 29 July by half days, two writes, windows of two days, a
contract that ends on the first day or ended on the day before. The five months before 29 July
begin in February, which is where the trend goes wrong. `ReportsSound`: gross sales
by five computations, orders by six, expected revenue by three agree,
distributions add up to their totals, and the trend covers the months it names on
the days it does. On the subscriptions page the tiles, the groups and the pages of
the list share out the same rows and the same revenue, for the queries of
`MCAsked`, and the page and the dashboard agree on what has expired and what ends
soon except on the day a period ends, which `DaysLeft` rounds up: then the
dashboard says expired and the page says expiring.
`PagesCover`: with three rows and pages of one, a reader who reaches the end has
seen every row that did not change, provided none left the list and none came
between the two queries of a page; both provisos are needed.

`CHECK_DEADLOCK FALSE` is set everywhere because these systems do stop: when the
only product is removed, when every request was served, when every mail is
settled, or when a bound is used up.

## 5. Fairness and proofs

Two modules assume fairness. `EmailQueue` has weak fairness of the work on each
mail, justified by the event loop, which runs every callback and timer it holds, and by
calls to the database and the provider that return or throw. Faults are not fair
and are bounded, and `EventuallySettled` excuses a mail when one happened.
`Checkout` assumes only that some statement of some call runs as long as one can,
where breaking a cycle of waiting transactions counts as one (PostgreSQL looks for
cycles after `deadlock_timeout`). Without the detector `Answered` fails, since
`createOrderTransaction` locks rows in the order of the cart. No other module
assumes any: a request that never continues is how they model a
process that died. Every safety property therefore holds with crashes at every
step.

All theorems are of the form "for every value of the constants that satisfies the
named assumptions of the module".

* **Inventory.** The inductive invariant is `IInv`: the types and the four parts of
  `StockReconciles`, `Balanced`, `LedgerReconciles`, `HoldsAccounted` and
  `FreshStart`. `HoldsAccounted` is needed because a row balances after a sale only
  if what is sold was reserved; `FreshStart` because a row opened from the mirror
  starts counting at zero. The counting argument (`BlockCardinality`, `CountAdd`,
  `CountRemove`) treats the units of a reservation as a set of pairs, so that sums
  become cardinalities. `OversoldOnlyByHand` adds one invariant, `ShortByLosses`:
  what a row lacks is at most what its DAMAGED and LOST movements took.
  `NeverOversells` assumes that no adjustment takes stock
  (`AdjustTypes \cap TakingTypes = {}`); without it the property is false.
* **Orders.** `OrdersImplementStock` shows that every step of an order is a step
  of the inventory or leaves it alone, so `IInv` holds here too. On top of it
  `OrdersIInv` adds `RequestsAgree` (what a handler read and still relies on, the
  buyer and the points redeemed, does not change) and `NoPointsBefore`. From
  these follow both parts of `SettledOnce`. `BalancesAlwaysReconcile` counts the
  rows of the points ledger as sets of units, as the inventory does its
  reservations.
* **Checkout.** `IInv` says what an open transaction may rely on: no two hold the
  same lock (`Exclusive`), and whoever has inserted an order holds its key and is
  the first to do so. One order per request follows, for any number of retries.
  `AtomicInv` adds that a line has one row, whose column is what the shop shows,
  and that what a transaction has reserved is locked and was there.
  `CheckoutIsAtomic` maps a commit to one step of `AtomicCheckout` and everything
  else to a stutter. It assumes `Covered`: each line has its row from the start or
  is covered by the unique index. That assumption is exactly what
  `checkout_first_touch` shows to be needed.
* **Mail.** `QueueInv` ties job, row and number of attempts of each key together.
  With it each step of the queue maps to a step of `MailPromise` or a stutter.
* **Mails of store events.** A notice changes hands: a stage is entered, a method in
  flight carries the mail, the queue has it or it is given up. `Told` says that a
  mail is in one of these places, and `MailsInv` that this is so of every stage a
  row has had (`BuyersTold`) and of the owner for every order (`OwnersTold`), where
  only the `Losses` count as an excuse and not the plan. `Reading` is needed
  because a request acts on the stage it read, and must not announce one the row
  never had; `InFlight` because the plan is read before the mail is queued. Each
  action then moves one mail from one place to the next (`MovesOn`, `DropFirst`).
* **Subscriptions.** `HistoryInv` is the conjunction of the types and the three
  parts of `RecordsAgree` with `HalfIsLegacy`: only the older endpoint is ever half done.
  `RevivalsAreStale` rests on `ReadAdmissible`: a request that was admitted saw a
  status its handler accepts. `ExtensionsGoForward` rests on `ExtensionsLater`: the
  end an extension is about to write is later than the one it read.
* **Store applications.** `AppsInv` adds `RequestsHonest`: what a request read is
  a status the application had at some time, what it owes is in the history, and a
  mail that it has composed tells that decision or a later one, since the row it
  was composed from only moves on. Once the row is gone nobody can compose, queue or
  decide, so what a cancellation left behind stays what it was. That the version counts the submissions is shown by counting the positions of
  the history.
* **Returns.** `RInv` is the types, `OneOpenReturn`, `Shapes` (the rows and what
  each kind of request carries), `ReadsHonest` (whatever return is open now was
  opened after a customer's pending request had found none, and a product that is
  there now was there when a form looked), `AskedBefore` (no
  return was asked for later than now) and `MovedBefore` (movements are of
  transactions of the past, so that those of a form are new). From it follows
  `ReturnsAlwaysSound`. For `AlwaysRestockFollows`, nothing but `SaveReturn`
  touches movements, and what it adds is the set `MovesOf`, a movement for each
  entry that restocks a line read without a decision; the last of the entries that
  decide gives the row its decision and is one of them.
  `VerdictsAreRight` compares two sums of refunds, before and after the commit, and
  induction over them is not to be had; so a sum is the number of pairs of a refund
  and a unit of its amount (`RefundAdds`), and adding a refund adds as many pairs as
  it has units.
* **Catalogue and storefront.** `KInv` says what a request under way may rely on:
  a form that holds the product's row still finds it, no variant that it will drop
  was sold or had a movement it counted, a sale or an adjustment that is being
  written keeps its variant, and the files a clean-up deletes are shown only by rows
  written after its commit (`Knows`, `OwnFiles`). An order line's
  variant is there as long as its product is (`LinesResolve`). `CreateBound` counts:
  products and creations under way together are fewer than the limit plus the
  number of requests, because each creation found room when it counted. `ShopInv`
  adds the two caches and the ratings. An entry that has settled is `Sound`: it has
  every sale of its filter that was ever invalidated, since the invalidation dropped
  what was older, and it stays so because orders keep their lines and products do
  not come back (`Steady`). A store that is closed has been so for no longer than
  the request that is about to cache its id has held what it read. A rating is that of
  its product's reviews, or a recomputation is under way, or one was overtaken.
  The theorems assume that every possible first set of products is within the
  plan, that there is a request, and that the customers are finitely many.
* **Address book and threads.** `BInv` and `CInv` are the invariants of these parts
  of `CustomerAccount`. In the book a request that met no other knows the rows as
  they are (`ReadsFresh`, `OneAlone`), so that the default it unsets is the only one;
  `Counted` bounds the rows by the edits that can have made them. In the threads
  `OwnMessages` and `CallsKeep` say that a call that stamps a thread stamps it with
  a message of its own, and that the rows of an inbox are honest, statement by
  statement, as to what they already tell of the messages there were when it was asked for;
  `AfterSent` that what a message was sent after had been sent. The newest message and the next default are least elements of sets of
  numbers, which the library gives without induction (`LeastElement`, from the
  well-foundedness of `<` on the naturals).
* **Delivery.** `DInv` is the types, `Dated` (a row names the write that made it),
  `OneRatePerCity` and `CountedFirst`: every row that names a city which a deletion
  has found unused in that row's table was written after the count of that table.
  `CitiesKept` follows at once.
  `DeliveryKept` adds `AskAlone`, for the names of cities and the rates of whole
  governorates, which no key keeps single: what a request that met no other has
  read is still so when it writes. The quotes agree because each of them depends on
  the one rate of a city.
* **Reports.** `ReportsAlwaysSound` says of any orders, stores, prices, plans,
  queries and windows what `ReportsSound` says of three orders. The invariant is
  `ReportsIInv`: the rows are of the kinds the code writes (`RowsOK`, of which
  `TypesAre` says that it is the type invariant without the lists) and the pages
  are sound (`ListInv`). That every write keeps the rows is where the clock comes
  in: a write stamps its own time, an end of a period is a month or twelve ahead,
  and a contract, a plan and an end come together. Everything else follows from
  the types, since the figures are functions of the rows. They are sums, counts and
  lists over finite sets, and `SumFunction` of the community modules is a recursion
  over subsets. So `Value` counts the units of a sum without recursion, and
  `SumUnique` shows that the recursion has no other solution, by a smallest
  counterexample among the subsets (`Smallest`) instead of an induction theorem.
  Then `PartSums` says that disjoint parts add up to the whole; a report adds up because its groups are
  parts of its rows (`PartSales`, `SoldWhole`, `GrossByStore`). Lists exist and have every
  row once (`ListExists`, `ListIsBijection`), for the orders by one and by two keys that
  the reports sort by (`ListByTwo`). `YearDays` to
  `LaterMonths` are the calendar: each day is of one month, and days of the
  trend's window are of its six months (`TrendWindow`, `TrendWholeByMonth`).
  The theorem has two hypotheses. `RangeDays = Window` compares a merchant's range with a
  dashboard's window of the same length, as both offer 7, 30 and 90. `Offset = 0`
  is a server whose local time is UTC; ahead of UTC the theorem is false, as section
  6 says. `ReportsTypeCorrect` needs neither.
* **The stock list.** A row that the reader still has to see is behind the pages he
  was shown and within those the last count told him of (`NothingSkipped`). Rows
  that change go to the front, so that for any other the rows ahead of it only
  become more (`ChangesAreAhead`); and as a row has fewer rows ahead of it than the
  list has, the reader cannot be at his last page and still miss one (`LastPage`).
  `PagesAlwaysCover` is of `PagesSpec`, whose steps `StoreReports` takes or leaves
  alone; so `PagesCoverBesideReports` is of `ReportsSpec`.

The theorems on `Delivery` are of `DeliverySpec`, the module's own specification.
`CustomerAccount` interleaves its steps with those of two others;
`AccountDelivers` shows that its behaviours are behaviours of `DeliverySpec`, and
`AccountRatesKept` follows.

Only model-checked: the liveness properties `Answered` and `EventuallySettled`,
which, like everything about ENABLED, are beyond the prover, and what the instances
of the runs assume besides the named assumptions. Every safety invariant and every
action property of the passing runs is a theorem, some under the hypotheses named
above. `DocReserved` is false.

## 6. What the code does not keep

The first of these is a run that ends in a counterexample. The others are
definitions beside the properties that carve them out; naming one of them in the
`.cfg` of its module's run, in place of the properties, shows the counterexample.

* `DocReserved` (run `checkout_first_touch`): two overlapping first checkouts of a
  product without variants both find no inventory row and both create one, each
  with the whole stock. The unique index does not stop them, since `variantId` is
  NULL; the schema calls that acceptable because one code path creates the row,
  but two requests can run it at once. The last unit is sold twice and
  `Product.stock` is negative. A partial unique index, or creating the row with the
  product, repairs it.
* `NoOversell` (`Inventory`): `adjustStock` compares with `available` as read
  earlier in its transaction and then updates by id alone. With a checkout in
  between, `available` becomes negative although the error message speaks of the
  units available now. A condition in the update, as in `reserveForOrder`, repairs
  it.
* `DocCancelledBeforeHandover` (`OrderLifecycle`): a customer cancels an order that
  was shipped or delivered between the check and the transaction. The units that
  were sold stay sold; the status says otherwise.
* `DocPointsRestored` (`OrderLifecycle`): the customer's cancellation does not give
  redeemed points back, the merchant's does.
* `DocNotStale` (`OrderLifecycle`): `expectedUpdatedAt` is compared outside the
  transaction and the update carries no condition on it.
* `DocNoDrift` (`Subscriptions`): `admin.updatePlan` commits the store and then the
  subscription; a renewal in between leaves them with different plans and dates.
* `TrendIsLastSixMonths` (`PlatformReports`): the trend goes back five months by the
  day of the month and only then to the first, so on 29 (unless in a leap year), 30
  and 31 July it starts in March instead of February and ends with a month that has not begun.
* `ReportsSound` where `Offset = 1` (`StoreReports`): the windows begin at local
  midnight and the keys of days and months are of UTC (`toISOString`), so a server
  ahead of UTC names its buckets after the days before: what is placed today after
  midnight in UTC has no bucket and is left out of the series, not of the totals. The
  months of the trends are each named after the one before them.

Seen while modelling and not given a run of their own, since the properties above
already carve them out:

* A retry of a checkout that passes the test for an existing order just before its
  first attempt commits, and looks at the stock just after, is refused for stock
  although its order was placed. `LoserGetsOrder` speaks of the conflict alone.
* `Product.stock` is not a mirror of `available` once a merchant types a number
  into the product form; what holds is `MirrorFollows`, step by step.
* The movement ledger is append-only until the product is deleted, and then gone.
* Queued mails live in timers. After a restart nothing sends them, and their key
  keeps a new attempt out (`phase` is then "dropped").
* A mail can be sent more than once, at most `MAX_RETRIES` times.
* An extension computed before a renewal and committed after it can shorten the
  period; hence the premise of `ExtendsForward`.
* A suspension of a subscription that was cancelled meanwhile, or a reactivation,
  brings it out of CANCELLED; hence the wording of `RevivedOnlyByStaleRead`.
* The comment at `store-applications.service.ts:212` says that mails do not go by
  cascade and are therefore cleared explicitly. A mail queued between that statement
  and the deletion of the application is not: it stays, with its `applicationId` set
  to NULL (`schema.prisma:714`). Hence the wording of `NothingAfterCancel`.
* The mail of a decision is composed from the row as it is by then: after an
  overlapping decision a mail of type `changes_requested` says APPROVED, and after a
  resubmission its key has the later version. When the bell notice, the second read
  or the mail's row fails, the decision stands, the handler answers with an error,
  and nobody sends the mail; when the process dies, it is owed for ever.
  `DecisionsTold` says that there is no other case.
* An identity document can be removed between the check of a submission and its
  commit, or by a request that read the draft; hence `EditedOnlyByStaleRead`.
* A suspension that read an application before its approval leaves the store open
  with a suspended application; `StoreFollowsHistory` says what does hold.
* A merchant's cancellation of a registration deletes it even when it was
  approved in the meantime.
* A form that names a line of a return twice restocks it twice: both entries see
  the decision NONE (`orders.service.ts:768`, 793). After the product was deleted, a
  decision is saved without a movement.
* A row of an inbox may preview an unread message beside an unread count of 0, or
  count a message that it does not preview, if the message comes between the two
  statements; hence the `had` in `InboxHonest`. The merchant's list of chats counts
  first, the platform's last.
* The key of the bestseller cache leaves out the filters
  (`storefront.service.ts:558`, 564): the list that was made for one category
  answers a request for another, without sales that request should have seen, also
  sales for which the cache was invalidated; `BestsellersFresh` is about the filter the
  entry was made for.
* `resolveStore` caches the id of a store that was closed after its status was
  read, and the store is then listed for the whole lifetime of the entry, counted from
  that write; hence the `lag` in `ClosedStoreHidden`. A failed query deletes the
  cache's key whoever made the entry.
* A return restocks the quantity approved, which nothing bounds by what was
  bought, and calls `adjustStock` without the line's variant
  (`orders.service.ts` 798-816).
* zod's `.partial()` keeps the defaults of the schema: an address edited without
  `isDefault` is no longer the default, and a city edited without `isActive` is
  active again.
* The slug of an Arabic name alone is empty, so a governorate's second city of
  that kind is refused by the unique key.
* A governorate without any rate of its own is delivered free; the checkout takes
  a city that is not active; `copyRates` may copy a rate that lost its city.
* The dashboard's `ordersByStatus` says 1 for every status there is, since it
  counts rows already grouped (`admin.service.ts` 919-921); the inventory summary
  counts products that are not active in its total; the comment at
  `merchant-reports.service.ts:130` speaks of delivered orders, but the order count
  of the payment mix is of all of them.

## 7. What is left out, and what comes next

Left out on purpose:

* `DropVariant` is one action although the code checks and deletes in statements:
  they are in one transaction whose first statement locks the product's row, and
  the check refuses variants that were ever touched.
* The creation of the default warehouse: every store has one. Two first orders of
  a store that has none can create two, by the same race as the first row.
* In `Checkout`: prices, shipping zones, inactive products and boxes, all of which
  only refuse a cart, as `Interrupt` before the transaction does; a unit is one
  entry of a cart. `OrderLifecycle` leaves out the test of the cached stock, which
  can only refuse more.
* A commit that succeeded and whose answer was lost is seen by other handlers as a
  success; the client's retry is another attempt in `Checkout`.
* In subscriptions: edits of a plan's price, payment rows, invoices, the rates of
  the analytics that count activities, and the creation of the row, which registration has done before. No
  handler sets PENDING_PAYMENT, but the column allows it and the handlers test it.
* In applications: the contents of the sections are one flag, the completion
  percentage is dropped, and uploads to the storage provider are not modelled.
* In returns: the merchant's switch `returnsEnabled`, which only refuses, and the
  columns a movement changes, which are `Inventory`'s.
* In the catalogue: names, prices, boxes, categories and their order. In the
  storefront: the lists and pages that are one read, the number of bestsellers asked
  for (there is one cache entry per number, and the model has one), the flag
  `isActive` of a product, and the order of a list.
* In locations and shipping: display order, search, and thresholds of free
  delivery.
* In the reports: roundings and labels. The queries of one `Promise.all` may see
  different states of the database; the operators are evaluated over one, except
  for the pages, whose two queries are two actions.
* Store theme and settings (single-row writes in which the last one wins),
  authentication, monitoring, storage, configuration, migrations, seeds and
  scripts: libraries, I/O and one-off programs. Notifications and the marketplace
  are single queries or inserts.

What is left to do, in this order:

1. An abstract shop that `Storefront` implements (lists as of a moment), as
   `AtomicCheckout` is for the checkout, and the proof that it does.
2. An abstract address book and an abstract thread, of which `BookSound` and
   `ThreadsSound` say the parts that customers see.
3. Draft and published theme, with the publication that reads one and writes the
   other.
