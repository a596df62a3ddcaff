# Verification of NestShop

NestShop is the backend of a web shop: a NestJS application over PostgreSQL
(through Prisma), with JWT sessions in cookies, mailed verification tokens,
photos in Cloudinary and mail through Resend. This directory holds
TLA+ models of its logic, the TLC instances that check them and theorems about
them that TLAPS proves.

## 1. Inventory

| Component | State | Operations that change it | Status |
| --- | --- | --- | --- |
| Cart and orders (`src/src/cart`) | tables `cart`, `cart_article`, `order_log` | `getCurrentCart`, `addToCart`, `changeQuantity`, `makeOrder`, `changeStatus` | modelled: `CartOrder`, `Shop` |
| User accounts, sessions, mailed tokens (`src/src/auth`, `src/src/user`, `src/src/verification-token`) | tables `user`, `user_session`, `verification_token` | `register`, `verifyEmail`, `resendVerificationEmail`, `forgotPassword`, `resetPassword`, `changePassword`, `login`, `refresh`, `logout`, `logoutAll` | modelled: `UserAuth`, `SessionLife` |
| Administrators (`src/src/administrator`, `admin.auth.*`) | tables `administrator`, `administrator_session` | `login`, `refresh`, `logout`, `logoutAll`, `changePassword`, `add`, `editById` | modelled: `AdminAuth`, `SessionLife` |
| Articles and prices (`src/src/article`) | tables `article`, `article_price`, `article_feature` | `add`, `edit`, and the `search` that reads while they commit | modelled: `Catalog`, `Shelf`, `ArticleSearch`, `LikePattern` |
| Categories, features (`src/src/category`, `src/src/feature`) | tables `category`, `feature` | `add`, `edit`, and the listings that read in several statements | modelled: `CategoryTree` |
| Photos (`src/src/photo`, `src/src/cloudinary`) | table `photo` and the file store | `uploadPhoto`, `deletePhoto` | modelled: `PhotoStore` |
| Browser cookies (`cookie.service.ts`, the strategies and guards) | the client's cookie jar | set by `login` and `refresh`, cleared by `logout`, `logoutAll` and a refused `refresh` | modelled: `BrowserCookies` |
| Mail (`src/src/mail`) | registered partials | `onModuleInit`, rendering, sending, which succeeds or throws | modelled: `Mail`; and a step of the callers |
| Database client (`src/prisma`, `src/src/generated`) | none | statements, constraints, transactions | partly: what each module says of its statements |
| Plumbing (`main.ts`, filters, interceptors, DTO decorators, config, throttler) | none that belongs to the shop | validation, formatting, wiring | not modelled |

**How they interact.** Every HTTP request is a handler: guards, a controller
method, services. All shared state is in PostgreSQL; a handler reaches it in a
sequence of awaited statements, each atomic by itself. Few handlers open a
transaction, those that do run at READ COMMITTED, and the code uses no explicit
locks and keeps nothing in memory between requests. So two things make the
shop's behaviour hard:

- *interleaving*: any number of handlers, in one process or several, are
  between two of their statements at the same time, and what a handler read may
  be stale when it acts on it;
- *partial failure*: a handler may end between two statements (process stop,
  lost connection, a statement refused, mail or file store failing), and what
  it wrote so far stays unless it was in a transaction.

There are no background jobs, queues, retries or timers: expiry is a comparison
with the clock when a row is read.

**What makes each component correct.**

- *Cart and orders.* One order for a cart, one confirmation for an order. What
  was in the cart is what is ordered and what is confirmed. No later call
  touches the goods of a placed order. A customer fills one cart at a time.
- *Sessions.* A credential is traded in once; a second trade ends the session.
  A revoked session stays revoked. A new password ends the sessions opened
  before.
- *Accounts.* Email and phone are unique, a registration never overwrites an
  account, an account counts as verified only
  by a token of its own that went out by mail.
- *Tokens.* A token serves once, for what it was made for; replacing a token
  leaves one that works.
- *Administrators.* As sessions; nobody acts on a session that has ended; a
  password change never overwrites another's. `editById` replaces a password and
  leaves sessions alone.
- *Catalog and prices.* The price of an article is the latest row of its
  history; an order shows the prices of the moment it was placed.
- *Search.* An answer is the page of one instant; pages partition the result;
  the keyword is matched literally.
- *Categories.* Names are unique; a cycle of parents is closed by an edit, or is a
  category added as its own parent; a listing shows nothing in two places.
- *Photos.* Every photo row has its file and every file its row, but for what a
  fault or a delete accounts for; a delete takes the file first.
- *Cookies.* The cookies of an account belong together; a browser that learns from
  its answers what the server did keeps the credential that counts, and a refused
  one is forgotten.
- *Mail.* A caller that is told a mail was sent has one with the provider, whole.

PROJECT.json lists the hazards, each at its line, with the properties that
cover it, and says of those that none covers why: most are races the code leaves
open, where a property could only repeat what goes wrong (two first calls of one
customer that both create a cart, carts with the same `createdAt`, two tabs that
sign in two kinds of account).

## 2. Plan

Done: `CartOrder` with `Shop`; `UserAuth` and `AdminAuth` with `SessionLife`;
`Catalog` with `Shelf`; `BrowserCookies`; `PhotoStore`, `ArticleSearch`,
`LikePattern`, `CategoryTree` and `Mail`, put side by side by `Storefront`; a proof
of every safety property and every refinement that a run checks (section 6).

Left: what the proofs cannot reach (the end of section 6) stays with TLC.

## 3. Modules

### CartOrder

`carts`, `orders` are the tables; the rows of `cart_article` are the function
`lines` of a cart. `requests` holds the handlers: `pc` names the statement a
handler awaits next, and the other fields are its local variables. `mailed` is
the sequence of confirmations the provider accepted, `clock` the number of
calls begun.

A call begins with `GetCurrentCart`, `AddToCart`, `ChangeQuantity` or
`MakeOrder` (the controller's methods). All four resolve the customer's cart in
`FindCart` (the latest cart) and `FindOrder` (whether it has been ordered; Prisma
loads the relation with a second statement), and `CreateCart` if there is no
usable one. Then:

| Endpoint | Steps |
| --- | --- |
| `addToCart` | `AddArticleToCart` (one upsert) |
| `changeQuantity` | `LookupLine`, `WriteLine` |
| `makeOrder` | `CheckOrder`, `CheckCart`, `InsertOrder`, `ReadDetails`, `SendMail` |

`Abort` ends a handler anywhere. `ChangeStatus` is the administrator's endpoint.

Abstractions. Ids are positions: rows are never deleted in these tables.
`createdAt` counts calls begun; two carts created while no call begins may get
the same value, as two carts created within a millisecond may, and Postgres
then returns either one. A cart created later by the clock of the database has
no smaller `createdAt`. The reads that only format an answer (the `getById` at
the end of `addToCart`) are part of the step before them. Articles and users are
not deleted by the code, so foreign keys never refuse; a body naming an unknown
article does not get further than the statement, which `Abort` covers.

`OldestCartsOf`, `NeverUsed`, `FitsAlways`, `SkipCart`, `NeverTaken`,
`FindOrCreateOrder` and `ReadNewest` are faulty forms of the definition that
follows each; no behaviour of the model uses them. They are what the
properties are tested against: put in place of the right form, each makes the
property PROJECT.json names for it fail.

### Shop

What a customer who makes one call at a time is promised: a basket to which
goods are added or whose quantities are set, orders that take the basket's
content and keep it, statuses that change. `CartOrder` maps to it by
`Basket` (the lines of the open cart) and `Placed` (the orders with the lines of
their carts): `ImplementsShop`.

### SessionLife

What the refresh endpoints promise of a session: a credential is traded for its
successor once, only the newest credential of a live session can be traded, and
a session that has ended is never live again. `UserAuth` and `AdminAuth` both map
to it (`Lives`, `Traded`): `ImplementsSessions`.

### UserAuth

`users`, `sessions`, `tokens` are the tables. `credentials` are the cookies
handed out: a browser, a second tab or a copy of the jar may send in any of
them at any time. `hashes` numbers password hashes: bcrypt salts, so no two are
equal, and a number names both the hash and the password.

| Endpoint | Steps |
| --- | --- |
| `register` | `FindEmail`, `FindPhone`, `CreateUser`, `SendMail` |
| `resendVerificationEmail` | `FindUnverified`, `Purge`, `InsertToken`, `SendMail` |
| `forgotPassword` | `FindVerified`, `Purge`, `InsertToken`, `SendMail` |
| `verifyEmail` | `FindToken`, `VerifyEmail` |
| `resetPassword` | `FindToken`, `ResetRevoke`, `ResetCommit` |
| `login` | `Authenticate`, `CreateSession` |
| `refresh` | `FindSession`, `FindUser`, `Rotate`, `Replay` when it loses |
| `logout`, `logoutAll` | `GuardSession`, `GuardUser`, `Logout` or `LogoutAll` |
| `changePassword` | `GuardSession`, `GuardUser`, `ChangeRevoke`, `ChangeCommit` |

Transactions. One that writes several rows is a step for its statements and a
step for its commit. A bulk `UPDATE` or `DELETE` reaches the rows its own
snapshot showed (`doomed`); a row inserted later escapes it. A handler that
updated a user row holds the row until it commits (`RowHeld`): another reset or
change of that user waits. A session row that a rotation updates at the same
time is updated twice, in either order, and ends revoked; so it is enough that
the commit revokes the `doomed` rows as they are then. A purged token that a
handler marked as used between purge and commit is re-examined by Postgres and
no longer matches `usedAt: null`, so it stays (`Purged`). The reverse order, a
purge that committed first, makes `markAsUsed` find no row: the transaction
rolls back (`RowGone`).

A mail is `mailed` when the provider has taken it. `mail.service.ts:138` sends every
mail to one constant address, whatever recipient it is given (section 5), so the model
leaves open who reads it: whoever does may call `verifyEmail` or `resetPassword` with
its token. `VerifiedByToken` and `ChangeIsProven` therefore speak of tokens of the
account that went out by mail, and not of the owner of the address.

The refresh token is a JWT of user, session and times in whole seconds: two of
a session within a second are the same string. `Rotate` chooses whether the
second has passed. The csrf token is random.

`GuardUser` folds `verifyPassword` of `changePassword` into the guard's read of
the hash, because `changePassword` works on the hash the guard read. Its second
reply stands for the refusal of a new password that is the current one.

The jar's access token is refused before any statement when it has expired:
such a call never begins. Nothing in the code deactivates a user
(`deactivateUser` is an empty method); `Deactivate` is an operator's doing in
the database.

`EndpointFor`, `EmailTaken`, `PhoneTaken`, `InsertThenPurge`, `LeaveUnused`,
`RevokeNone`, `NotRevoked`, `SameHash`, `Refuse` and `Always` are faulty
forms, used by no behaviour, as above.

### AdminAuth

As `UserAuth`, with the tables `administrator` and `administrator_session`, and
without mailed tokens.

| Endpoint | Steps |
| --- | --- |
| `login` | `Authenticate`, `CreateSession` |
| `refresh` | `FindSession`, `FindAdmin`, `Rotate`, `Replay` when it loses |
| `logout`, `logoutAll` | `GuardSession`, `GuardAdmin`, `Logout` or `LogoutAll` |
| `changePassword` | `GuardSession`, `GuardAdmin`, `ChangeRevoke`, `ChangeCommit` |
| `add` | `GuardSession`, `GuardAdmin`, `FindName`, `CreateAdmin` |
| `edit` | `GuardSession`, `GuardAdmin`, `Edit` |

The guards are the users'. An edit names its target: any administrator may
rename any other or set the other's password. `refresh` stores the user agent as it comes, where `login` cuts
it: a statement refused for its length is an `Abort`.

### Catalog

`stock`, `prices`, `features` are the tables `article`, `article_price` and
`article_feature`, `orders` stands for orders of one article each. A transaction's
own rows are seen by nobody else until `Commit`; a price row is in `prices` from
its insert on, uncommitted, because its id and its stamp are given then.

| Endpoint | Steps |
| --- | --- |
| `add` | `CreateArticle`, `Commit` |
| `edit` | `UpdateArticle`, `ReadPrice`, `InsertPrice`, `SnapshotFeatures`, `DeleteFeatures`, `CreateFeatures`, `Commit`, those its body calls for |

What keeps two edits apart depends on what they change. Prisma sends the update
of the article row, and with it takes the row's lock, only if a column is to be
set; an edit of the price or the features alone takes no lock on the article
(`RowHeld`). For the others only Postgres' waits on deleted rows and on the unique index of
article and feature (`DoomedByOthers`, `Waits`) order them. `locked`, chosen once,
says whether all edits of a behaviour take the lock: `HistoryHasNoRepeats` and
`ImplementsShelf` are about those behaviours, the other properties about all.

Prisma stamps `createdAt` in the client when it sends the insert, hence `clock`
at the insert and not at the commit or the begin of the transaction. The clocks
of several server processes are taken to agree.

### Shelf

What `edit` promises when its calls exclude each other: price and features of an
article are replaced together, as they were sent.

### ArticleSearch

`search` is one transaction at REPEATABLE READ: `SelectIds` is its first statement
(filters, current price, order, offset and limit), `LoadArticles` the second, which
sees the snapshot of the first. `Edit` commits in between, in one step: what
happens inside an edit is `Catalog`'s subject. `instants` is history, the
catalogues there were while the search ran.

### LikePattern

What the statement of the search does with a keyword: `Trim`, `escapeLikePattern`,
and the pattern matching of PostgreSQL's `ILIKE ... ESCAPE CHR(92)` as a recursive
function: for each rest of the pattern, the places of the text from which on it
matches. `FindsWhatWasTyped` compares it with the definition a customer would give,
by TLC over every text and keyword of up to three characters out of a letter in both
cases, both wildcards, the escape character and the blank, and by a proof over all.

### CategoryTree

`add` and `edit` of categories and features are one statement each (`AddCategory`,
`EditCategory`, `AddFeature`, `EditFeature`), refused by the unique and the foreign
keys. The code does not look at a parent's id; PostgreSQL checks the self-reference
when the row is there, so the id of the row being added is accepted as well as that
of any other (`Parent`). A listing (`getAll`, `getById`) is a statement for the
categories (`List`) and one for each relation included (`Read`), between which edits
commit. A cycle of parents is stated without following them: a set of categories that
going up never leaves has one in it that an edit moved, or one that was added as its
own parent (`OwnParent`).

### PhotoStore

| Endpoint | Steps |
| --- | --- |
| `uploadPhoto` | `FindArticle`, `Upload`, `CreateRow`, `CleanUp` if the insert is reported as failed |
| `deletePhoto` | `FindArticle`, `FindPhoto`, `DeleteFile`, `DeleteRow` |

Every call to Cloudinary and every statement may fail, some of them after having
been done. `spoiled` is history: files that a fault of their own upload touched;
`asked` are the photos whose row a delete has found. What the table and the store
owe each other is stated up to those two: nothing in the code repairs them later.

### BrowserCookies

The client's side of the sessions: the jar with the cookies of the two kinds of
account, tabs whose calls overlap, answers that arrive in any order or get lost,
and the server reduced to what a browser can tell of it (`SessionLife` is what
`UserAuth` and `AdminAuth` show of the full one). `Extracted` is the strategy's
choice of the access cookie, the user's before the administrator's, on every
endpoint; `Verdict` what strategy and guards then say; `Deliver` applies what an
answer sets or clears. `faults` and `serial` are chosen once.

A statement may fail and change nothing (`Fails`), or take effect and be reported as
failed (`InDoubt`): then a session is created, rotated or revoked, and the controller
(`user.auth.controller.ts:135-140`), which clears for an `UnauthorizedException` only,
neither sets nor clears a cookie. After a rotation in doubt the jar is behind a live
session: the guarded endpoints answer 401 for its csrf, and the next refresh, whose
credential no longer matches, is refused and clears it. What the browser is promised
without reservation is therefore `CoherentJar` and `RetryNeedsLogin`; `JarInSync` and
`SignedInIsServed` are promised to a browser that is `Informed`: it waits for its
answers, gets them, and no statement is in doubt. Sessions end by a revocation
(`ended`) or by time (`expired`); `updateMany` of a rotation asks for the first only
(`Rotatable`), the reads before it for both (`Lives`).

### Mail

`RegisterPartial` runs before the application listens; `Send`, `RenderTemplate` and
`SendEmail` are a call. Resend answers with an error instead of throwing, and
`sendEmail` turns it into an exception; the mail may be on its way all the same.

### Storefront

`AppModule` brings the modules of the application into one process. Those that keep
no state in common (photos, categories, search, patterns, mail) stand side by side
here, one of them moving at a time, in any order. The module takes its constants and
variables apart for each instance and states their properties under their names.

### MC modules

An MC module adds bounds and symmetry. `OneScenario` in `MCUserAuth`, `MCCatalog`
and `MCBrowserCookies` is an ACTION_CONSTRAINT: it keeps some calls from
beginning, so that one run covers several instances of different shape (which one,
the first state chooses) instead of their product. It never keeps a handler from
going on, so it hides no interleaving of what has begun and disables no step that
fairness is about.

`MCStorefront` gives `Storefront` its constants and lets one part move: `part`
chooses which in the first state, so the run costs the sum of the parts and not
their product. Nothing is lost by it: whatever the other parts do is a stutter of
this one, which is what the lemmas `TreePart`, `MailPart`, `SearchPart` and
`PatternPart` of the proofs say. A behaviour of the listings renames nothing and
names its features after the first category, since a listing is about relations.

`MCBrowserCookies` lets a browser wait for its answers only where it is `Informed`:
of one that is not, the properties say no more than of one that does not wait.

In all these modules definitions marked "Faulty form" are used by no behaviour:
each, put in place of the definition that follows it, makes the property that
PROJECT.json names for it fail.

## 4. Runs

| Run | Instance | What it shows |
| --- | --- | --- |
| `cart_race` | 1 customer, 1 article, 2 handlers, 5 calls | With any two calls overlapping: `OneOrderPerCart`, `OneMailPerOrder`, `OrdersAreClosed`. |
| `cart_serial` | 2 customers, 2 articles, 2 handlers, 4 calls, a customer's calls one after the other | `OrderHasGoods`, `MailTellsTheOrder`, `OneOpenCart`, and that the endpoints implement `Shop`, whatever handler is cut short. |
| `cart_empty_order` | 1 customer, 2 handlers, 3 calls | With overlapping calls `OrderHasGoods` fails: finding 1. |
| `accounts` | two scenarios: nobody registered, 2 addresses, 2 phones, expiry; or 1 member, handlers cut short, deactivation. 2 handlers | `PhonesAreUnique`, `RegisteredOnce`, `VerifiedByToken`, `NewestTokenStands`, `ChangeEndsSessions`, `ChangeIsProven`. |
| `sessions` | 1 member, 2 handlers, 5 calls, fair | `TradedOnce`, `ReplayEndsSession`, and that the endpoints implement `SessionLife`. |
| `admins` | 2 names, 1 administrator at the start, 2 handlers, expiry, deactivation, handlers cut short | `OneOfAName`, `NobodyActsLate`, `ChangeIsProven`, `ChangeEndsOthers`, and that the endpoints implement `SessionLife`. |
| `catalog` | 2 prices, 2 feature lists, 2 handlers, 3 calls; edits that take the row lock on 2 articles, or any edits on 1 article and an order | `EveryOrderHasPrice`, `ListsMixOnlyInOverlap`, `OrderPriceStands`, `HistoryHasNoRepeats`, and that the endpoints implement `Shelf`. |
| `browser` | a user's and an administrator's cookies in one jar; 4 calls one after the other, or 3 that overlap two at a time; four sets of faults that between them have every kind; fair | `JarHolds`, `SignedInIsServed`, `RetryNeedsLogin`, `RefusedIsForgotten`. |
| `storefront` | one part in a behaviour: 2 articles and 4 photo calls with every fault; 3 categories, 2 features, 2 edits; a listing that overlaps an edit; 2 searches and an edit; texts and keywords of up to 3 characters; 2 mails | `InStep`, `TreeHolds`, `ListingsHold`, `AnswerIsOneInstant`, `PagesPartition`, `FindsWhatWasTyped`, `ToldWhatWasSent`. |
| `token_twice` | 1 member, 2 handlers, 3 calls | `TokenServesOnce` fails: finding 2. |
| `old_login` | 1 member, 2 handlers, 3 calls | `ResetLeavesNoOldSession` fails: finding 3. |
| `browser_agent` | an administrator's browser with a long User-Agent, 3 calls | `AgentFits` fails: finding 4. |

**Bounds.** `MaxCalls` bounds the calls begun, and with them every table. Two
handlers at a time suffice for every race listed: each hazard is between a
handler that read and one that wrote in between, and a third handler can be
replaced by one that ran before or between, since a slot is free again as soon
as its call ends. Five calls of `cart_race` allow filling a cart, two
overlapping orders of it, and a call before or after them; the four of
`cart_serial` allow either customer to fill, order and begin a second cart while
the other does the same up to its order. Five calls of `sessions` allow a login
and four calls with its credentials: two refreshes that race, one that trades
what came of them, and one that ends the session. Three calls of the catalog are
an add and two edits that overlap; two instants tell a price that is stamped
before an order from one stamped after it, and ties of stamps happen. Three categories close the
shortest cycle that is not one of two, and two edits close it. Three overlapping
calls of the browser are a login and two calls whose answers cross; the four of a
browser that waits are a login of each kind and two calls that confuse them. Two
photo calls at a time and four in all upload a photo, let two deletes race for it
and another upload come in between. `MaxQuantity` stands for
2^31 - 1; with the amounts 0 and 1 it is reached within the calls there are.
Handlers are interchangeable, so `Symmetry` permutes them in the safety runs;
the run with a liveness property uses none.

**Deadlock** is not checked (`CHECK_DEADLOCK FALSE`): when the calls are used up
and every handler has replied the model stops, as the server idles.

**Fairness.** `FairSpec` is weak fairness of `Step(r)` for every handler: a
statement a handler awaits is answered, and Node runs its continuation. It says
nothing about which calls come or which of two racing handlers is first. The
run `sessions`, which uses it, has no `abort`: a handler that is cut short promises
nothing. The `FairSpec` of `BrowserCookies` says the same of the server's steps and of
the delivery of an answer that is not lost; `RefusedIsForgotten` is about the
behaviours in which no statement fails or is in doubt and no answer is lost.

## 5. Findings

1. `OrderHasGoods` (`orderLog.service.ts:39-43`). `add` checks that the cart has
   articles and inserts the order in different statements, without a
   transaction. `changeQuantity` with quantity 0, sent by the same customer
   meanwhile, deletes the last line in between: an order without goods is placed
   and confirmed.
2. `TokenServesOnce` (`verification-token.service.ts:76`). `verify` is not part of
   the transaction that marks the token as used, and `markAsUsed` does not look
   at `usedAt`: two handlers with one token both set a password.
3. `ResetLeavesNoOldSession` (`user.auth.service.ts:107-128`). A login that
   verified the old password before a reset creates its session after it.
   `ChangeEndsSessions` states what the code does guarantee: every session that
   existed when the call of the reset began ends.
4. `AgentFits` (`admin.auth.service.ts:160`). `login` of an administrator cuts the
   User-Agent to the column's 255 characters, `refresh` stores it as it comes: a
   browser with a longer one signs in, and every refresh ends in an error.

Observed while reading, without a run, because no line of the repository promises
otherwise:

- a keyword that is `null`, and a feature filter without values, pass the DTO and
  throw in `search` (`article.service.ts:249`, `:258`; `Throws` in `ArticleSearch`);
- a keyword of blanks passes the DTO's minimum length, which is taken before the
  trim (`article.search.dto.ts:32`), and finds everything;
- every mail, those with tokens included, goes to an address in the source
  (`mail.service.ts:138`, `Hardcoded`): a verified account's owner never got its token;
- a category may be made its own parent or its ancestor's by an edit
  (`category.service.ts:75`), and its own parent when it is added with the id the
  sequence gives next (`:51`); `CycleNeedsEdit` says that nothing else closes a cycle;
- a refresh whose rotation commits and is reported as failed leaves the browser with a
  credential that no longer counts (`user.auth.controller.ts:135`): the next refresh
  signs it out;
- totals in mails are sums of floating-point numbers (`mail.service.ts:72`).

Two edits of a price alone that overlap both append the same price, since nothing
keeps them apart; the price on sale is right either way and no line promises a
history without repeats, so `HistoryHasNoRepeats` is stated for the edits that
take the row lock and this is not a finding.

`MailTellsTheOrder`, `OneOpenCart` and the refinement of `Shop` also need a
customer's calls not to overlap; no line of the repository claims more, so they
are checked under `Serial` and not listed as findings.

## 6. Proofs

`CartOrderProofs` proves, for any users, articles, handlers, amounts and number
of calls, from `CartAssumption` alone and whether or not `Serial` holds:

- `TypeCorrect`: `Spec => []TypeOK`;
- `CartOrderedOnce`: `Spec => []OneOrderPerCart`;
- `MailedOnce`: `Spec => []OneMailPerOrder`;
- `ClosedOrders`: `Spec => OrdersAreClosed`.

The inductive invariant `Inv` adds to the properties:

- `References`: an order refers to a cart that exists, a confirmation to an
  order that exists; no order is more than one cart's;
- `Handlers`: what the locals of a handler mean at each `pc` (the cart it holds
  is its own customer's, the order it goes on to mail is the one it inserted);
- `SeenBound`: a handler has seen no more orders than there are;
- `HoldsNoOldOrder`: the cart that a handler is going to write was not ordered
  when its call began, which is the reason `OrdersAreClosed` holds: `FindOrder`
  looks for an order after the call began, and a fresh cart has none. The property
  is about the handler whose own step writes (`WritesOrdered`): an ordered cart
  changes only by a call that began before the order, whatever other calls of the
  customer, the ordering one included, are still in progress;
- `OneMailer`: an order is either mailed or in the hands of one handler, which
  is the reason `OneMailPerOrder` holds in spite of `SendMail` having no check
  of its own.

Each action has its lemma; `Invariance` collects them, and `ClosedOrders` argues
over the steps of `Next` that change `carts` from `HoldsNoOldOrder`. TLC checks
`Inv` itself on the instance of `cart_race`.

`UserAuthProofs` proves of `UserAuth`, for any users, phones, handlers and number
of calls, from `AuthAssumption` alone:

- `TypeCorrect`, `CredentialsTradeOnce` (`TradedOnce`), `PhonesStayUnique`
  (`PhonesAreUnique`), `VerifiedByOwnToken` (`VerifiedByToken`), `NewestStands`
  (`NewestTokenStands`), all invariants;
- `AccountsKept` (`RegisteredOnce`), `NewPasswordEndsSessions`
  (`ChangeEndsSessions`), `NewPasswordProven` (`ChangeIsProven`), of every step;
- `SessionsImplemented`: `Spec => ImplementsSessions`.

Its inductive invariant `Inv` adds:

- `References`: a session's credential is its own, a credential's session exists
  and its parent was issued;
- `Untraded`: the credential that counts for a session has not been traded. It is
  why `TradedOnce` holds: `Rotate` trades the one that counts and replaces it by
  a fresh one;
- `Handlers` (`Sound`): what the locals of a handler mean at each `pc`. A token
  that a handler acts on went out by mail, is of the account it acts for and of the
  right type; the rows a purge reaches are the user's; the `csrf` of a handler about to
  rotate is the credential it read;
- `OldDoomed`: while a password is being replaced, every session there was when
  the call began has ended, is among the rows that end with the commit, or is
  the caller's own. Sessions are only appended and never come back to life, so
  the rows the bulk UPDATE saw include all of them;
- `OneHolder`: a user row is held by one transaction at a time, so the hash a
  change compared with is still there at its commit.

What a step owes to the invariant is stated table by table (`SessionsKept`,
`TokensKept`, `UsersKept`); an action's lemma shows what it owes for the tables it
writes. The refinement maps a session row to a life (`Lives`) and the parents of
the credentials to the traded ones (`Traded`): `CreateSession` is `Open`, `Rotate`
is `Trade` when the row still matches, every revocation is `End`, and all else
stutters.

`AdminAuthProofs` proves of `AdminAuth`, from `AdminAssumption` alone:
`TypeCorrect`, `NamesAreUnique` (`OneOfAName`), `GuardsHold` (`NobodyActsLate`),
`ProvenChange` (`ChangeIsProven`), `OthersEnd` (`ChangeEndsOthers`) and
`SessionsImplemented`, along the same argument: `References`, `Handlers`,
`OneHolder` and `OthersDoomed` as above, and `LateIsEnded`, a call made with a
session that had ended by then has it ended still, and has not got past a guard.

`PhotoStoreProofs` proves of `PhotoStore`, from `PhotoAssumption` alone and for any
set of faults: `PhotoTypes` (`TypeOK`) and `PhotosInStep` (`InStep`). Its `Inv` adds

- `Numbered`: files are numbered as they are stored, so a new one is nobody's;
- `Handlers`: an add that is about to insert its row holds a file that is stored,
  not asked for and without a row; one that cleans up holds a file without a row,
  or one that a fault touched; a delete past the destruction of its file has none;
- `Apart`: no two adds hold the same file, so a clean-up takes nobody else's.

`TableStep` says what an action may do to rows and files without harm to the other
handlers: take away what a delete asked for or the handler holds, ask only for what
has a row, add only the row of the file it holds. Each action is shown to do no more.

`CatalogProofs` proves of `Catalog`, from `CatalogAssumption` alone: `CatalogTypes`
(`TypeOK`), `OrdersArePriced` (`EveryOrderHasPrice`), `ListsMixInOverlap`
(`ListsMixOnlyInOverlap`), `HistoryRecordsChanges` (`HistoryHasNoRepeats`) and, of
every step, `ShownPricesStand` (`OrderPriceStands`). Its `Inv` adds

- `Tables`: what refers to an article refers to a committed one, no stamp is later
  than now, and a committed article has exactly one latest price. The last part
  needs no induction over rows: a commit adds one row to a set that has a latest
  one (`OneMore`);
- `Sound`: what the locals of a handler mean; the price row it inserted is of its own
  article and stamped after its call began, which is why a commit changes the price
  of orders placed after the call began and of no other;
- `Clears`: a handler that replaces features holds, from its snapshot on, every
  feature committed before its call, the reason why lists mix only in overlap;
- `Excludes` and `Apart`: under the lock one handler at a time is beyond the update
  of an article; its price differs from the current one and its row is the last.

The second part of `CartOrderProofs` proves what needs a customer's calls to come one
after the other: each of its theorems assumes `Serial`, and nothing of how many customers call at
once, what is aborted or which mail is swallowed. They are `OrdersHaveGoods`
(`OrderHasGoods`), `MailsTellTheOrder` (`MailTellsTheOrder`), `OneCartToFill`
(`OneOpenCart`) and `EndpointsImplementShop` (`Spec => ImplementsShop`). `SerialInv`
adds to `Inv`:

- `OneCallEach`: of two handlers of one customer one is idle;
- `Dated`: no cart is later than the clock, and no two carts of a customer have the
  same `createdAt` (a call makes at most one cart and begins after the call that made
  the last one), so which cart is the latest is never a matter of chance;
- `OldOnesOrdered`: only a customer's latest cart may be without an order, since a cart
  is created only by a handler that found the latest one ordered;
- `StillTrue`: what a handler read of its cart still holds, because only its own
  customer could have changed it.

In the refinement `AddArticleToCart` is `Put`, `WriteLine` is `SetQuantity`,
`InsertOrder` is `Place`, `ChangeStatus` is `SetStatus`, and everything else,
the creation of a cart included, stutters.

The second part of `CatalogProofs` proves `TransactionsImplementShelf`:
`Spec => ImplementsShelf`, from `CatalogAssumption` alone. `AllReady` adds to `Inv` what a handler
is about to delete: rows of its own article, and, under the lock, all there are. Then
`Commit` is the only step the shelf shows, and it is `Add`, `SetBoth`, `SetPrice`,
`SetFeatures` or a stutter (the price sent was the current one and no features came),
according to what its handler inserted and replaces.

`BrowserCookiesProofs` proves of `BrowserCookies`, from `BrowserAssumption` alone:
`TheJarHolds` (`JarHolds`, which is `TypeOK`, `CoherentJar` and `JarInSync`) and, of
every step, `SignedInServed` (`SignedInIsServed`) and `RetriesNeedLogin`
(`RetryNeedsLogin`). Its `Inv` adds

- `References`: a session's credential is its own, and every credential in the jar, in
  a call or in an answer was issued for an account of that kind;
- `Handlers` (`Sound`): what a call carries, and that only an answer sets or clears;
- `InTouch`: for an `Informed` browser, the one call in progress has
  sent what is in the jar; and the jar agrees with the session opened last, or the
  answer under way will make it so. This is why a refusal may clear: a credential in
  step that is refused belongs to the last session, which has ended then.

`TablesKept` says what any step does to sessions and credentials, and `Steady` what one
does that issues nothing; the worthlessness of a credential is stable under both.

`StorefrontProofs` and `SearchProofs` prove what the parts of `Storefront` guarantee
while the others run too, from `StorefrontAssumption`, which is what the parts assume
of their own constants. Each theorem is about `StoreSpec`: the guarantee is proved of
the part's own specification, and every step of another part is a stutter of it.

`StorefrontProofs` proves, for any names, listings, templates and partials and any
numbers of rows, edits and calls, `TreeAlwaysHolds` (`TreeHolds`), `ListingsAlwaysHold`
(`ListingsHold`) and `ToldWhatWasSentAlways` (`ToldWhatWasSent`).

- `TreeInv` adds to `TreeHolds` that parents exist, perhaps as the category itself.
  This is why an added category brings no other cycle: nothing that was there before
  has it as its parent, so a set that going up never leaves is one without it too,
  unless it is its own parent;
- `ListInv` says of each listing (`Listed`) what its rows and relations owe each other
  and that, unless a change overlapped it, its rows are those of the table still. A
  change that passes while it runs sets the flag (`OverlapListed`);
- `MailInv`: once a call runs every partial is registered; of a call's mails the
  provider has at most its own, whole, none before it is posted and one when it has
  returned.

`SearchProofs` proves of the search, for any catalogue and any number of searches and
edits, `AnswerAlwaysIsOneInstant`
(`AnswerIsOneInstant`) and `PagesAlwaysPartition` (`PagesPartition`). What the
transaction holds (`Searched`) is simple; the work is in the statement:

- `BeforeIsTotal`: ORDER BY with `article_id` as its second column is a strict total
  order, for which an article's current price must be one (`LatestExists`);
- `SortedRows`: so a sorted enumeration of what was found exists, has every row once,
  and the place of a row is its rank, the number of rows before it and one;
- `PageIsByRank`, `PageIsAnswer`: LIMIT and OFFSET cut out the ranks of the page, and
  loading the articles from the same snapshot gives the answer of that catalogue;
- `LaterPage`, `SameRanks`, `PagesApart`, `FirstPage`: pages are disjoint intervals of
  ranks, and one before a page that is not empty is full.

Of `LikePattern` it proves `PatternFinds`, for texts and keywords of any characters and
length, and from it `FindsWhatWasTypedAlways` (`FindsWhatWasTyped`). `Escaped` and `EscapedAt` say where in the escaped keyword each
character's chunk is; `FitsStep` that one chunk, with its escape or without, matches
exactly the one character it stands for; going down through the keyword, the rest of
the pattern from a chunk on matches where the rest of the keyword is (`Fits`).

These proofs need induction over numbers. The library's rule takes a predicate, which
no installed backend instantiates; `Induction` is the rule for a set instead, proved
from the well-foundedness of `<` (`NatLessThanWellFounded`, `WFMin`). A recursive
function is first shown to exist (`ReplacesExists`, `MatchesExists`), then its CHOOSE
is unfolded.

TLC checks all these inductive invariants on the instances of the runs.

Only model-checked: `ReplayEndsSession` and `RefusedIsForgotten`, liveness properties
under fairness, which this prover does not reach (nor `ENABLED`). What they rest on
besides fairness is proved:

- `ReplayIsSeenThrough`: from the moment two refreshes are about to rotate a session,
  and until it has ended, some handler has lost its rotation (`Loses`) or two still
  contend (`Hunted`); of two that contend the one that succeeds leaves the other with a
  credential that no longer counts. It assumes that no handler is cut short, without
  which the property is false;
- `RefusalReachesTheJar`: a refresh whose credential no longer counts stays one until
  an answer takes that credential out of the jar, because its answer clears or sets
  another one (`Settled`). It assumes a User-Agent that fits: with a long one an answer
  may be an error, which clears nothing, and the session end before it arrives.

Fairness of the handlers' steps adds that the loser, and the answer, get their turn.

## 7. Not modelled

- The generated Prisma client (`src/src/generated`, five sixths of the lines under
  `src/src`): it is produced from `schema.prisma`, has no logic of the shop, and
  what the database does with its statements is part of each action.
- Request plumbing: DTO checks of shape (the ranges they leave are the constants'
  assumptions), filters, interceptors, Swagger, configuration, and the throttler,
  whose counters belong to a library and are kept in memory per process.
- Look-ups that change nothing and consist of one statement; templates, wording
  and layout of mails; arithmetic of totals.
- Rows that operators add, change or delete in the database by hand, except the
  deactivation of an account.
