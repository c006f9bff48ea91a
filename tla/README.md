# Pape-SDK: a TLA+ model

Pape-SDK is the account server of a game: it registers people, logs their
devices in, tells the game servers (BOOI) who a login belongs to, and ends
accounts. It is one Go process with one SQLite database (a single connection,
`store.go` `Open`), several HTTP listeners and one background goroutine. Every
handler is a sequence of SQL statements and network calls, and other requests
run between any two of them. The same process intercepts the game's HTTPS
traffic as a proxy, and serves a user centre, a bundle of web pages that calls
its handlers. What goes wrong in such a program goes wrong between two steps,
and that is what is modelled here.

Paths below are relative to the repository; `store.go` is
`internal/store/store.go`, `app.go` is `internal/app/app.go` and so on; "the
bundle" is `static/usercenter/assets/*.js`.

## 1. Inventory

| component | code | state | operations | what is hard about it |
|---|---|---|---|---|
| device sessions and tokens | `auth_sessions.go`, `store.go`, `admin.go` | `auth_sessions`, the token mirror in `users` | login, refresh, log out one or all, delete, restore, migration at `Open` | two copies of the pair and two marks of revocation that must agree; a migration that runs on every start and may crash half-way |
| verification codes | `store.go` 599-699, `app.go` 157-307, 450-502, `international.go` | `sms_verifications`, `sms_events` | issue, mirror, verify | pacing, delivery and recording are apart by seconds; a code is a row per scene |
| cancellation and deletion | `cancellation.go`, `account_deletion.go`, `app.go` 821-1015, `booi/client.go`, `inner.go` | cancellation columns, roles on the game servers | apply, withdraw, finalizer, delete now, restore, login check | a pass works with an old list across slow HTTP calls; outages, lost answers, crashes; must end eventually |
| account names | `bindings.go`, `store.go`, `admin.go`, `international.go` | `phone`, `email`, two unique indexes | register, bind, change, unbind, delete, restore | a name is looked up in two columns with two indexes; unbind and restore decide on what they read earlier |
| log-in, registration, passwords | `app.go` 343-370, 545-689, 1370-1472, `store.go` 701-747 | policy flags, `users.password_hash` | log in, register, reset, recover, change | the policy is checked on one reading and acted on after another |
| account numbers and upgrade | `store.go` 111-597 | `users.id`, `sqlite_sequence`, references | `Open`, register, hard-delete | numbers are known outside; every start looks at them again |
| admin interface | `inner_admin.go`, `inner.go`, `admin.go` | the above | create, update, delete, restore, log out, set password | interleaves with everything |
| game-server pool | `booi/client.go`, `roles.go` | none | list and unbind roles | some servers answer and others do not |
| interception proxy, websocket | `proxy.go`, `proxy_forward.go`, `app.go` 1546-1588 | open connections, certificate cache | CONNECT, tunnel, intercept, forward | hijacked connections; goroutines that wait for each other, and one channel two of them want closed |
| user centre | the bundle | what a page shows, a cached secure token, the promise of the captcha's script | log in, the cancellation wizard, appeal | no button waits for an earlier click; a call may be repeated after a challenge; answers are lost; the QR encoder's search weighs approximately |
| upstream fallback | `upstream.go` | none (archive files) | forward, archive | - |
| configuration | `config.go` | read once | choose an application and a directory | map order decides ties |
| request decoding | `crypto/bff.go`, `httpx` | none | decrypt, sign | - |
| game documents | `data/jsonc.go`, `config/` | files | read, strip comments | - |
| object storage, reports, geolocation, security status | see PROJECT.json | little or none | - | - |

The components meet in the `users` table. Sessions, names, numbers, passwords
and the cancellation state are columns of one row; each module keeps the columns
its properties need and takes the other components' writes to them as actions of
its own (deletion, for instance, is in five modules). They also meet through
calls: the finalizer and the admin interface call the pool; game servers call
`verify-login`, which reads the session and the cancellation columns; login,
reset and unbind consume a verification code; the user centre calls the
cancellation handler and shows what it was told; a websocket or any other
request may arrive through an intercepted connection of the proxy.

What makes each correct, in short: a token lost stays lost and a device keeps
its own (sessions); a code works once, in time, for whom it was delivered to
(codes); nobody's account ends before the cooling-off period has been served,
and it does end (cancellation); a name leads to one account (names); the
registration policy holds (log-in); a number means one account for ever
(numbers); what is relayed is what was sent, and every connection is given back
(proxy); a call is carried out once, and a page claims only what happened (user
centre).

## 2. Modules

| module | models | composed with |
|---|---|---|
| `SessionContract` | abstract: what the token store promises a device | |
| `AuthSessions` | sessions, mirror, migration, crash | implements `SessionContract` |
| `VerificationCodes` | issue, mirror, verify | |
| `Cancellation` | wizard, finalizer, game servers, login check | |
| `AccountDirectory` | abstract: a directory of log-in names | |
| `Bindings` | columns, indexes, tombstones, unbind, restore | implements `AccountDirectory` |
| `LoginFlow` | the handlers that log in, register, set passwords | |
| `AccountIds` | numbering at `Open`, sequence, references | |
| `CallContract` | abstract: what a page may expect of one call | |
| `PassportClient` | a call: attempts, secure tokens, challenges | implements `CallContract` |
| `UserCenter` | log-in dialog, cancellation wizard, the handler they call | extends `PassportClient` |
| `AppealQr` | the QR code of the appeal page | run together with `UserCenter` |
| `ProxyConnection` | one CONNECT request and its goroutines | |
| `<module>_proofs` | the theorems about a module; those of `UserCenter` and `AppealQr` are in one | |

`MC*` modules supply symmetry sets and values for TLC only; `MCUserCenter` also
puts the appeal page, a document of its own, beside the other pages. An operator marked
`\* mutant:` is a deliberate bug that some property must catch; it is used by no
specification.

### AuthSessions

A token is one access/refresh *pair* (`newTokenPair`); `sess` is the table
`auth_sessions`, `users` holds the account state and the mirror columns. Each
transaction is one action, since SQLite has one connection. `Open`,
`MigrateOne` (one insert of `migrateLegacyAuthSessions`) and `Serve` are the
start-up; `Crash` may come anywhere. The clock is discrete; tokens expire by it.
`issued` and `retired` are history.

* `MarksAgree`: an unrevoked row belongs to a live account that is not marked
  logged out, so that clearing the account's mark at the next login revives no
  old device.
* `RestartAddsNothing`: while serving, the mirror holds nothing the next `Open`
  would turn into a row.
* `RetiredStaysDead`: a pair refreshed away, logged out or deleted is never
  accepted again, through restore, re-login, crash and restart.
* `ImplementsContract`: refinement of `SessionContract`, where a pair goes from
  unissued to held by one user to dead, a login disturbs no other device and a
  refresh trades one pair for one.

### VerificationCodes

A request is a process with a program counter: begin (pacing check), deliver
(external: succeeds, fails, or fails although the message arrived), insert, record,
mirror; verification tries one scene after the other, finds the newest row, consumes it
by a conditional update. `sends`, `uses` and `known` are history.

* `RowUsedOnce`: requests that read the same row at once do not both pass.
* `DeliveredOnly`: a code whose delivery failed lets nobody in.
* `SupersededRefused`: a code is refused while a newer one was open.
* `ExpiredRefused`: no row is accepted later than its lifetime plus the
  requests' own time.
* `PacedApart`: requests that do not overlap are paced. Overlapping ones are
  not: all pass the check before any is recorded. The property says exactly
  that much.
* `SingleUse` (violation run): see section 4.

### Cancellation

Each SQL statement and each HTTP call to a game server is an action. The
finalizer keeps the list of due accounts it read at the beginning of a pass
(`todo`, at most `Limit`, oldest first) and the servers still to be asked. Game
servers are external: they bind a role after a login the SDK accepted and unbind
on request; a call succeeds, fails, or succeeds with its answer lost. A handler
lives one tick at most (requests take seconds; the tick stands for days), which
is the assumption under which withdrawal's late write cannot cross a whole
period.

* `CoolingOffServed`: the finalizer closes an account only if an application
  that was never withdrawn or replaced is as old as the period, however stale
  its list.
* `RolesReleased`: no server keeps a role of an account the finalizer closed;
  the lock of the cooling-off state is what excludes a login behind its back.
  Immediate deletion has no such lock and is excluded: see the hazards.
* `DueEnds` (liveness): a due application does not stay due, even when a pass
  takes fewer accounts than are due. An account that one server refuses for ever
  does keep its place at the head of the list; outages are assumed to end.

### Bindings

The `phone` column holds a phone number, or the e-mail address of an account
without one, or a tombstone; `email` is the second column; both unique indexes
are guards of every write. Unbind and restore are requests of several
statements.

* `OneAccountPerName`: a name leads to one account, whichever column has it.
* `UnbindKeepsVerified`: what is left after an unbind is the name whose code was
  verified, however the bindings changed meanwhile.
* `ImplementsDirectory`: refinement of `AccountDirectory`, where a name is
  released before somebody else takes it.

### LoginFlow

`policy` is one of the eight settings of `allow_register`, `sms_only_register`
and `real_password`. A request looks the account up and decides (`Lookup`,
`Admitted`), consumes its code (`Verify`), looks up again and inserts
(`Resolve`, `InsertUser`, `InsertRefused`, `LookupAgain`: `GetOrCreateUser`),
gets a session (`Grant`) and writes a password by id (`SetPassword`). It may end
with an error anywhere (`Abort`). Accounts are created, deleted, restored,
renamed and given passwords by others between any two steps. Codes are taken to
be right whenever asked for: README.md:154 promises the policy even for codes
written by hand. Passwords are present or absent.

README.md:148-152 has a table of what each policy forbids. Because handlers act
after a second reading, the table does not hold of two requests for one number
at once (section 4). What does hold, and is checked with two requests and every
other writer: `ClosedUnlessRaced`, `ProtectedUnlessRaced` and `KeptUnlessRaced`
say that a request obeys the table when nobody else wrote a row *of its number*
between its lookup and its effect. Traffic on other numbers never matters.

### AccountIds

A database of any release (with or without the old `openid`/`nid` columns,
numbers below `firstUserID`, from it on or on both sides, references of deleted
accounts) is opened, stopped at any statement and opened again, while accounts
register, log in, open long connections and are hard-deleted. `Moved` applies
the updates of `comet_sessions` and `auth_sessions` account by account, each
over what the ones before it wrote, as the code does. Where new numbers lie
among the old ones those updates cannot keep every reference apart; `Entangled`
names the ones they cannot (section 4), and the two properties about references
except these, while an old database is renumbered, and no others.

* `IdsPermanent`: the number a person was told never changes.
* `UnifiedWhileServing`: every served account has a number from `firstUserID` on.
* `TicketsFollow`: no step makes a session or long connection belong to another
  person's account, in spite of the late insert of `cometAcquire`, of a sequence
  that is set back and of renumbering.
* `OpenKeepsTickets`: an upgrade takes every device along with its account. It
  depends on the ascending order of the updates: with old numbers
  `firstUserID` + 0, 2 and 3 the last account is given the number the one before
  it had until then, and the mutant that goes downwards mixes the two.
* `IdNeverReused` (violation run): see section 4.

MySQL is left out: `initBindings` refuses it at the end of every `Open`, so
nothing is ever served from a MySQL database although README.md:117 and 200
offer one.

### PassportClient and UserCenter

A call of the bundle's client is `request`: up to four attempts, each with a
secure token if the operation is guarded, each repeated only after the captcha
or phone challenge its answer demanded. `call` holds the program counter of the
call a page handler waits for; everything between two awaits is an action. The
service answers, refuses, demands a challenge or a new token, or its answer is
lost after the effect. The captcha's script is one promise shared by all calls.

`UserCenter` puts the log-in dialog and the wizard on top: each click starts a
job (an async handler) that waits for a call; the wizard can be left, reopened
or reloaded at any time while jobs are pending, and another browser may change
the account. `Handle` is the service's `cancellationHandle`. One call stands for
requests a page makes together (status and profile; the checks of one security
check).

* `KeepsContract`: refinement of `CallContract`: a call is carried out at most
  once however often its request is made, and succeeds only if it was.
* `ChallengeHeeded`: a request is repeated only when every challenge it was
  answered with has been met; closing a dialog is not meeting it.
* `VerifiedFirst`, `SuccessIsTrue`: the wizard reaches its submitting step only
  after a security check in that same wizard, and says "submitted" only if it
  was, whatever answers arrive late from earlier steps or earlier wizards.
* `JobsEnd` (liveness): every click ends, the shared script promise included.

Left out: answers that carry a `code` field inside their data, a captcha whose
initialisation never calls back, and the pages that make a single call (profile,
password, bindings).

### AppealQr

The appeal page draws an address as a QR code with a bundled encoder, which
splits the text into segments of three modes, searches the cheapest split on a
graph whose weights are approximate (a node's count, not a path's; the version
of another split) and takes the smallest symbol that holds the result. The
search is modelled a layer of nodes at a time, one layer for each run of the
text: `Reached` is a node with the cheapest path to it, `InOrder` the order in
which the priority queue gives a layer out, which decides between paths of one
cost. `QrSpec` is the page alone: it draws its symbol and is left.

* `SymbolSpellsAddress`: the segments cover the text in order, each in a mode
  that can write it (`Spells`), and fit the symbol with their headers.
* `NoLargerThanPlain`: the search never costs bits or a larger symbol compared
  with the plain split.

### ProxyConnection

One CONNECT request from its arrival to its last goroutine. `hand` is the
handler (`serveConnect`), `copy` the two copying goroutines of a tunnel, `conn`
the goroutine of `net/http` that serves an intercepted connection through the
one-connection listener, `closes` how often the listener's channel was closed.
The far ends send numbered chunks, finish or vanish whenever they like; chunks
the client sends before it is answered are read with the request (`early`) and
must come out of the hijacked reader first.

* `Faithful`: what reaches the other side is what was sent, in order, early
  chunks included, and a direction that ended is whole.
* `NotCutShort`: the handler's deferred close never hits a request; it waits in
  `Accept` until the connection's own goroutine has closed it.
* `Released` (liveness): once a connection is over, the handler returns, no
  goroutine lives and every socket is closed.

## 3. Runs and bounds

| run | bounds | why they are enough |
|---|---|---|
| `auth_sessions` | 2 users, 3 rows, 4 pairs, lifetimes 0 and 1, clock to 2 | two devices of one user and one of another; a pair refreshed and another logged out; an access token that expires before its refresh token; a second start after an expiry |
| `verification_codes` | 1 paced number, 2 codes, 2 requests, lifetime 1, window 1, clock to 4 | two sends and two verifications overlap in every order, a code expires and the window passes |
| `single_use` | 1 number, 2 scenes, 1 request at a time | needs no concurrency |
| `cancellation` | 2 users, 2 servers, 1 request, period 2, passes of 1 account, clock to 3, 1 fault; no symmetry | a request races the finalizer and the second account must wait for a pass of its own; apply, withdraw, apply again and a full period fit; one server can fail while the other unbinds |
| `bindings` | 2 users, 2 numbers, 2 addresses, 2 requests | a name can move between accounts and columns while both requests are pending |
| `login_flow` | 2 accounts, 2 numbers, 2 requests, all 8 policies | one request races another and every administrator action, on the same number and on another |
| `registration_closed`, `first_password_only` | 1 number | shortest traces |
| `account_ids` | 4 persons, 2 references, numbers to 6, `firstUserID` 3 | every set of up to 4 old numbers among 1 to 6, so below `firstUserID`, above it with gaps, or both; a reference that collides if moved in the wrong order; entangled ones; a deletion, a restart and a registration after it |
| `id_never_reused` | the same | |
| `user_center` | 2 page handlers, all 10 operations, 1 troubled answer; addresses of 1 to 3 runs of lengths 1, 3, 6, 9, 13 | two jobs in every order, each lost, refused or challenged; further rounds of a call are covered by the proofs of safety, but `JobsEnd` is not checked with a second captcha or several calls waiting for one script; the lengths lie on both sides of the points where changing mode starts to pay |
| `proxy_connection` | 3 chunks each way | one early, one in the copying goroutine's hands, one still to come |

PROJECT.json says in a sentence what each run shows. `MaxTime`, `MaxSends`, `MaxFaults`, `MaxId`, `MaxTrouble` and `MaxChunks` bound
the state space for TLC only and occur in guards of the clock, of new sends, of
faults, of registrations, of troubled answers and of chunks. `CHECK_DEADLOCK
FALSE` is set in `bindings` and the `LoginFlow` runs, where every id may be used
up and every account deleted for good, and in `proxy_connection`, where a
connection ends.

Symmetry is used in safety runs only, over sets of model values that no
definition orders. Accounts in `Cancellation` are numbers because the finalizer
orders them.

### Fairness

Three runs check liveness and assume weak fairness.

* `Cancellation!FairSpec`: of the finalizer's steps. `runCancellationFinalizer`
  loops for ever with a ticker and is started by `Run` before it blocks, and
  every call it makes to a game server has a timeout (`booi/client.go` `New`,
  five seconds unless configured), so it returns. Outages and crashes are
  bounded by `MaxFaults`: an application cannot end while a game server is never
  reachable, and the code does not claim it would. Nothing is assumed of
  requests, users or servers.
* `UserCenter!Fairness`: a call that waits is attended to: the browser reports
  the answer or its loss, runs the page's code, and the user answers a dialog or
  closes it; a script loads or fails. Nothing obliges anybody to click.
* `ProxyConnection!Fairness`: goroutines that can run do; the handshake and
  dialling are over in time (both have timeouts), and `net/http` gives up an
  HTTP/2 connection that is gone. Nothing is asked of the far ends, nor of the
  handlers of intercepted requests, which take what time they like.

## 4. Where the code and its documents disagree

* **`SingleUse`**: README.md:154 says every code is consumed once. `sendCode`
  stores a code in the requested scene, again in that scene, and in seven more;
  each row is consumed on its own, so the same code is accepted several times.
* **`RegistrationClosed`**: README.md:150 says nothing creates an account by
  code while `allow_register` is off. `loginLike` checks the account it found,
  and `GetOrCreateUser` looks again and inserts: an account deleted in between
  is created anew.
* **`FirstPasswordOnly`**: README.md:152 says a code cannot reset an existing
  password under `sms_only_register`. `passwordReset` decides on the password it
  read; one set before its unconditional write is replaced.
* **`IdNeverReused`**: `store.go`:403 calls unified ids permanent. With an empty
  `users` table `Open` sets the sequence back, and the number of a hard-deleted
  person is given out again.

Also met, without a run of its own: in a database with numbers on both sides of
`firstUserID`, the loop of `rebuildSQLiteUsers` (`store.go`:496-513) can give an
account the old number of a later one and then move its devices on with that
one's: with accounts 1 and 100000001, the sessions of account 1 go to 100000001
and, a turn later, to 100000002, which is the other person's account. (The MySQL
twin, `store.go`:533-564, goes through temporary numbers.) A session left by a
deleted account likewise falls to the account that is given its number, since
orphans are deleted only after the renumbering. `store_test.go`:10
(`TestLegacyUserIdentityMigrationUpdatesReferences`) expects references to
follow, for one account. `OpenKeepsTickets` without its exception for
`Entangled` fails in three states. MySQL is offered and refused (above); `createUser`
returns the zero user without an error when the row that refused its insert is
gone by the second lookup (`LookupAgain`), and the handler answers with an empty
session. README.md:85 promises that other hosts are tunnelled as they are
(原样隧道), but `serveTunnel` closes both sides when one direction ends, so a
client that half-closes loses what is left of the answer; `Faithful` says only
that the direction that ended is whole. An intercepted HTTP/2 connection has no
idle timeout, so `Released` asks that the client be gone.

## 5. Proofs

All theorems hold for every value of the constants, under the `ASSUME`s of the
module (model values distinct from the data; the access token lives shorter than
the refresh token).

| theorem | says |
|---|---|
| `AuthSessions_proofs!TypeCorrect`, `MarksAlwaysAgree`, `RestartSafe`, `RetiredForGood` | the invariants of `AuthSessions` |
| `AuthSessions_proofs!Refinement` | `Spec => SC!Contract` |
| `VerificationCodes_proofs!CodesTyped`, `UsedOnce`, `OnlyDelivered`, `Paces`, `NewerWins`, `ExpiryHeeded` | all six properties of `VerificationCodes` |
| `Cancellation_proofs!CancellationTyped`, `Released`, `Served` | `TypeOK`, `RolesReleased`, `CoolingOffServed` |
| `Bindings_proofs!TypeCorrect`, `NamesAreUnambiguous`, `UnbindLeavesVerified` | the properties of `Bindings` |
| `Bindings_proofs!Refinement` | `Spec => AD!Directory` |
| `LoginFlow_proofs!LoginTyped`, `Closed`, `Protected`, `Kept` | all four invariants of `LoginFlow` |
| `AccountIds_proofs!IdsTyped`, `NumbersStay`, `ServedUnified`, `ReferencesFollow`, `DevicesKept` | all five properties of `AccountIds` |
| `UserCenter_proofs!ClientTyped`, `ChallengesHeeded`, `ContractKept` | the client alone: types, `ChallengeHeeded`, `ClientSpec => KeepsContract` |
| `UserCenter_proofs!PagesImplementClient`, `PagesHeedAndKeep` | the pages use the client only through its interface, so the same holds of them |
| `UserCenter_proofs!PageTyped`, `SubmitVerified`, `SubmitTruthful` | `TypeOK`, `VerifiedFirst`, `SuccessIsTrue` |
| `UserCenter_proofs!SymbolSpellsAddressAlways`, `NoLargerThanPlainAlways` | both properties of `AppealQr`, for addresses of any length: `QrSpec => []...` |
| `ProxyConnection_proofs!ProxyTyped`, `RelayedFaithfully`, `ServedToTheEnd` | `TypeOK`, `Faithful`, `NotCutShort` |

*AuthSessions.* `MarksAgree` and `RetiredStaysDead` are not inductive: a retired
pair must also have no unrevoked row and no migratable mirror, a deleted account
must carry the revocation mark that restore leaves in place, and a pair must
identify its row and its user. `IInv` adds `PairsAreUnique`, `AccountShape`,
`MirrorSettled` and `RetiredRows`. There is a lemma per operation; `Invariance`
combines them, and each property follows from `IInv`. The refinement maps a pair
to the user of its unrevoked row, or before migration to the user whose mirror
has it; each action is a login, a trade, a withdrawal or a stutter.

*Bindings.* `OneAccountPerName` relates two columns that two indexes guard
separately. `IInv` adds `ColumnsUnique` (the indexes) and `EmailStandsIn` (an
address in the phone column is also in the email column), which together
exclude a name in different columns of two accounts.

*VerificationCodes.* None of the properties is inductive. `IInv` ties the tables
to the requests that write them: a row's use count follows from `consumed`
(`RowOK`); a code being delivered has no row yet and one owner, so a failed
delivery leaves nothing behind (`SendOK`, `OneOwner`); a request past the pacing
check keeps its distance from every older event, whoever records meanwhile
(`Apart`); and a request about to consume a row knows no newer open one
(`VerifyOK`), which later inserts cannot change because they are not known to it.

*Cancellation.* The lock of the cooling-off state is an argument about time: a
login that was accepted ends within two ticks, an application made after it
falls due no earlier (`LoginsOK`), so while the finalizer works on an account no
login of it is under way and a server that confirmed stays empty (`PassOK`,
`AskedOK`). It needs `CoolingOff >= 2`, an `ASSUME` of the module: a period of
15 days against requests of seconds.

*LoginFlow.* As long as nobody writes a row of its number, what a request found
and decided at its lookup is still so when it acts (`RequestsOK`). The lookup is
deterministic because a number belongs to one live row (`RowsOK`).

*AccountIds.* `Moved` is a recursive function: each turn reads what the turns
before it wrote. `LoopExists` builds a function that satisfies the recursion,
adding to one for fewer turns; `OneTurn` shows that a turn moves a reference
that is not entangled only if it is its account's own, since new numbers are
distinct (`NewNumbers`) and a number that an earlier turn wrote could only be
met later if it were larger; `MovedIsRenumbered` puts the turns together by the
first one after which it would be otherwise. `Init` leaves room below `MaxId`
for renumbering every account, and `Old` keeps it until that is done. `IInv`
then says of which age the database is (`Old`, `Unified`), that the sequence is
past every number in use (`RowsOK`), and that no reference has a number still to
be given out (`TicketsOK`, `CometOK`).

*UserCenter.* For a call, its program counter tells how often the service
carried it out and what it still owes (`CallOK`); the refinement maps every
waiting step to "pending". For the wizard, a job that would advance it carries
what the service accepted for the wizard it was started in (`JobsOK`,
`Truthful`).

*ProxyConnection.* `IInv` follows a chunk: what was taken from a reader was
delivered, except for the one a copying goroutine holds (`Stream`), and the
handler's step says which goroutines there are (`Course`, `Serving`).

*AppealQr.* The page's state is settled by `SymbolIsDrawn`: what is shown was
drawn for one of the addresses. The work is about the encoder, whose `Merge`,
`Total` and `LastLayer` are folds over sequences of any length. The library's
induction theorems cannot be used, so the two steps they would take are made
otherwise: `UpTo` is induction about the numbers of a set, from the least number
outside it, and `FoldExists` shows that the function by which a fold is defined
exists, after which `TotalAppend`, `MergeAppend` and `LayersOf` give each fold
one element at a time.

`SymbolSpellsAddress` follows a text through the encoder by `Covers` (segments
stand for a beginning of the text, by a table of what each mode may write): the
plain split covers it with each class for itself, a path has the lengths of the
runs in modes that can write them (`NodeOK`, `PathCovers`), and merging changes
the segments, not what they stand for (`CoversMerge`). That the result fits rests on
`HoldsIs`: counting one segment in characters and several in bits comes to the
same.

`NoLargerThanPlain` is an invariant of the layers, `LayerOK`. A path's weights
may fall short of the bits its merged segments take (`Slack`): the letters of a
run of digits, joined to the letters before, weigh up to one bit too little
(`Weights`). The invariant says that in each layer whatever a path falls short
of is made up by what the layer's first node saves on the plain split, with one bit
to spare (`Spare`) for the letters of digits that are not the first node. It is
inductive because a switch of mode is made from the first node only
(`NodeReached`), and because those letters come before the digits in the queue
only when they are cheaper. Without the spare bit `LayerOK` would be false, for
addresses of a few characters already; the property holds all the same.

Only model-checked: liveness (`DueEnds`, `JobsEnd`, `Released`), since fairness
and `ENABLED` are out of the prover's reach.

## 6. Not modelled

* Conversions of single requests (encryption, signatures, envelopes, the JSONC
  scanner, upload policies): no state, no concurrency; unit tests reach them.
* Upstream fallback, user reports, security status: one statement or one
  forwarded request each; nothing else depends on what they leave behind.
* The geolocation cache: a map under a lock whose entries may be fetched twice,
  with the same result.
* Configuration: read once. Ties between two applications of one client id are
  decided by map order; no document says which should win.
* The MySQL branch: never served (above).
* The proxy's plain forwarding, certificate cache and gate list: see
  PROJECT.json; a host's route is a free choice in `ProxyConnection`.
* Passwords are present or absent in `LoginFlow`, so that a log-in which
  overlaps a change of password cannot be told to have used the old one; the
  code promises nothing there.
* Libraries of the bundle other than its QR encoder, the pages with a single
  call, and the drawing of the QR matrix.
* The composition of the modules over one `users` table: each module has the
  other components' writes as actions of its own, unconstrained by their guards,
  which is weaker for them and so safe for its own properties; the product of
  all state would be out of TLC's reach.
