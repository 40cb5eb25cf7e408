# A TLA+ model of the Karlo Authentication Service

The service keeps accounts, companies, sessions and permissions in PostgreSQL,
signs the access tokens every other Karlo service accepts, and tells those
services through Redis which tokens to refuse before they expire. This
directory models the parts of it where several things happen at once, checks
them with TLC on small instances, and proves the most important facts with
TLAPS for all instances. `PROJECT.json` maps each definition to the lines it
models; source paths below are relative to `src/`.

## 1. The system

| Component | State | Operations | Interacts with |
|---|---|---|---|
| Sessions (`internal/services/auth_service.go`, `internal/services/user_service.go`, `internal/repository/repositories.go`) | `sessions` rows, password hash and flags of `users` | login, refresh, logout, logout everywhere, password change, suspension, deletion, hourly sweep | announces to Revocation; names the session in the token |
| Revocation propagation (`internal/platform/revocation`, `internal/platform/authctx/middleware.go`) | Redis keys and channel; a list in the memory of each service | `Publish`, `Watch` (resync, subscribe, apply, prune), `List.Revoked` | fed by Sessions and by entitlement changes; asked on every request, unless its token is bound to one device |
| Companies, shippers, claims, merges (`internal/services/shipper_service.go`, `internal/services/merge_service.go`, `internal/handlers/company_handler.go`) | `companies`, `company_links` | record a shipper, issue and use a claim link, merge, resolve, edit the profile | counts and moves people; other services hold company ids |
| Accounts and seats (`internal/services/user_service.go`, `internal/services/driver_account_service.go`) | `users` rows | register, adopt a driver, assign a role, suspend, delete | Companies (seats), Access (role), Sessions (revocation) |
| Access (`internal/repository/access_repository.go`, `internal/repository/module_repository.go`, `internal/repository/role_repository.go`, `internal/platform/authctx`) | `roles`, `company_modules`, `company_product_settings`, `user_product_access` | grant and revoke modules and extras, edit roles, build the access map of a token | read when a token is minted; announced per company |
| Login rate limiter (`internal/services/auth_service.go`, `internal/platform/cache`) | a Redis counter per login name, failures in `auth_audit_log` as fallback | count, refuse, clear | runs before and after the password check of Login |
| Karlo's staff and acting for a company (`internal/routes`, `internal/platform/authctx`, handlers) | `is_platform_staff`, the Administrator roles, the claims of a token | invite, update, suspend, delete, redefine a role, merge | Accounts, Access, Companies; a stale token is Revocation |
| Bootstrap (`internal/platform/bootstrap`) | the first company and its administrator | run from the shell, meant to be repeatable | Accounts |
| API keys | `api_keys` | validate (creation and revocation have no caller) | gRPC callers; the role's keys are those of Access |
| Audit archive (`internal/archive`, `internal/platform/coldstore`) | `auth_audit_log`, `sessions`, files in cold storage | file a batch day by day, delete it, purge sessions | the service goes on writing the table |
| Legacy import (`cmd/import`) | `companies`, `users`, `roles` | read a file, write it in one transaction, repeat | the service changes the same rows between runs |
| Lists (`internal/platform/query`, `internal/repository`, `internal/grpcserver`) | none of its own; a client's way through the pages | parse filters and sorts, count, find a page | reads accounts and companies while every other part changes them |
| Catalogue, device tokens, documents, HTTP/gRPC transport, logging, configuration, generated code | – | – | not part of the core logic |

What makes it hard: request handlers are goroutines that issue one SQL statement
after another, mostly without a transaction, and act on what they read earlier;
the transactions there are run at READ COMMITTED, where only row locks protect
what was read; the revocation list is rebuilt from keys that are read one by one
while the channel goes on delivering; three parts (archive, bootstrap, import)
are processes beside the service, and two runs of one may overlap; and any statement, connection or process
may fail in between. The full list of hazards, each at its line, is in
`PROJECT.json` under `hazards`.

What makes each part correct:

- Sessions: a session that ended stays ended; a refresh retires the session it
  replaces; a password change or suspension reaches every older session; a
  one-device account keeps one login.
- Revocation: what was recorded is refused by every service in the end, and
  goes on being refused until the token expires; nothing else is refused.
- Companies: merge pointers never form a cycle or lead to a company that was
  already folded away at that moment; transporters go on reaching their
  customers; a claim link works once, for an empty company; seats are respected.
- Access: a token never grants what the company does not hold; a change of
  permission ends the tokens that carry the old ones (of tokens bound to one device,
  a change of the company's entitlement ends none); nobody holds another
  company's role.
- Limiter: guesses within a window are bounded, with Redis and without it, and a
  lockout ends however long somebody keeps trying.
- Staff: nobody outside Karlo's own company becomes staff, whoever asks and
  however old their token; bootstraps that take turns make one administrator.
- Lists: a list has only what was asked for, however it was spelled, and a walk
  through the pages misses no more than what came and went accounts for.
- Archive: a row that leaves the table is in a file; what is past its time
  leaves in the end.
- Import: a role grants what its holders held before; a repeated run changes
  nothing; a chain of parents is one company.

## 2. The modules

| Module | What it is |
|---|---|
| `SessionLifecycle` | abstract: a session opens once, belongs to one person, closes for good, one person at a time |
| `Sessions` | the sessions table and the requests that change it, one SQL statement per step |
| `SessionsProofs` | theorems about `Sessions` |
| `Revocation` | keys, channel, publishers, and the list of each service, one step of `Watch` per action |
| `RevocationProofs` | theorems about `Revocation` |
| `Forwarding` | abstract: a company is only folded into one that holds its own records |
| `Companies` | companies, links, people and the transactions on them, one locking or reading statement per step |
| `CompaniesProofs` | theorems about `Companies` and `Forwarding` |
| `Access` | entitlements, roles, extra permissions, the mint of a token read by read, and the changes that go through meanwhile |
| `AccessProofs` | theorems about `Access` |
| `Tenancy` | who is staff: bootstrap, invitations, claims, merges and the requests that carry an old token |
| `TenancyProofs` | theorems about `Tenancy` |
| `Listing` | from a request for a list to a statement, and a walk through the pages while rows come and go |
| `ListingProofs` | theorem about `Listing` |
| `LoginLimiter` | the Redis window, the fallback on the audit log, requests call by call |
| `Archive` | the service writing audit rows, and overlapping archive runs, statement by statement |
| `BackgroundProofs` | theorems about `LoginLimiter` and `Archive` |
| `Import` | `build` as operators over a file, `apply` as one step, and the service between two runs |
| `ImportProofs` | theorems about `Import` |
| `MCSessions`, `MCRevocation`, `MCCompanies`, `MCAccess`, `MCTenancy`, `MCBackground` | constants and symmetry for TLC |

Operators named after another operator with a suffix (`RotateAway_Later`) are
mutants: the form of that step a plausible mistake would give it. No
specification uses them. They show that the property they go with can fail.

### Sessions

`users`, `sessions` are the tables; `req` holds, per goroutine, the statement it
is about to issue (`pc`) and what it has read, which may be stale by then.
`LoginCheck` → `CreateSession` → (`EvictOthers`) → `Deliver` is Login with
`issueSession`; `RefreshRead` → `RefreshUser` → `RotateAway` → `CreateSession` →
`Deliver` is Refresh; `PasswordCheck` → `PasswordWrite` → `EndSessions` is
ChangePassword, `Suspend` → `EndSessions` SetSuspended, `DeleteSessions` →
`DeleteUser` Delete. `Stop` is a failed statement, a cancelled request or a crash
at any of these; `EvictionFails` is the one failure the code logs and ignores.
`delivered`, `endings`, `lapses` and the `password`, `since`, `parent` fields are
history. A row's `age` abstracts `expires_at` and the sweep's seven days. Other
callers of RevokeAllForUser (permission, role and product changes) have the
shape of `Suspend`: write, then revoke.

The abstraction `SessionLifecycle` sees a token id as unopened, open (usable for
a refresh) or closed, and an owner while open.

### Revocation

`store` is Redis (cutoff and lapse time per key), `pub` the Publish calls under
way (`Stamp`, `Record` = SET, `Announce` = PUBLISH), and per service `list` (the
three maps of List, as one function of keys), `watch` (where the Watch goroutine
is), `link` and `inbox` (the subscription). A resync is `StartResync`, one
`ReadKey` per key in any order, `FinishResync` = Replace. Failures: `SkipKey` (a
GET error), `ResyncFails`, `PublishFails`, `ChannelCloses`, `Disconnect`,
`Restart`, at most `MaxFaults`. Session keys hold no cutoff in the code, so any
non-zero value means refused. The clock ticks at the resolution of `time.Now()`;
an issue time is a multiple of `Second` ticks (`IssuedAt`). `Revoked` is what the
middleware asks of a token that is not bound to one device
(`middleware.go:50-61`). Of any other it asks the authentication service
(`ValidateToken`), which looks at the session and the account: what that lets by is
part of `Access`, what ends the session part of `Sessions`.

### Companies

`companies`, `links`, `users` are the tables; `lock` says which transaction holds
a company row; `req` what each transaction has read. A step is a statement that
locks or whose result a later one relies on, or the commit with the writes that
become visible there. PostgreSQL's lock modes appear as two guards: `Free` (FOR
UPDATE and UPDATE wait for any holder) and `Referable` (an INSERT that refers to
the row, whose foreign key takes FOR KEY SHARE, does not wait for an UPDATE that
leaves the key alone; the unique indexes here are partial or on expressions, so
every UPDATE is of that kind). `Abort` is a failure or a deadlock victim at any
step. A claim is `ClaimLock` → `FindDuplicate` → (`CountDuplicate` → `CopyLinks`
→ `ClearLinks` → `LockDuplicate`) → `Settle`; a merge `MergeLock` →
`MergeLockSecond` → `MergeCommit`; `CreateShipper` is `LookUpTaxNo` →
`InsertShipper` or `LinkExisting`. Register holds its company's row from the
count to the commit, so it is one step. `dealt`, `claims`, `drifted` and
`crowded` are history. Left out: the NIB (handled like the tax number), roles and
modules written by a claim, descriptive columns, expiry of a claim link (a link
nobody uses), a new-tenant registration.

### Access

`modules` is `company_modules` (state and validity window, per section of the
registry), `roles` and `users` the tables of those names, `users[u].extras` is
`user_product_access`, `tokens` an access token from the read of the account to
its expiry, `req` the changes under way.

What is allowed is a chain of operators named after the code's: `Held` is
`entitlementFor`, `Active` adds the shared features, `Grantable` is
`GrantableFrom`, `Grant` and `Visible` are `assemble`, `Allowed` is
`HasPermission` over the map it returns. The same chain answers
`CheckPermission` from the rows as they are (`Access`) and fills a token (`Sign`)
from what the mint has read. The mint is `ReadUser` → `CreateSession` → `StampToken`
→ `ReadRole` → `ReadExtras` → `Sign`, in the order of `issueSession`, `mintAccessToken` and
`BuildAccess`; `SignWithout` is the failed read that mints a token with no access.

A change is its check, its write and its announcement:

- extras: `SetPermission` or `SetProductAccess` → `GrantProductAccess` →
  `EndSessions`; `RevokeProductAccess` → `EndSessions`;
- role of a person: `AssignRole` → `SaveAssignment` → `EndSessions`;
- entitlement: `GrantModule` or `RevokeModule` → `AnnounceCompany`;
- a role itself: `CreateRole`, `DeleteRole`, `EditRole` → `SaveRole`, which
  announces nothing;
- drivers: `PlanDriver` → `FindDriverRole` (→ `TopUpRole`) or `CreateDriverRole`
  → `PlaceDriver`, which announces nothing;
- `RegisterMember`, `RegisterAlone`, `RegisterTenant`, `MergeCompanies`,
  `DayPasses`.

`CreateSession` decides whether the token is bound to one device (`single`), which
settles what can refuse it. `EndSessions` is RevokeAllForUser: its UPDATE ends the
sessions there are, and with them the single-device tokens, minted or still to be
minted; its cutoff refuses the other tokens stamped so far. `EndQuietly` is the same
where the Publish fails, which the code logs and leaves. `AnnounceCompany` publishes a
cutoff and ends no session, so it refuses the tokens of the company that are not
bound to one device; ValidateToken (`auth_service.go:359-403`) takes what the others say of
modules as it is. A refusal is there at once; how it reaches a service is
`Revocation`. `Stop` is a failure or crash between two steps. `excuse` marks a token some
change did not reach, and why; `strayed` a person moved from under their role; both
are history. `Sales` and `Term` bound
what staff sell. Left out: Karlo staff's own tokens (every key is allowed them), a
module's limits and history rows, changes of mode (nothing changes a mode that is
there), self-service checks of who is asking.

### Tenancy

`people` and `administrator` are `users` and each company's Administrator role
(not there, there with `grants_all`, there without), `tokens` what a token said
when it was minted, `calls` a request: what it is about to do, what its token
says and what it has read. `shells` are processes of `server bootstrap`, each with
the address in its environment: `CountStaff` →
`CreateAdministrator` or `RefuseAdministrator` → `MarkStaff`, any of which may
die (`ShellDies`). `Ask` and `AskByKey` let a request by as RequireModule and
RequirePlatformStaff do, for one of the companies `scopeCompany` allows
(`Scopes`); then `Invite` → `GrantPlatformStaff`, `ChangePerson` (suspend,
restore, delete), `AdminUpdate` (which writes the e-mail address), `ReadRole` → `SaveRole`, `Merge`, or `Abandon`.
`Register`, `RecordShipper` and `Claim` make companies and people besides.
`Expire` is a token that ran out or was refused; until then it may be as stale as
it likes. Of e-mail addresses (`mail`), those are told apart that bootstrap may be given
(`Address`); any other is `Own`. An account gets one of them from a run of bootstrap
or from `AdminUpdate`, and the unique index, which is over live accounts, keeps two from
having it. `karlo`, the companies bootstrap made and those they were merged into,
`overlapped`, that a run began while another was under way, and `shell`, the
address of the run that made an account, are history. Left out: drivers, roles other
than Administrator, entitlements, registrations under an address that bootstrap may
be given (they only make it fail).

### Listing

`rows` are those a list is over (live, of the company, changed since), `walk` a
client going from page to page: what it asked, the next page, the total of the
last count and what it has seen. `FiltersOf` and `SortsOf` are `Parse` or
`FromProto`, `Selects` and `Precedes` the WHERE and the ORDER BY, `Orderings` the
orders in which the database may return what no sort key tells apart. `StartWalk` is
a request, refused where the handler answers 400; each page is `Count` then
`Find`, two statements, so rows may come (`Come`) or go (`Go`) between them. A
client stops at the number of pages it is told. `stayed`, `met`, `left`, `came` and
`changes` are history. A row is the columns the lists use, a string what is
between its commas. Left out: rows that change in place (a row that changes is
one that goes or comes), JSON that is not a list of filters (a 400), and
what is attached to each row after the page is read.

### LoginLimiter

`counter` is the Redis key of a lower-case name, `failures` the
`login.failure` rows of a name as it was typed, by age, `req` a request. With
Redis: `Increment`, or `IncrementFails` with or without effect; without it or
after a failed call: `CountFailures`, or `CountFails`, after which the attempt is
allowed. Then `RecordFailure` or `ClearRateLimit`, or `Stop` where a write fails.
A key that is counted gets an expiry where it has none (`Counted`), and one without
would stay (`Ticked`). `LoginTick` is time, kept as ages so that nothing need stop. `admitted` is
history. `cached` says which instances found Redis when they started.

### Archive

`pending` is the stamp of an audit row that its goroutine has built and the
database has not numbered (`Stamp` → `Insert`), `at` the time of a numbered row,
`table` the ids in the table, `runs` the runs under way with what is left of the
batch and the files they wrote. A run is `Read` → (`PutCold` → `DeleteWritten`)
for each day → `Purge`; `Die` is a crash or a failed call at any of these. Files
are named by run and day, so that only a run's own file can be overwritten by it.
A row cannot be encoded when `Coerce` has no place for what the driver returns
for its column's type (`Encodes`).

### Import

`accounts` and `jobs` are the users and roles an import writes. `Above` is one step
up the parents, `RootOf` as many of them as the file has rows. `CompanyOf`, `Keeps`,
`RoleNames` and `JobOf` are the rest of `build` and the naming loop of `apply`
(`WithRole` for one row), as functions of a file; `ImportFile` is the transaction,
whose upserts (`Upsert`) are `AccountsAfter` and `JobsAfter`, and which a number that
is taken undoes (`Importable`). Between runs the service acts: `Join`, `Move`, `ChangePhone`,
`Leave`, `Redefine`. Of the three identifiers there is the phone number. What a
run does to a system in use, and the model has: an account goes back to its company and
role of the export, a role to its keys, every imported company's Administrator to
`grants_all`; accounts in a circle of parents, or below a missing one, are given
no company and keep the role they had. Left out: copied columns, rows deleted in
the export, companies merged away (a re-run sets their `deleted_at` from the
export again), the unique index over companies' tax numbers
(`000014_*.up.sql:65`), which can undo a run as a taken number does.

## 3. The runs

| Run | Instance | Shows |
|---|---|---|
| `sessions` | one account capped at one device, 3 token ids, 2 goroutines, failures, 2 endings | `TypeOK`, `EndingsReachEverySession`, `RotationRetiresParent`, `LoginsDoNotShareADevice`, `EndedForGood` |
| `sessions_fair` | 2 accounts (one capped), 2 token ids, 2 goroutines, no failures, fair | `ImplementsLifecycle`, `OutdatedSessionsEnd` |
| `password_race` (violation) | one account, 2 token ids, 2 goroutines | a login that compared the old password outlives the change |
| `revocation` | one holder, one session key, one service, 2 publishers, 2 revocations, 5 ticks, 1 failure | `TypeOK`, `RefusalsAreEarned`, `RefusedStaysRefused` |
| `revocation_fair` | the same with no session key, 2 failures, fair resyncs | `RecordsReachEveryList` |
| `companies` | 3 companies (one transporter, one shipper, one to be recorded), 2 people, 1 tax number, 1 link, 2 transactions | `LinksFollow`, `MergesDoNotCross`, `ImplementsForwarding` |
| `company_people` | 2 companies, one with one seat, 3 people, 2 tax numbers, 2 transactions | `TypeOK`, `SeatsHold`, `ClaimsFindNobody` |
| `access` | 3 companies (a customer, Karlo, one not yet registered), 2 people, 5 roles, 2 products and a shared section, 2 keys, 1 token, 2 changes at a time, 2 in all, 2 days | `TypeOK`, `OutdatedTokensAreRefused`, `RolesStayInTheCompany`, `OtherProductsKeysStand` |
| `tenancy`, staff | 3 people, 3 companies, a machine key, 2 bootstrap runs, 2 goroutines; either 2 addresses, 1 request, 1 crash, or 1 address, 2 requests, no crash | `TenancyTypeOK`, `StaffAreKarlos`, `OneAdministratorFromTheShell` |
| `tenancy`, lists | 4 rows (2 of them created at one instant), 5 lists, 9 operators in 3 spellings, pages of 1 to 3 rows, 2 changes | `OnlyWhatWasAsked`, `MissesAreEarned` |
| `background`, limiter | a name typed in two ways, 2 goroutines with Redis or without, limit 2, window 2, 1 failed call | `LoginTypeOK`, `GuessesAreBounded`, `FallbackOvershootsByRequests`, `LockoutsEnd` |
| `background`, archive | 3 rows by 2 goroutines over 2 days, batches of 2, 2 runs that may overlap, 1 fault | `ArchiveTypeOK`, `OnlyOvertakenRowsAreLost`, `FilesAreWrittenOnce`, `ColdThingsGo` |
| `background`, import | an export of 6 rows, its first 2, a later export of 5, in any order and number, with 2 changes by the service | `ImportTypeOK`, `RolesGrantWhatWasHeld`, `RerunsChangeNothing`, `CompaniesFollowParents`, `OldestKeepsNumber` |
| `archive_lost` (violation) | `background` | a row left out of the file is deleted with those in it |
| `partial_import` (violation) | `background` | an export cannot be imported after its first rows were |

`background` is one run of three modules that share no state: `MCBackground`
picks one of them in its first state and lets the other two rest. Each is small
enough that a run of its own would mostly be TLC starting. `MCTenancy` does the same
for `Tenancy` and `Listing`.

### The properties, in words

- `EndingsReachEverySession`: an active session older than the last password
  change or suspension means the revocation is still to run or failed.
- `RotationRetiresParent`: a session with a successor is not active.
- `LoginsDoNotShareADevice`: two logins of a one-device account are both active
  only while an eviction is pending or after one failed. Refreshed sessions are
  exempt because a refresh does not evict: a refresh that races a login can
  leave two.
- `EndedForGood`: no step makes a session usable again.
- `OutdatedSessionsEnd`: a committed suspension ends every older session.
- `RefusalsAreEarned`: a token is refused only because of a revocation of its
  holder made after it was issued.
- `RefusedStaysRefused`: once refused, refused until it expires, except for the
  keys whose record Redis narrowed or a resync failed to read (`forgotten`, both
  real behaviours of `Publish` and `All`) and across a restart, when a service is
  empty until its first resync ends.
- `RecordsReachEveryList`: a record in Redis reaches every list without the
  channel, or lapses.
- `ImplementsForwarding`: every fold is of one company into a different one that
  holds its own records at the commit.
- `LinksFollow`: a transporter is linked to whatever live company its customers
  now are, except for links made or moved while a claim was folding that company
  (`drifted`). The exception is needed: foldIn reads without a lock, and
  CreateShipper links to what it looked up.
- `ClaimsFindNobody`: a link is used once, and the company has nobody then.
- `SeatsHold`: over its seats only after Adopt or Merge, which do not count.
- `MergesDoNotCross`: no two merges wait for each other's row.
- `OutdatedTokensAreRefused`: once the changes to a person are announced, a token
  of theirs that is not refused allows no more than the rows do, wherever in the
  mint the change fell. It rests on the issue time being taken before anything is
  read and on each announcement coming after its write. Tokens are exempt
  (`excuse`) when the change reaches them with nothing in the code: role edits, the
  driver role's top-up, adoption, merges, dates that pass, and failures; and, if they
  are bound to one device, changes of the company's entitlement (see 4, statement 8).
- `RolesStayInTheCompany`: nobody holds another company's role or one that is
  gone, except after a merge or a move between the check and the write of an
  assignment (`strayed`).
- `OtherProductsKeysStand`: a key leaves a role only with a save of its own
  product, or when the driver role is topped up from a list read before the key
  was there (a lost update the code has).
- `StaffAreKarlos`: whoever is staff is in a company that bootstrap made, or one
  it was merged into, however old the token of whoever invited them. It rests on
  the comparison with the token's own company in RegisterMember.
- `OneAdministratorFromTheShell`: two live accounts of bootstrap's are both staff only
  if runs overlapped, whatever their addresses, wherever runs died and whatever was
  done to the accounts since; and two runs with one address leave two live accounts
  only where one has been given another address. The count of staff gives the
  first, the unique e-mail the second. Overlapping runs with two addresses do make two
  administrators, and a run that died leaves an account that is not staff
  beside the administrator a later one makes.
- `OnlyWhatWasAsked`: nothing on any page fails a clause of the request, for clauses
  that are heeded: a comma-separated string and an array narrow to the same
  rows, an unknown field or operator and an empty `in` are refused. `Heeded` names
  what is not (see 4).
- `MissesAreEarned`: of the rows that were there all along, as many are missed as
  left during the walk or came after its last count, at most. It counts rows that
  the sort key tells from all others; lists ordered by `created_at` alone have
  ties, and the database may order them differently for each page.
- `GuessesAreBounded`: without a success, at most twice the limit is let in by the
  counter within a window's length (a fixed window has two of them in it).
- `FallbackOvershootsByRequests`: the log, read before the password is compared
  and written after, is over the limit by no more than the requests under way.
- `LockoutsEnd`: again and again a name is let in, whatever is tried meanwhile. It
  fails if a key is left without an expiry, or if every attempt sets it again.
- `OnlyOvertakenRowsAreLost`: a row that is in no file has left the table only when
  a row of its day with a higher number and no later time is in one. `NothingIsLost`,
  what the package comment says, does not hold; this is what remains of it.
- `FilesAreWrittenOnce`: a run does not write a day's file twice, which would
  replace what it has already deleted.
- `ColdThingsGo`: rows and sessions past their time leave, in spite of a failure. It
  fails if a column's values have no place in the file.
- `RolesGrantWhatWasHeld`: after a run everybody it assigned a role holds one that
  grants the permissions of their row and no more, however titles collide.
- `RerunsChangeNothing`: the file just imported, imported again, changes nothing.
- `CompaniesFollowParents`: an account is in the company of its parent, whatever
  the order of the file and the length of the chain.
- `OldestKeepsNumber`: of the accounts that share a number, the oldest keeps it,
  and placeholders are nobody's.

### Bounds

Two concurrent goroutines or transactions are enough for every race named in the
hazards: each is between two actors. Three token ids give a parent, its successor
and a rival. Five ticks with a token life of two let a token and its record
lapse and a later one be made; two revocations of one key are what reordering
needs. Three companies are a transporter, a duplicate and a survivor, or a chain.
The counters that would grow for ever are cut by `MaxEndings`, `MaxTime`,
`MaxEvents` and `MaxFaults` in the guards of the actions that advance them; the
proofs hold for every value of these. In `Access` two changes are the change a token
is minted across and one that races it; two days let a term end; the registry has a
feature of one name in two products and one shared by both, and the company holds
one section by default and the others by purchase; the opening roles include a
driver role made before the app needed its key, which is what the top-up is for.
In `Tenancy` two requests are one that grants and one that takes away or merges
while it is under way; three companies are Karlo's, one it is merged into, and a
customer; two bootstraps are what overlapping needs. Two addresses and a crash are
checked with one request, which is what it takes to readdress or delete an account
between two runs; two requests with one address and no crash. In `Listing` four rows and pages of one, two and three are a
last page that is full, one that is not, and a boundary that a row can cross in
either direction; two changes are one that moves a boundary and one that hides it
from the count. The page sizes of the code (20 of at most 200, 100 of at most 500)
are constants. In `LoginLimiter` a limit of
two distinguishes "at" from "over" it, a window of two ticks is one that a later
window can meet half way, and two goroutines are a reader of the log and one that
writes behind its back. In `Archive` three rows in batches of two are a batch that
ends within a day, and two days let the next one be deleted on its own. In
`Import` the export has a child before its parent, a missing parent, a title with
three sets of permissions, a set under two titles, a shared number and a
placeholder; the later one has a circle and people missing.
Symmetry is used over ids that are only
compared, and in no run with a liveness property.

### Fairness

`Sessions!FairSpec` assumes that a started request goes on issuing its
statements: the Go scheduler and the database answer, and nothing in a handler
waits for another request. `MayFail` is off there, because a request that stops
really does leave the sessions alive. `Revocation!FairSpec` assumes only that the
30-second ticker and the resync it starts go on (`WF` of `Resync`); not the
clock, the channel, the publishers nor reconnection. `MCBackground` assumes that
time passes; of the limiter's requests nothing, so that a lockout ends both under
attack and when everybody has gone; and of the archive that a stamped row reaches
the database and that the scheduler starts another run, which goes on. The one
fault of that run is bounded: an archive that fails every night archives nothing.
`Companies`, `Access`, `Tenancy`, `Listing` and `Import` state no liveness.

## 4. What the code does against its documentation

Three runs are expected to fail:

1. `password_race`: `auth_service.go:524` says a password change locks others out.
   A login past its password comparison inserts its session after the revocation.
2. `archive_lost`: `archive.go:9-10` says nothing is lost and 119-121 that exactly
   what was written is deleted. The batch is cut by time and the DELETE by day and
   id, and a row stamped later can have been numbered earlier.
3. `partial_import`: `cmd/import/main.go:23-24` says a partial run can be resumed. A
   run with `-limit` may leave a shared number with the younger account; the whole
   file then gives it to the older one, and the unique index undoes the run.

Nine more statements are definitions of the modules that no run checks, and that
the code does not keep. To see one fail, put it in place of the properties of the
cfg named, with CHECK_DEADLOCK FALSE:

4. `Sessions!RefreshTokenIsSpentOnce` (`Sessions.cfg` with `MaxEndings = 0`):
   README.md:31 and `auth_service.go:293` say a refresh token is usable at most
   once. `Refresh` ignores how many rows its UPDATE matched, so two concurrent
   refreshes both get a pair.
5. `Revocation!SignInAgainWorks` (`Revocation.cfg` with `Second = 3`):
   `revocation.go:110` says a fresh login is unaffected. Its issue time is cut to
   the second, so one within the second of the cutoff is refused.
6. `Companies!ResolveFindsTheSurvivor` (`Companies.cfg`): `merge_service.go:238`
   says Merge refuses to create chains. It checks that neither company was merged,
   not that nothing was merged into the duplicate.
7. `Access!WithdrawnIsNotHeld` (`Access.cfg`): `access_repository.go:300` says that
   in revoke mode a module is held unless a row disables it. The dates are filtered
   before the state is looked at, and `Revoke` keeps the dates, so a disabled row
   outside its term is not read.
8. `Access!WithdrawalsReachEveryone` (`Access.cfg`): `entitlement_service.go:45-47`
   says that withdrawing a module must stop working for everyone at once, not person
   by person as tokens expire. The announcement is a cutoff in the revocation
   list, of which `middleware.go:51-61` does not ask for single-device tokens;
   these go to `ValidateToken` (`auth_service.go:359-403`), which finds the session
   active and returns the access the token was minted with.
9. `Tenancy!AdministratorsStand` (`Tenancy.cfg`): `role_handler.go:251-254` says that
   what the Administrator role grants is not to be changed. Its guard refuses
   turning `grants_all` on; a request without it turns it off, and no request
   through this handler turns it on again.
10. `Tenancy!BootstrapIsIdempotent` (`Tenancy.cfg`): `bootstrap.go` calls a run
   idempotent. One that dies after the registration leaves an account that is not
   staff, and a later run finds no staff and, unless it is given another address,
    one that is taken.

11. `Listing!NothingIsDroppedSilently` (`Tenancy.cfg`): `query.go:263-269` says
    that what is not understood is refused, not dropped. A `between` whose bounds
    come in an array has no effect, a search among a company's members has none,
    over gRPC an unknown field is left out and an unknown operator becomes equality,
    and a gRPC `in` matches nothing, because FromProto sets no list of values.
12. `Listing!PageBoundariesAreStable` (`Tenancy.cfg`): `repositories.go:121-123`
    orders by id so that a page boundary is stable across calls. A company that goes
    between two pages moves the rows behind it to a page already read, and one that
    comes between `Count` and `Find` can leave a row on a page nobody asks for.

A comment at `query.go:117-121` says a caller that forgets to look at `Err` gets an
empty filter list, hence no rows; with an empty list it would get all of them. Both
callers look.

## 5. The proofs

All are checked by TLAPS with Z3, Zenon and LS4; no leaf is left open. The
assumptions are the named `ASSUME`s of the modules (`NoToken` is no token, caps
are naturals, company ids are naturals, kinds of key are disjoint, the clock
bounds are positive, the registry lists the shared features under every product,
nobody starts with another company's role, a spelling has one name, a batch and a
day are not empty, a key has a company, and rows and requests of a list are over the
columns there are, with distinct ids; rows of an export have distinct ids and
dates of creation, what stands for none is no id or number, and `canonicalRole` names no
row's role Administrator).

`SessionsProofs`
- `TypeCorrect`. Includes that a request about to evict or mint holds a token id.
- `SessionsEndForGood`: the only write that creates an active row needs an unused
  id; every other write only revokes, ages or prunes (`RowStep`).
- `RotationRetires` needs `Linked`: what a request remembers about its parent
  agrees with the table (the parent has been stored, and from the creation on it
  is inactive), and every successor's parent is inactive.
- `EndingsReach`, `LoginsExclude`: inductive with `TypeOK`, one step per action.
- `Refinement`: every statement is an `Open`, a `Close` of one person's sessions,
  or a stutter.

`RevocationProofs`
- `RevocationTypeCorrect`.
- `RefusalsLast` needs `Memory`: a key outlives its tokens in the store
  (`StoreOutlives`), stamps are never in the future, and what has been announced,
  queued, listed or read by a resync is still in the store for as long as a token
  it refuses can live, for every key not forgotten.
- `RefusalsComeFromRevocations` needs `Earned`: every cutoff, wherever it is (with a
  publisher, in the store, on the channel, read by a resync, in a list), is that of
  a revocation of that key that was made. A refusal alone says nothing of the
  copies from which the next one will come.

`CompaniesProofs`
- `CompaniesTypeCorrect`.
- `ForwardingRefinement` needs `FoldInv`: for each transaction, what it has
  `Secured` (the two companies differ and exist; it holds the rows it will write;
  the surviving one has not been folded), and that nothing forwards from a row
  that does not exist. A step for one transaction leaves the others' rows alone
  (`Minds`), which is what the row locks are for.
- `PointersComeToAnEnd`: pointing at a company that forwards to nobody cannot
  close a cycle.
- `ClaimsMeetNobody` needs `ClaimInv`: a link is on one company, and on none once it
  was used; and from the lock on, the company of a claim under way has the link the
  claim came with and nobody in it (`Chosen`). Nobody joins it then, because whoever
  would join it needs its row lock (`NobodyJoins`).
- `SeatsAreCounted`: one step brings one person at most into a company that is not
  `crowded`, and only where it had a seat left or nobody (`PeopleStep`); the
  registration counts and inserts under the row lock, so the count is that of the
  step. That the accounts are finitely many is part of the invariant.
- `MergesLockInOrder` needs `HoldInv`: a merge that waits for its second row holds the
  lower of its two and nothing else. Two that waited for each other would each hold
  one of two rows and wait for a higher one.
- `LinksAreNotLost` needs `FollowInv`: a claim that is folding a company away finds that
  the pairs resting on it are still where they were, and from the moment the links
  are copied their transporters are among those it moves (`FoldAway`); a merge about
  to commit is of companies that exist, of which the one it folds away was not
  folded away before (`Merging`).

`AccessProofs`
- `AccessTypeCorrect`. A change under way has exactly the fields its next write
  needs (`Pending`), which is what makes each write well typed.
- `RolesStay` needs `Backed`: the role a change is about to assign, top up or place
  still belongs to the company the change is about, if it exists. That holds
  because ids of roles do not come back while somebody holds them, and a role
  never changes company.
- `KeysOfOthersStand`: action by action; only `SaveRole`, `TopUpRole`, creation and
  deletion write a list of keys.
- `TokensAreRefusedInTime` needs `TokensInv`: of a token that is still good for
  something (stamped, not refused nor about to be, reached by every change),
  what the mint has read so far is what the rows say now (`ReadSoFar`): the role,
  then the role and the extras, then the keys, these up to an announcement still to
  be made. Each write of a row that was read leaves its token refused, excused or
  with its announcement ahead; a single-device token that an announcement of its
  company passes by is excused there (`AnnounceSweeps`). It needs besides that roles somebody holds are there (an
  id made again would change what its holders may do) and that nobody has a token
  before there is an account.

`BackgroundProofs`, the archive
- `ArchiveTypes`, for every number of writers, rows and runs.
- `OnlyOvertakenAreLost` needs `ArchiveInv`: for each run, what is left of its
  batch is the oldest of what was cold when it read (`OldestAreLeft`), so that
  whatever a DELETE takes beyond the file was stamped no earlier than the rows in
  it and numbered before the highest of them; that a working run has rows left
  (`WorkIsLeft`); that the file of the day about to be deleted holds exactly its
  rows and later days have no file yet (`FilesToCome`); and that an idle run has no
  files (`Rested`). The least of a set of days exists by
  well-foundedness of the naturals.
- `WrittenOnce` is `FilesToCome`, step by step.

`TenancyProofs`
- `TenancyTypes`. Includes that whoever is about to mark somebody knows whom (`Aimed`).
- `StaffStayKarlos` needs `Trust`: a token or a request that says staff names a
  company of Karlo's, and whoever is about to be marked is in one. Tokens outlive
  merges, which is why `karlo` keeps the companies merged away.
- `OneFromTheShell` needs `ShellInv`: live accounts share no address that bootstrap may
  be given (`Unshared`), so two made for one address do not both still have it; while
  no runs have overlapped, one at most is under way, and none of bootstrap's accounts
  is staff while it is (`InTurn`), because it counted none and a request marks only whom
  it has invited (`Invited`).

`BackgroundProofs`, the limiter
- `LoginTypes` from an invariant that says besides that every counter is nothing or
  has an expiry, which a transaction sets where there is none (`CountedExpires`) and
  a tick takes away with the key only (`TickedKey`).
- `GuessesStayBounded` needs `GuessInv`, which takes what was let in apart where the
  present key was made: since then, at most what the key has counted, up to the
  limit; before, at most the limit; with no key, nothing at the present moment and
  at most the limit in all. A key that ends hands its part over to "before", whose
  rows are by then as old as the window.
- `FallbackOvershootIsBounded`: what is recorded and those comparing a password, taken
  together, are fewer than the limit and the requests. Reading the log below the
  limit starts one comparison, ending one records one failure.
- Both are about sums over a function, which the library folds in an order it does
  not tell. `SumCounts` shows, by induction on subsets (`SubsetInduction`, from
  the well-foundedness of the finite ones), that such a sum is the number of cells under the
  function's graph; steps then add and take away cells.

`ListingProofs`
- `ListsAnswerWhatWasAsked`: a heeded clause becomes a condition that selects only
  rows that meet it, operator by operator and spelling by spelling
  (`ClauseNarrows`); what is on a page was selected at some moment of the walk, and
  whether a row meets a clause does not change while it is listed.
- `WalksMissLittle` needs `Steady`: of the unseen rows that stayed and that the sort key
  tells apart, those before the end of the last page read (`Skipped`) are no more
  than rows left, and between the two statements of a page the list is no longer
  than its count and what came since. A statement selects exactly what was wanted
  (`StatementSelects`, the converse of the above); the order by columns is strict
  (`PrecedesIsAnOrder`); whatever order ties come in, such a row is at the place
  given by the rows before it (`RowsHaveTheirPlaces`); and no two have one place
  (`PlacesDiffer`), so that a row that goes moves one other across a boundary
  (`LeavingSkipsOne`) and one that comes none (`ComingSkipsNone`).

`ImportProofs`
- Functions that recur over a file exist because a step stays within a set
  (`StepsExist`, from the well-foundedness of the naturals), and what their steps keep
  holds up to the end of the file (`UpTo`).
- `ParentsAreFollowed` needs `CompanyFollows`: a step up leads to the same company.
  Where the walk from a row ends at a top, so does its parent's, one step sooner
  (`TopStays`). Whoever is not at a top after as many steps as the file has rows has met
  some row twice (`CirclesGoOn`, as there are no more rows than that), so its
  parent goes in the same circle, and neither has a company.
- `RolesGrant` and `RerunsDoNothing` need `NamesAre`: every set of permissions held in
  a company has one role, and no two have the same. A number is one more than the roles
  of that title so far, hence no role's yet (`NumberIsNew`).
- `ImportTypes`, `ParentsAreFollowed`, `RolesGrant` and `RerunsDoNothing` follow from
  `ImportInv`: with no edit since, the tables are what the last file makes of them
  (`Settled`), and, as long as the service has edited nothing at all, only
  Administrators are granted everything. None of the four is inductive without
  it, each being about one part of what the file made.
- `OldestKeep` needs `NumberInv` besides: no number is two accounts', and that of
  a row imported by whatever file is with an account that is no younger. It has a
  hypothesis, `FilesAgree`: the exports are of one legacy system, in which nobody's number
  or date of creation changes from one to the next. An account that is there keeps its
  number whatever a later file says (`ON CONFLICT` sets only its company), so of files
  that disagree the property would compare a number with those of another file. The
  files of the run (an export, its first rows, and a later one) satisfy it.

Only model-checked: the liveness properties (`OutdatedSessionsEnd`,
`RecordsReachEveryList`, `LockoutsEnd`, `ColdThingsGo`), which are outside what TLAPS
does here. Every other property of the passing runs is a theorem.

## 6. Not modelled

- Signing and parsing of tokens, password hashing and SQL text are libraries'.
- HTTP and gRPC transport, decoding of requests other than lists, logging and configuration have no
  state of their own. Which route asks for what is in `Tenancy`.
- The catalogue, device tokens and documents are rows written by one statement
  each, which no other operation relies on.
- The creation and revocation of API keys: nothing in the repository calls them.
- Redis losing its keys (the limiter does not answer to it; for revocation it is a
  restart), time zones, clock skew between services, PostgreSQL failover.
- About 11,000 lines of the repository are generated (`internal/platform/genproto`,
  `docs/docs.go`), and much of the rest declares columns, labels and routes: the
  share of all lines that any model of the service stands for is small.

## 7. Plan

1. *Accounts*: the uniqueness of all identifiers across registration and update; the
   e-mail address, as far as bootstrap goes, is in `Tenancy`.
2. *Companies*: a claim's roles and modules, which `Tenancy` and `Access` each have
   a part of.

## 8. Running

    tlc -workers 2 -config Companies.cfg MCCompanies
    tlapm CompaniesProofs.tla

Each passing run takes between one and a little over three minutes on two
workers.
