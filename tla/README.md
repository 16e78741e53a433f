# A verification development for open-image-registry

TLA+ modules that model open-image-registry, its server and its web console, TLC
configurations that check them on small instances, and TLAPS proofs of theorems
about them. All paths below are under `src/`; Go sources are under `src/server/`,
`.tsx` and `.ts` sources under `src/webapp/src/`.

## 1. The system

A single Go process serves a management API (namespaces, repositories, users),
the Docker registry API of a *hosted* registry and of *upstream proxies*, and a
React front end. It keeps its data in one SQLite database and its blobs in local
files. Requests run in goroutines, side by side.

| Component (source) | State it keeps | Operations | Talks to | Correct when |
|---|---|---|---|---|
| Access manager (`resource/access`) | `RESOURCE_ACCESS` rows | grant, bulk grant, revoke | called by namespaces, repositories and roles | access stays within roles, is decided by those entitled, is never overwritten |
| Namespaces (`resource/namespace`) | `REGISTRY_NAMESPACE` | create, delete, state, visibility, access | access manager | disabling freezes what is below |
| Repositories (`resource/repository`) | `REGISTRY_REPOSITORY` | the same | access manager, their namespace | a repository only ages |
| User accounts (`user`) | `USER_ACCOUNT`, `USER_ROLE_ASSIGNMENT`, `PASSWORD_RECOVERY` | create, set up, lock, unlock, delete, role, password | access manager, e-mail client | one present account per name; whoever is invited can come in |
| Authentication (`auth`, `middleware`) | failed attempts, `AUTH_TOKEN` | login, logout, check of tokens | accounts | failures are counted until the lock, and not after |
| Startup (`cmd/main.go`) | the administrator's rows | create or unlock the administrator | accounts | there is an unlocked administrator after a start |
| Key locks (`lib/keylock.go`) | a map of locked keys, a mutex | lock, lock several, unlock | file storage, listeners | keys exclude; none is lost |
| File storage (`storage/lfs.go`) | files, key locks of their paths | write, write chunk, rename, delete | operating system | one writer at a time; a write that succeeds is whole |
| Listener manager (`listeners`) | a map of listeners, two sets of key locks, two goroutines per listener | register, unregister | `net/http` | a listener holds its registry and its port exactly while it needs them |
| Blob uploads (`registry`) | upload sessions and blobs in the database, files | initiate, chunk, last chunk, monolithic | store, file storage | a listed blob is whole |
| Registry id maps (`registry/service.go`) | two maps in memory | look up, create on push | store | they agree with each other and with the tables |
| Listings (`lib/queryparser.go`, `store/builder.go`, `List` of the stores) | the conditions and the transaction of a request | parse, check, build, count, fetch | handlers, store | total and page are what the parameters ask for |
| Manifests, tags, upstream proxy (`registry`, `client/upstream`) | rows, cached tokens | get, put, pull through | store, Docker client | never reached, see section 7 |
| Token cache (`lib/cache.go`) | a map with expiry times | set, get, clean | Docker client | see section 7 |

The web console is a single-page application in the browser. It talks to the
server by HTTP alone, and to itself by React state, a context for the loader and the
browser's router.

| Component (source) | State it keeps | Operations | Talks to | Correct when |
|---|---|---|---|---|
| API clients (`api/`, `client/index.ts`) | interceptors | one function per operation; serialize, send, read the answer | server | an operation has a route; an outcome is data or an error |
| Shell (`index.tsx`, `AppRouter.tsx`, `components/loader`) | route, loader's counter, timers, calls out | navigate, show, hide, reload on a 401 | every page | the loader shows while something is under way and not after |
| Layout (`RootLayout.tsx`, `HomePage.tsx`, side menu, breadcrumbs) | folded menus | links, logout | router, API client | links lead somewhere; a logout ends at the login page |
| Login page (`LoginPage.tsx`) | two fields, a message, an overlay | type, sign in | API client, router | a good login leads home |
| Account setup (`NewAccountSetupPage.tsx`) | the invitation's details, two passwords, an error, an interval | fetch, type, complete, redirect | API client, router | a password let through is one the server takes; a completed setup ends at the login page |
| Users page (`UserAdministrationPage.tsx`, chips, search field) | query, rows | load, filter, sort, turn pages, search | API client | the rows are those the controls ask for |
| User dialogs (`CreateUserAccount.tsx`, `UserAccountView.tsx`) | fields, messages | check, then create, update or delete | both API clients, the users page | what is stored is what was checked |
| Namespaces page (`NamespaceMgmtPage.tsx`, `CreateNamespace.tsx`, `SearchAndSelectDropdown.tsx`) | rows, fields, suggestions | load, check, create, search maintainers | API client | what is stored is what was checked |
| Namespace and repository views, upstreams dialog | sample data, a form nobody opens | | | see section 7 |

The behaviours that are hard here:

* *Answers out of order.* Nothing cancels a call of the console: an older listing may come
  after a newer one, a page may be gone when its answer comes, and a handler goes on with
  the values of the render that made it.
* *Timers that outlive their page*: the countdown after a setup, the search fields'
  delays, the reload that follows a 401.
* *Interleaving.* Account operations are sequences of SQL statements that commit
  one by one; a listener has two goroutines and a caller that race to clean up;
  chunks of one upload session may be handled side by side.
* *Partial failure.* Files and rows have no common transaction; the error of a commit is discarded; a mail server or
  a disk may fail between two steps; a transaction may commit half of what it
  was meant to hold (`cmd/main.go`, `resource/namespace/service.go`).
* *Lost answers.* A client that hangs up cancels the transaction of its request,
  not the request; it then sends its chunk again.
* *Restarts.* Locks and maps are in memory, files and rows are not.
* *Deadlock.* SQLite with a shared cache has table locks, and two transactions
  may each wait for the other; a request that writes on two connections may wait for itself.
* *Long legal sequences.* Roles, grants, states and deletions in any order.

`PROJECT.json` lists each hazard at its line with the properties that cover it.

## 2. Modules

| Module | Models | Notes |
|---|---|---|
| `Accounts` | what everything else may rely on about accounts and roles | abstract; implemented by `UserAccounts`, and the accounts of `AccessControl` are built of its actions |
| `AccessControl` | access manager, namespaces, repositories, roles | an action is a handler that commits |
| `UserAccounts` | accounts, authentication, startup | an action is a statement that commits |
| `StorageCalls` | what callers may rely on about writing and deleting files, `BlobStorage` of `storage/storage.go` | abstract; implemented by `FileStorage` |
| `KeyLock` | `lib/keylock.go` | operators on the set of locked keys |
| `FileStorage` | `storage/lfs.go` | an action is a call of the operating system |
| `ListenerManager` | `listeners/listeners.go` | an action is what runs under one mutex |
| `BlobUpload` | uploads to the hosted registry | an action is a storage call or a statement |
| `RegistryIds` | `namespaceIdMap`, `repositoryIdMap` | an action is a request |
| `ListQuery` | the six listings of the management API | an action is a statement |
| `WebApi` | the generated client, the routes behind it, what an answer comes to | operators; `Outcomes` feeds the next modules |
| `Shell` | router, loader, calls out, interceptor | the variables of the console |
| `LoginPage`, `AccountSetup`, `UsersPage`, `UserDialogs`, `NamespacesPage` | one page each; the dialogs of the users page apart | an action is a handler up to its await, or from its answer on |
| `WebConsole` | layout, navigation, all pages together | `Next`, fairness, properties |
| `WebContracts` | JSON bodies on both sides | assumptions TLC evaluates |
| `AccessControlProofs`, `UserAccountsProofs`, `RegistryIdsProofs`, `BlobUploadProofs`, `ListenerManagerProofs`, `FileStorageProofs`, `WebConsoleProofs`, `ListQueryProofs` | | theorems and proofs about the module each is named after |
| `MC...` | | instances for TLC |

Variables stand for tables and fields, actions bear the name of the function they
model, and the `map` of `PROJECT.json` gives the lines of every definition. Operators
whose names carry a suffix and the comment `mutant:` are variants of the operator
that follows them, each with a plausible mistake; nothing else uses them.

**Atomicity.** Handlers of namespaces, repositories, access, login, roles and
passwords run in one transaction; SQLite's shared cache makes transactions
serializable, so a committing handler is one action and a refused one is no step. A failing commit is
one that leaves the state alone, except in `BlobUpload`, where a client acts on the answer.
Creating, locking, unlocking and setting up an account open a transaction at most
to leave it out of the context of their statements (`user/service.go:80`), so each
statement is an action. `initializeAdminUserAccount` shadows its error variable, so
its transaction commits whatever was done before a failure. In `BlobUpload` the files
are outside of the transaction, so a request is a sequence of steps, and a request
that wants to write waits until no other transaction is open (`MayWrite`), which is
what the table locks of the shared cache come to, as every transaction here but that of an
initiation reads the session table first. While it waits it is the `writer`: no transaction begins, and no other
connection writes. That a storage call is one step of `BlobUpload` is what `StorageCalls`
says of the calls on a path that is never renamed, and `FileStorage` is proved to implement it
(`ImplementsCalls`). The files of an upload are renamed when it is finished, so of them this is
an assumption of `BlobUpload`: with keys that exclude renames too it would follow in the same way, and
the flaw of `LockKeysAtomically` (section 6) is left to `FileStorage`.

**Foreign keys are not enforced.** The database is opened with `_fk=1`, which is
no option of the driver in use; rows of deleted namespaces and repositories stay,
and the models say so.

### AccessControl
`account`, `role`, `resource` and `access` are the five tables; `resource[x].status`
tells apart ids not yet given, live rows and deleted ones. `verifyInitiatorAuthority`,
`verifyResource`, `verifyGrantee` and `isRedundantAccess` are the functions of the
access manager with their conditions; the handlers of namespaces ask as the account
named `admin`, whoever calls, and so do the actions. A revocation on a namespace
passes a username where an id is expected, so that only the role Admin helps. The handlers of
repositories compare the granter or revoker with the name in the caller's token;
`asker`, a history variable, keeps the caller of the request that just changed the access to a repository. A
`Caller` is an account that could be given a token: one with a role, which may have been deleted since.
`RoleChangeAccepted` computes from the two lists of field names that the query behind
a demotion is always refused, rather than saying so.

### UserAccounts
A `row` joins an account with its recovery row (`invitation`), its lock and its
counter. `req[p]` is where request *p* stands between two statements, with the
username or id it read before. Locks name the row by username, as
`store/sqlite/user.go` does, so a request may hit a namesake made later.
`Crash` forgets all requests and `StartUp` is the start of the server.

### FileStorage, KeyLock, StorageCalls
`dir` maps paths to inodes and `data` inodes to blocks; an open file survives a
rename or a removal. A block is the process that wrote it, or `"torn"`. Offsets
are numbers of blocks. `WriteFails` leaves any part of a write behind.
`StorageCalls` has what callers see: the file under each path and the call each process is in. A
path has one call at a time; a call that succeeds changes the file once, from what is there then; a
chunk goes behind exactly `offset` blocks, or finds another length and removes the file; an
unsuccessful call may leave a torn or an empty file, which the readers, who take no lock, may also see in between.
The mapping of `FileStorage` hides locks, inodes, open files and the order of stat, open
and write: `files` are the blocks under the steady paths (those no rename touches) and `calls` the operations on
them, with `Answer` for the moment the outcome is decided, which for a `PutFile` whose write failed is
before it removes its file.

### ListenerManager
`inst[i]` has the two goroutines of listener *i*: `serve` (sleeping, serving, three
steps of clean-up) and `shut` (waiting to be cancelled, draining, clean-up).
`Shutdown` before `ListenAndServe` makes the latter return at once, as in `net/http`.
A caller of `UnregisterListener` may clean up as well, after a time-out.

### BlobUpload
`received` is the count in the session row, `upload` and `blob` are sizes of files,
`meta` the size in the row of a listed blob, `acked` what the client knows,
`open` the transactions in progress, `writer` the request whose write waits for others' transactions. `Hangup`
rolls back the transaction while the request goes on; from there its writes to the database
fail. `Blobs().Create` writes on a connection of its own (`store/sqlite/blob.go:56`): it commits whatever
becomes of the request's transaction, and while a writer waits it waits too (`WaitToCreate`), also for the writer
that waits for this very request. The error of a commit is discarded
(`registry/service.go:316`), so `UpdateUploadSession` may leave the count as it is and tell the client otherwise; `lost`
are the sessions this has happened to.

### RegistryIds
One path. Ids are numbers given in order. `getRepositoryID` asks with the namespace id
of its map and remembers also that nothing was found.

### ListQuery
`req.cond` is `ListQueryConditions`; its filters are in an order chosen anew for each
request, as a Go map is ranged over in any. `buildWhereClause` gives clauses with
placeholders and `whereArgs` the arguments apart from them; `Selected` binds them by
position, as the driver does. `Asked` says what a query means without any of
that: which rows have, for every field, one of the values or lie in the range, contain
the search term, and belong to the namespace or repository. `TablesRead` are the tables
the transaction has locked for reading in the shared cache; nobody writes to those.
Rows of equal sort value come in any order. An account without a role has `Null` for it, which no comparison
finds, and is skipped by the listing after it was counted (`Readable`). Characters are left out, so `%` and `_` in
a search term are too.

### WebApi, WebContracts
`Methods` and `Types` are the tables of operations in `sdk.gen.ts` and `types.gen.ts`,
`Outcomes[op]` what a page can see of an operation's answer: data, text, nothing, an error
with a message, an error without one, or a rejected promise, each with or without a
401. It is computed from the statuses and bodies the server's handlers write, including the
content type Go makes up where a handler writes the status first. The assumptions
of these modules compare the two sides: every operation the pages use is routed with its
method, half of the old client's paths are not, a page sends the fields that are
required and declared, the server's structures have the fields of the generated types.

### Shell and the pages
`page` is the route on display and `view` its component's state, a record with the names
of the `useState` variables where they matter. `loader` is the counter of
`LoaderProvider`. `flights` is a bag of the calls out; a flight is the handler that awaits
(`call`), whether its component is mounted (`live`), the values it closed over (`arg`) and
those it has had checked by the server (`checked`), whose answer stops every handler but the one that creates a namespace. `redirects` and `reload` are the two timers that
leave the page, `due`, `pending` and `hides` of the views the ones that stay on it.
`abandoned` are the handlers a rejected promise has ended before they hid the loader.
React runs a handler without interruption up to its first `await`, so an action goes from
one await to the next. `gestures` bounds what the user asks for.
In the users page a row set is named by the request it answered, and `status` tells
whether the latest request has been answered: `upset` from the moment an older answer or
a dialog's own reload makes the display differ from what was asked. Of the rows one is
followed, the first one's account, since the dialog of a row belongs to its place in the
table.

## 3. Runs

All passing runs exhaust their state space.

| Run | Question | Bounds |
|---|---|---|
| `access` | Do roles cap access, do administrators decide it on repositories, does disabling freeze, do live repositories age? | 3 accounts (the administrator and two more), 1 namespace, 1 repository |
| `accounts` | Can whoever is invited come in, with a role? Are failures counted? Is the administrator unlocked by a start? Is `Accounts` implemented? | 3 accounts of which 2 namesakes, 2 requests, limit 5 as in the code, 7 failures |
| `storage` | Are the operations atomic calls (`StorageCalls`), are successful writes whole, do chunks only append, on paths nothing is renamed from or to? Does every key come free, with renames, failures and crashes? | 2 goroutines, 2 paths, 2 blocks, 1 block where files are renamed |
| `listeners_orderly` | Is a listener registered while it listens; is a caller answered; does a registry come free? | 2 registries, 2 ports, 2 callers, 2 listeners, no time-out, no failing server |
| `listeners_failures` | Does every locked key have somebody left to release it? | 1 registry, 1 port, 2 callers, 2 listeners, time-outs, failing servers |
| `uploads_hangups` | Does a listed blob have its file; are acknowledged chunks counted unless a commit failed; does every request end, or wait in the one circle the code leaves? | a chunked and a monolithic session of 2 chunks, 2 requests, hang-ups, restarts |
| `uploads_whole` | Is a listed blob whole, with stale requests about and commits that fail unnoticed? | 2 sessions of one digest, 3 requests, no hang-up |
| `ids_on_push` | Do the two maps agree? | 3 ids of each kind, creation on push as configured |
| `listings` | Do the total and the page of a listing answer what was asked? | about 100 requests of all six listings, any subset of 9 rows, one of them an account without a role, numbers of 6 bits |
| `web_console` | Is whoever waits waiting for something? Do the rows answer the controls? Is what is stored what was checked? Do a setup and a lost session end at the login page? | 2 gestures that call or navigate, 3 calls out at a time, 1 rejected promise, 5 pages |
| `finding_no_role`, `finding_rename_locks` | section 6 | |

**Why these bounds are enough.**
`access`: one namespace with one repository has all relations between the two kinds
of resource, and three accounts give an initiator, a grantee and a bystander. Two
constraints keep the run small: only the third account is ever deleted
(`OneDeletable`), and while a resource is public nobody has access
(`FewPublic`; visibility and access read nothing of each other). The theorems of
section 5 need none of these bounds.
`accounts`: two requests are enough for every race of two operations; three accounts
give the administrator, one that is created, deleted, and created again under its name.
`SteadyAdmin` leaves the administrator without deletion, requests and failures of its own, and
other accounts without roles but Admin; what a role is matters to `access` only.
`FailuresApart` lets failed logins happen beside one request and not two, as counting takes
part in no other statement than the row's own. `FailedBound = 7` lets two failures
happen beyond the limit of five, if the code admitted them. `PrefixBound` lets an id be
deleted once: the prefix a deletion adds to the username is all that would grow.
`storage`: exclusion is between two; two blocks are the least for which a chunk has a
place after another. The run has states without renames, where both paths are steady, and states with
them, where neither is and only the keys are looked at; steady paths beside renamed ones are
left to the theorems. `listeners_*`: two listeners of one registry are an old one that
is not yet gone and its successor. `uploads_*`: two chunks are the least for which
there is a first, a last and an offset; three requests are a chunk, its stale twin and
the finishing one. `listings`: the requests combine filters of one, two and no
argument with a search of one to three columns and with a filter of two alternatives, which is
where positions can go wrong; they have pages within, at and beyond the end, and
one whose product wraps around. `web_console`: two gestures overtake each other, or make a
dialog's answer meet a changed page; the call of the page's own effect is a third. Typing,
ticking, opening and closing are not counted. 12 users are more than the page of 8, so that
there is a page to turn to, and 0 gives a listing without rows. One new address beside the
account's own and the empty field are the ones a check can tell apart.

**Deadlock** is checked in all runs but `access`, `accounts` and `finding_no_role`, where
ids are used up (when every account is deleted nothing is left to do), and `web_console`,
where the user may be done.

**Symmetry** is used for requests and callers where only safety is checked.

## 4. Fairness

* `FileStorage`, `ListenerManager`, `BlobUpload`: weak fairness of each goroutine's
  step. The Go scheduler runs every goroutine that can run. Nothing is fair that is an
  error, a time-out, a hang-up, a restart or the arrival of a request. A drained server
  is weakly fair because `Shutdown` has a deadline.
* `BlobUpload` has weak fairness of every step and strong fairness of those that take a lock of the database
  (`Locks`): whoever waits is told when a lock is free, so that one that is free again and again is got in the
  end, and SQLite lets no new transaction begin while a writer waits. Two
  transactions that wait for each other are ended by SQLite with `SQLITE_LOCKED`; `Stuck`
  is that end. One circle SQLite cannot see: a request waits in Go for its row while a writer waits for the
  request's transaction (`RowBehindWriter`). `Blocked` keeps the model from ending it by an error, as the code has no
  time-out for it, and `RequestsEnd` says that there is no other.

* `WebConsole`: weak fairness of the answers (a call is answered or fails, as `fetch` settles
  when the connection ends), of the timers on a page, of the countdown and of the reload (the browser
  runs timers that are due). Nothing the user does is fair.

`RequestsEnd`, `KeysComeFree`, `UnregisterReturns`, `RegistriesComeFree`, `SetupReachesLogin` and
`SessionLossReachesLogin` are the liveness properties. `UnregisterReturns` and `RegistriesComeFree` are checked where no time-out and no failing server
occur, which is where the code can keep them.

## 5. Theorems

A theorem holds for every value of the constants that its module's assumptions allow. The
pattern is the same throughout: an inductive invariant, which TLC has checked on the instance of
the run before it was proved; a lemma that each step of `Next` keeps it, with one case per action;
the theorems that follow. Hypotheses beyond the assumptions are written in the
theorem, and TLC shows the property violated without them.

**AccessControlProofs**, for any sets of users, names, namespaces and repositories,
assuming that every account has a name (`NameOfType`) and that repositories are not
namespaces and each is made in one (`ResourceType`):

* `Invariance`: `Spec => []IInv`. `IInv` is `TypeOK`, `GrantWithinRole`,
  `NoAccessBeforeBirth` and `NoMaintainerOnRepository`. `GrantWithinRole` alone is not
  inductive: `CreateNamespace` overwrites a whole row of the access table, which is harmless
  because an id has no access rows before its birth. `NoMaintainerOnRepository`
  is what makes `RepositoryGrantsAdd` provable (a user without Maintainer on the
  repository gains by a grant only up to Developer) and, with `verifyInitiatorAuthority`, is why
  a Maintainer has no authority over a repository.
* `TypeCorrect` and `RolesCapGrants` follow from it; `GrantsNeverUpdate`,
  `RepositoryGrantsAddAccess`, `AdminsDecideOnRepositories`, `RepositoriesAge` and `DisablingFreezes`
  are the action properties of `access`, each proved step by step over the disjuncts of
  `Next` under the invariant.
* `AdminsDecideOnRepositories` (`RepositoryAccessByAdmins`) ties a change to its request: since nobody has Maintainer on a
  repository, `verifyInitiatorAuthority` lets nobody by but Admins, the name it looks up is the caller's, and an
  Admin can neither be granted access to a repository nor revoke its own.
* The lemmas say which roles allow which levels, that a promotion takes no level away, and
  that a demotion is never accepted. The last is where the proof departs from
  what the code intends: were the query repaired, the case would follow from
  `ExceedsRole` instead.

**UserAccountsProofs**, for any users, usernames and requests and any limit and bounds:

* `AccountsInvariant`: `Spec => []AInv`. Beside the run's invariants `AInv` says what a request
  between two statements relies on (`RequestsPrepared`: its account was created, it has a role before
  the recovery row is inserted, a password before the unlock of a setup), that rows of accounts never
  created are empty, and that no two rows have the same username.
* `LockedWereCounted`, `SetupKeepsWayIn`, `InvitedHaveRoles`, `NamesStayUnique` follow;
  `CountersFreeze` and `AdminUnlockedAtStart` are action properties. `CountersFreeze` assumes that
  `MaxFailedLoginAttempts` (5) is none of the lock reasons: the code compares the two
  (`TurnedAway`), and were they equal, an account locked for that reason would be let in and counted.
* `ImplementsAccounts`: under `AInv` every step is a step of `Accounts` or leaves it alone,
  the crash and the start among them.

**RegistryIdsProofs**, for any bound on ids and either configuration (`IdsType`):
`TypeCorrect` and `Agreement` (`MapsAgree`). The two are inductive together; the
lemma `FoundIds` gives the type of what a lookup finds.

**BlobUploadProofs**, for any sessions, digests, requests and sizes:

* `CountsInvariant` and `AcknowledgedStaysCounted` (`AcknowledgedCounted`): what the client
  was told is in the session's count, with hang-ups and restarts, unless a commit of that session failed unnoticed
  (`lost`). `CInv` adds where a request may stand, that a request in its transaction knows the count, and that a
  count never exceeds its session.
* `RowsInvariant` and `ListedHaveFiles` (`RowsHaveFiles`), for `SeparateDigests`: no digest is
  uploaded both in chunks and whole. Without that a failing monolithic upload removes the file of a
  digest that is listed (section 6), and TLC shows it. The run has a session of each kind with a digest of
  its own.
* `WholeInvariant` and `ListedAreWhole` (`ListedBlobsWhole`), for `SeparateDigests` and
  no hang-ups: a handler stays in its transaction, so that between the check of the size and
  the rename no other request gets to write. A hang-up ends the transaction and not the handler, which
  is how the property fails with three requests.

**ListenerManagerProofs**, for any registries, ports and callers and any number of listeners:

* `KeysInvariant` and `KeysKeepHolders` (`KeysHaveHolders`), with any time-outs and
  failing servers. `KInv` refines "somebody is left": for each locked key a caller or a goroutine is
  before the step that unlocks this very key (`FreesPort`, `FreesReg`), a `shut` goroutine that
  waits counting only while something can still cancel it.
* `OrderlyInvariant` and `ListeningStaysRegistered` (`ListeningIsRegistered`), without
  time-outs and failing servers. Holders have locked what they hold, each its own, and the
  map of listeners has exactly those not cleaned up yet. Two things follow inside the proof that the
  code checks for all the same: whoever has the registry's key finds no entry in the map, and
  no server finds its port taken.

**FileStorageProofs**, for any finite sets of goroutines and paths, any set of steady paths and any
file size; `MaxBlocks` is at least 1, as a whole file is a block:

* `FilesInvariant`, `LocksKeepOwners` (`LocksHaveOwners`) and `SteadyPathsExclusive`
  (`OneOperationPerSteadyPath`), with renames that go on without their keys (section 6): a path that is
  never renamed from or to is locked by whoever works on it. No run has the last by itself, as
  `StorageCalls` would be broken where two operations met. `TypeCorrect` has a
  counting argument: files that are open or named are at most as many as goroutines and paths, so a
  new file finds a free inode (`FreeInode`).
* `PathsExclusive`: without renames (`Renames = {}`) the same holds of every path (`OneOperationPerPath`): the
  flaw of renames is all that breaks it.
* `WritersInvariant`: between its open and its write a writer on a steady path has the file that is under
  the path, with the size it was checked for. From it follow the action properties
  `WritesAreWhole` (`WritesLandWhole`) and `ChunksOnlyAppend` (`ChunksAppend`), of such paths only.
* `ImplementsCalls` (`CallsSpec`): every step is a step of `StorageCalls` or changes nothing callers see.
  A lemma for each kind of step says what it leaves of `files` (`OpenLeaves`, `WriteLeaves`, `RemoveLeaves`,
  `RenameLeaves`, `NamesKept`), others what it does to `calls`. `WritersInv` makes a chunk land at the end
  of its file; `CorruptedInv`, inductive beside it, makes a chunk that removes its file find it still of the
  wrong size. `RenameLeaves` and `NamesKept` hold however a rename came by its keys, and the latter is
  why a crash is invisible but for the calls it ends.

**WebConsoleProofs**, for any values typed, ticked and answered and any number of gestures, calls
and rejections:

* `ConsoleInvariant`, `StoredWasChecked` (`SentAsChecked`) and `TableShowsAsked` (`TableAsAsked`).
  `ConsoleOK` says that every call out, mounted or not, is well formed and carries what was checked
  (`Checked`), and of the users page on display that no mounted listing is newer than the latest and that
  the latest asks for the query of the controls, unless a dialog asked in between (`ListingOK`).
* `BusyOnlyWaiting` (`BusyMeansWaiting`) is a counting argument over the bags of calls. `Counts`: the
  loader shows at most the handlers out plus those a rejected promise ended. Leaving a page turns its
  calls into calls of no page without losing one, as the map from the ones to the others is injective
  (`OrphanedCalls`); a row that is lost may turn a call into one that is out already, and the
  copies add up (`OrphansOfRow`). `Spins`: each overlay and spinner has a mounted call, a timer, or an
  ended handler to account for it; `MountedBelong` keeps the calls of one page from passing for another's.
* TLA+ leaves open which arm of a `CASE` is taken where two hold, which TLC decides by their order and a prover
  cannot; the arms of the console's modules exclude each other.

**ListQueryProofs**, for finitely many rows whose texts are those of the fields that are searched and whose sort
fields are in order (`RowAssumption`), requests whose page and limit are natural
numbers, as the parser reads unsigned ones, and whose parameters have values (`QueryAssumption`), and a width of
words whose power of two is positive (`WordAssumption`: the provers know nothing of powers):

* `ListingInvariant`, `TypeCorrect` and `PagesMatchTotals`. `ListOK` says that from the count on the
  total, and from the fetch on the page, are those of the rows selected *now*: `TablesRead` keeps
  the table from being written between the statements (`SnapshotKept`). From it follows `PageOfTotal`, for
  pages that wrap around as well: the rows listed are distinct, selected still, ordered, and as many as the total
  leaves for the page, of which no more are missing than there are rows that cannot be read (`RowsRead`, `SkippedRows`).
* `CountsAsAsked` (`CountedAsAsked`) and `PagesAsAsked` (`ListedIsPage`): the rows selected are those asked for
  (`Asked`), for any number of parameters, values and searched fields. `AskedOK`, a conjunct of `ListOK`,
  keeps with the request that its conditions are those of its parameters in some order and of
  the namespace its scope has (`Carries`), which stays the one there is since its table is locked too. The rest is
  about operators, in four steps. `FlattenElements` and `NestedParts`: a part of a flattened sequence is found behind
  the lengths of the parts before it. `ArgumentPlaces`: each filter has as many placeholders as arguments, so
  the arguments of each reach the placeholders of its own (`SelectedByParts`). `ParsedAsked`: the filters a
  parameter is parsed into hold of the rows that the parameter asks for, booleans translated. `OrderedPlaces`: in an
  enumeration by the sort field, a row is preceded by no more rows than there are places before it.
* The induction over the length of a sequence that this needs is the lemma `Induction`, of a set
  that has 0 and with a number the next one. The library's theorems on induction take an operator, which the
  provers cannot instantiate; this one is proved from a fact about sets, that inclusion is well founded on
  finite ones.

**Model-checked only.** Liveness under fairness is out of the prover's reach: `RequestsEnd`,
`KeysComeFree`, `UnregisterReturns`, `RegistriesComeFree`, `SetupReachesLogin` and
`SessionLossReachesLogin` are TLC's. Every invariant and every action property of the passing runs has its
theorem. Where renames occur `OneOperationPerPath` fails (section 6).

## 6. Where code and documents disagree

Two runs show a disagreement:

* `finding_no_role` (`user/service.go:80`): the transaction of an account creation is
  not used by its statements; a failure after the first, as of the insertion of the role, leaves a new
  account without a role. `UserHasRole` speaks of the accounts this function makes; the administrator of a start
  that fails (`cmd/main.go:192`) is left out of it.
* `finding_rename_locks` (`lib/keylock.go:82`): `LockKeysAtomically` answers true when the
  first key is busy; the rename runs without locks and then releases those of others.

The models contain the following as well; it was seen while writing them, and no run is
kept for it:

* `resource/namespace/service.go:70`: a namespace is committed without maintainers when
  their grant is refused; `docs/access-management.md:249` wants one at least.
* `resource/namespace/service.go:101`: repositories of a deleted namespace stay.
* `resource/namespace/service.go:233` and `resource/repository/service.go:243`: state changes
  pass that the diagram of `docs/access-management.md` does not have.
* `resource/namespace/service.go:326` and `:351`: access to a namespace is granted and revoked as the account named
  `admin`, whoever calls, so any account with a token decides on it; `docs/access-management.md:154` and `:372` want an
  admin or maintainer. No property is stated of it, as the code excludes nothing.
* `resource/access/manager.go:331`: every demotion ends in an error (`store/sqlite/access.go:62`).
* `resource/access/manager.go:391`: no Maintainer can grant access to a repository.
* `user/service.go:468`: a user promoted to Admin keeps Guest and Developer access.
* `auth/service.go:101` and `:125`: the sixth failure locks, not the fifth, and a successful login
  does not reset the counter.
* `user/service.go:326` and `:450`: completing a setup also removes an administrator's lock, and an
  unlock may race with the lock of a new account.
* `store/sqlite/user.go:47`: a deleted account keeps its recovery row.
* `listeners/listeners.go:155` and `:157`: `UnregisterListener` returns before its keys are free;
  after a time-out a third listener may come up while the second runs.
* `registry/service.go:584`: the maps remember that a namespace or repository is missing and
  are not told that a push made it, so that the chunks that follow are refused until a
  restart; `docs/access-management.md:112` offers creation on push.
* `store/sqlite/repository.go:212`: the total of repositories is asked of a query with two
  placeholders of its own, so every listing of repositories fails.
* `store/sqlite/namespace.go:266`: the boolean field is written `IS_PUBLIC` where the filter is
  `is_public`, so a filter by visibility (`docs/api-doc.md:6639`) finds no namespace.
* `resource/namespace/handler.go:387` and `:420`, `resource/repository/handler.go:314`: errors of
  listings are overlooked and answered by 200 with nothing; among those errors is a filter by
  `user_id`, which `constants/list_params.go` allows and `store/sqlite/access.go:62` does not.
* `resource/repository/validator.go:15`: the sort fields of repositories that are allowed are the
  ones refused, and a range of tags is always refused, having lost its sign in the parser.
* `user/validator.go:63`: `display_name` is allowed to sort users by and ends in an error.
* `store/builder.go:224`: the product of page and limit wraps around, so a page number near
  2^64 gives an early page.
* `store/sqlite/tag.go:33`: the insert of a tag gets four arguments for five placeholders, so a
  manifest can never be pushed.
* `store/sqlite/upstream.go:301`: the addresses of upstream registries are read and dropped, so no
  upstream listener is ever started.
* `registry/service.go:316`: the error of a deferred commit is discarded and the request answered as a success; the client
  goes on from a count its session does not have, and its next chunk ends the upload.
* `store/sqlite/blob.go:56`: the row of a blob is created on another connection than that of its request's open transaction. If
  another request waits to write by then, it waits for that transaction, the creation for it, and the transaction for the
  creation; nothing ends this but a restart.
* `store/sqlite/user.go:324`, `namespace.go:297`, `repository.go:238`: a row that cannot be read is skipped and has been
  counted. An account without a role is one, so it is on no page of the users, and the pages are short of it.
* `storage/lfs.go:239`: after the removal of a file ahead of its session no retry can pass.

In the web console:

* `pages/NewAccountSetupPage.tsx:147`: an outcome without an `error_message`, a lost connection for one,
  is shown as a completed setup (`:312`), whose countdown then leads to the login page;
  `docs/api-doc.md:528` promises that only of a successful one. An error, once shown, is never taken
  away (`generalError`), so the form stays shut until the page is loaded again. The Enter key sends a
  completed form again (`:167`), and the countdown goes on after the page is left (`:155`).
* `pages/mgmt-console/user/UserAdministrationPage.tsx:193` and `ns/NamespaceMgmtPage.tsx:110`: the
  loop that pads the rows to the total counts up while its bound comes down, so half of the pages exist.
* `UserAdministrationPage.tsx:304`: the number of pages becomes the size of a page.
* `UserAdministrationPage.tsx:184`: an older listing that comes late replaces the newer one; `:217`: the
  reload after a dialog asks with the query of when the dialog's handler began.
* `UserAdministrationPage.tsx:171`: `locked` is sent when true only, so "Active" filters nothing, and no role
  selected means all roles.
* `UserAdministrationPage.tsx:116`: a row's dialog belongs to the row's place. When the rows change beneath
  it, it shows, and deletes, the account that has come there. It turns itself the other way
  round on success, so one that was closed meanwhile opens.
* `components/UserAccountView.tsx:150`: the update sends address and role, of which
  `user/handler.go:118` reads neither, and reports success.
* `components/UserAccountView.tsx:119`: the message that an address is taken, and with it the refusal, goes away only by an
  update with the field empty.
* `components/CreateUserAccount.tsx:104`: the loader is hidden twice when a name is taken, and with
  it the loader of another call.
* `components/CreateNamespace.tsx:75`: a name is always reported as taken, and the namespace created all
  the same: the server's answer is labelled as text (`resource/namespace/handler.go:169`), whose
  `available` is undefined, and either branch goes on. The list is not loaded again.
* `components/CreateNamespace.tsx:148`: a search for maintainers without a match leaves the
  suggestions of the search before. `components/SearchAndSelectDropdown.tsx:83`: the chip of a
  maintainer bears a name that is compared with ids, so one removed by its chip is still sent.
* `client/index.ts`: the old client's answers pass by the interceptor of the 401, and about half of its
  paths have no route. `types/request_response.ts` has fields the server does not know
  (`OldBodiesDiffer`).
* `rest/routes.go:32`: the methods allowed across origins lack PATCH, which operations of the generated
  client use.
* `index.tsx:26` and `:36`: the interceptor is registered twice, and a login that is refused is a 401 too: the page
  loads anew and the message is gone. An error without a message shows none at all (`pages/LoginPage.tsx:26`).
* The menu's links beside users and namespaces have no route; `/console/registry` has an empty
  menu it reads the first entry of; `NamespaceViewPage` is a child of a page that renders no
  children; the upstreams dialog is never opened.

And limits of what the passing properties say:

* `ListedBlobsWhole` is checked without hang-ups. With a request whose client has hung
  up and three requests, stale chunks can remove and recreate the file between the
  check of its size and its rename.
* `ListedBlobsWhole` leaves monolithic uploads out: one of a digest already listed truncates
  the file of the listed blob, and a failing write leaves it torn. Nothing verifies a
  digest, and a monolithic upload makes no row.
* `AcknowledgedCounted` leaves out the sessions with a commit that failed unnoticed, and `RequestsEnd` the circle of
  `blob.go:56` (see above).
* `RepositoryAccessByAdmins` is about repositories; of namespaces nothing of the kind holds (see above). It takes the name in a
  token for its caller, as the code does: a name may have passed to another account since.
* `RepositoryAges` is about live repositories; what is deleted is not looked at.
* `ListeningIsRegistered` needs that no time-out occurs (see above).
* `CountedAsAsked` and `ListedIsPage` leave out the visibility of namespaces and pages whose
  product wraps around (see above); of repositories they say nothing, as no listing succeeds.
  Comparisons of boolean fields are not among the requests. `ListedIsPage` lets a page be short of accounts without
  a role (see above); the console's table (`UsersPage`) has none of those.
* `CallsSpec`, `WritesLandWhole` and `ChunksAppend` speak of the paths nothing is
  renamed from or to, so neither they nor their theorems of the files of upload sessions; `OneOperationPerPath` of all of them fails (`finding_rename_locks`).
* `UsersPage` closes the dialog of a row that is replaced by one of the padding, where the code keeps that of a padded first
  row open, for an account without an id; with the pages of the run the first row is never padding.
* `BusyMeansWaiting` counts the handlers a rejected promise has ended: their loader stays.
  It bounds the loader from above only; a double hide takes it away too early (see above).
* `TableAsAsked` says nothing once an older answer or a dialog's reload has come in between (see above),
  until the next request of the page's own is answered well.
* `SetupReachesLogin` says of a setup that counts as completed that it ends at the login page,
  not that the server has completed it.

## 7. Not modelled

* Manifests, tags and the upstream proxy with its Docker client and its token cache: at this
  commit a push of a manifest always fails and no upstream listener starts (section 6), so
  their state never changes.
* Input validation but that of listings, formatting of answers, logging, configuration, routes, e-mail and its templates: no state that decides anything.
  The input checks of `RegisterListener` are left out for that reason.
* Tokens as bytes, their expiry and scopes: a token is its holder's name.
* The read of the listener map without its mutex in `UnregisterListener`
  (`listeners/listeners.go:146`): a data race whose outcomes are those of reading
  before or after, which the model has, or a crash of the Go runtime, which it has not.
* The configuration in which no administrator is created at startup (`create_account: false`).
* Of the web console: toasts; the wording and the format checks of fields; role, display name, purpose
  and visibility, which only ride along; folding of the side menu; the terminal view, images
  and styles; the generated client's server-sent events, which no page uses; the filter and the search of the namespaces page,
  whose handlers do nothing; the views of a namespace and of a repository, which show sample data and are never
  rendered, and the upstreams dialog, which is never opened.
* The integration tests.

The console is taken as its production build has it: React's strict mode runs effects
once. A modal dialog covers the page beneath it. The loader covers what the mouse reaches and not what the
keyboard does, so gestures go on under it.

## 8. Plan

Done, in this order: `Accounts` and `AccessControl`; `UserAccounts`; `KeyLock`,
`FileStorage` and `ListenerManager`; `BlobUpload`; `RegistryIds`; the proofs about
`AccessControl` and `RegistryIds`; `ListQuery`; the web console from `WebApi` to `WebConsole`, and
`WebContracts`; the other modules of proofs; `StorageCalls` and the proof that `FileStorage`
implements it.

To come:

1. Storage calls that rename: `StorageCalls` with a rename and `FileStorage` with a repaired
   `LockKeysAtomically`, and `BlobUpload` built on it.
2. Listings as clients see them: several pages one after another, with writes between,
   on top of `ListQuery`.
3. `TokenCache`: `lib/cache.go` by itself with the removal that may hit a newer entry (`:52`);
   manifests, once a push of one can succeed.
