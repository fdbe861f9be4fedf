# A verification development for account-info

`account-info` is a small Go HTTP service.  Given a handle or a DID it resolves
the account's identity, reads the profile records of an allowlisted set of
collections from the account's PDS, and answers with JSON, an HTML page or the
account's avatar.  It keeps no data on disk.  All of its state is two bounded,
mutex-protected tables (an account cache and a per-source rate limiter) and the
requests in progress; what can go wrong lies in how these overlap with each
other, with the clock, and with accounts that change upstream at any time.

This directory holds TLA+ modules translated from the code, TLC configurations
that check them on small instances, and proofs, checked by TLAPS, that the
properties hold for every value of the constants.  `PROJECT.json` lists runs,
theorems and hazards, and maps every definition to the lines it stands for.
Source paths below are relative to the repository's root.

    tlc -config MCAccountCache.cfg MCAccountCache     # a run
    tlapm AccountCache_proof.tla                      # a proof module

## 1. Inventory

| component | code | state | operations |
|---|---|---|---|
| lookup rate limiter | `internal/web/rate_limit.go:23-118` | `entries` (source to theoretical arrival), `recency` list, one mutex | `allow`, `remove` |
| source-IP determination | `internal/web/rate_limit.go:119-241` | none (trusted proxy prefixes are fixed) | `limitLookups`, `requestSourceIP`, `retryAfterSeconds` |
| account cache | `internal/profile/cache.go` | `entries` (key to result and expiry), `recency` list, one mutex | `get`, `put`, `remove`, `newAccountCacheKey` |
| account lookup service | `internal/profile/service.go`, `atproto.go` | one in-flight lookup per request | `Lookup`, `lookup`, `Resolve`, `Get` |
| request assembly | `service.go`, `internal/web/account.go` | per request: selection, profiles, default, response | `selectSources`, the read loop, `selectDefaultProfile`, `newAccountResponse` |
| Accept negotiation | `internal/web/accept.go` | per request: preferences, best, ties | `negotiateAccountRepresentation` |
| avatar delivery | `service.go`, `atproto.go`, `account.go` | the cached reference, requests, copies downstream | `Service.Avatar`, `GetBlob`, `handleAvatar` |
| account and error responses | `internal/web/account.go`, `handlers.go` | none; downstream, what shared caches keep | `routes`, `handleAccount`, `classifyLookupFailure`, `writeError`, `writeIndexHTML` |
| HTML pages | `internal/web/account_html.go`, templates | none | `newAccountPage`, `writeAccountHTML` |
| configuration, selectors | `internal/profile/config.go`, `selectors.go` | fixed after start-up | parsing, validation, JSONPath |
| upstream HTTP client | `internal/profile/httpclient.go` | none | dial guard, timeouts |
| server lifecycle | `internal/web/server.go` | listener goroutine, `errCh` | start, `select`, `Shutdown` |
| command line | `cmd/account-info/main.go` | none | flags, signals |

How they interact.  A request passes `limitLookups`, which calls `allow` (shared
by all goroutines) and answers 429 if it is refused.  `handleAccount` negotiates
the representation; an image is redirected to the avatar endpoint, which passes
the limiter again.  Otherwise `Service.Lookup` asks the cache; on a miss it
waits for the identity directory and then, collection by collection, for the
PDS, holding no lock, and puts the result into the cache unless it is a context
error.  `Service.Avatar` does the same lookup and then fetches a blob by the
reference it found.  One context with `lookupTimeout` bounds either handler.

What is hard.

- *Clock readings taken before a lock.*  `allow` and `put` read the clock, then
  lock; readings reach the tables late and out of order.
- *Two structures kept in step by hand*, a map and a `container/list`, on some
  five paths in each of two files, with an `Unlock` on each path.
- *Bounds.*  A full limiter must not evict a bucket that still owes, a full cache
  must evict by order of use, expired entries included.
- *Lookups that overlap* with others of the same key (they are not coalesced),
  with writes upstream, and with the expiry of what they replace.
- *Partial failure*: the second of two records cannot be read.
- *Timeouts and cancellations*, which belong to one request and must not become
  the answer of others.
- *Loops that keep a running best* (the default profile, the representation),
  whose result must not depend on the order of their input.
- *Staleness that adds up*: cache, lookup, blob fetch and downstream copies.
- *Answers given to others*: by a shared cache, which goes by `Vary` and
  `Cache-Control`, or by the account cache, which goes by its encoded key.
- *Two requests for one thing*: an image is found by a redirect or a page first and
  by a lookup of its own afterwards, and passes the limiter each time.
- *Headers a client makes up* in front of the element that may be trusted.

What makes each component right:

- limiter: map and list agree and stay bounded; an active source is never
  evicted; sources are isolated; admissions conform to the GCRA; a Retry-After is
  kept and is bounded; the bounded table admits
  what an unbounded one would;
- gate: a request is charged to its sender, whatever its headers say, and a wait
  for the rounded Retry-After is long enough;
- cache: map and list agree and stay bounded; the list is in order of use; a live
  entry is lost only as the least recently used one of a full cache; no entry is
  served beyond the TTL of its kind; no request gets what was put for another;
- lookups: an answered account is one the lookup can have seen; a context error is
  nobody else's answer; only racing lookups replace live entries; all lookups end;
- assembly: the selection is the request's, the default is the oldest dated
  profile, every record is answered, the response is never refused;
- negotiation: the client's preference decides, whatever the order of its items,
  and the user agent only breaks ties;
- answers: a shared cache's copy fits whoever it is given to, and no failed lookup is kept;
- page: the image behind a page is the one the page is about;
- avatars: only the owner's images are shown, none older than the caches add up to;
- lifecycle: a listen error is reported unless the server was told to stop, only
  requests longer than the shutdown window are cut off, none is left running, and
  everything ends.

## 2. Modules

| module | what it is |
|---|---|
| `RecencyList` | `container/list` as the two tables use it: push, move, remove, back |
| `ListTheorems` | lemmas about these operators; induction and recursion on the numbers, joined sequences |
| `SourceBuckets` | abstract: one bucket per source for ever; no table, lock or eviction |
| `SourceIPLimiter` | the limiter; implements `SourceBuckets` under stated conditions |
| `LookupGate` | extends `SourceIPLimiter`: `limitLookups` with the requests that reach it |
| `ResultStore` | abstract: results kept per request, each until its own expiry; no bound, list or lock |
| `AccountCache` | the cache over its keys, with an arbitrary caller |
| `AccountCacheKeys` | extends `AccountCache`: `get` and `put` with requests and their encoding; implements `ResultStore` |
| `AccountLookup` | `Service.Lookup` over `AccountCache` (composed by `INSTANCE`) |
| `AccountAssembly` | one request from its parameters to its response |
| `AccountPage` | extends `AccountAssembly`: records' avatars, the HTML page and the image it leads to |
| `AcceptNegotiation` | one negotiation |
| `AccountEndpoint` | extends `AcceptNegotiation`: every route's answers and a shared HTTP cache |
| `AvatarDelivery` | cache entry, avatar requests and downstream copy over time |
| `ServerLifecycle` | `Serve` from its listener goroutine to its return |
| `MC...` | instances for TLC |
| `..._proof` | theorems: `SourceIPLimiter_proof` covers `LookupGate`, `AccountCache_proof` covers `AccountCacheKeys`, `AccountAssembly_proof` covers `AccountPage`, `AccountEndpoint_proof` covers `AcceptNegotiation` |

Each specification keeps its history variables apart from the program's state;
no guard reads them.  The "seeded faults" of a module are mutated forms of its
definitions.  They are used by nothing else: each property is shown to fail when
one of them takes the place of the original (`mutants` in `PROJECT.json`).

### SourceIPLimiter

`clock` is the monotonic clock behind `l.now`, `entries` and `recency` are the
fields of that name, `pending` holds the calls between `now := l.now()`
(rate_limit.go:68) and `l.mu.Lock()` (line 70).  `ReadClock` begins a call.  What
follows runs under the mutex and is one step, an action for each way out of
`allow`: `AdmitResident`, `Deny`, `AdmitNew`, `AdmitReclaiming` (evict the back
of the list, then insert), `RefuseNewSource`.  `interval` and `burstTolerance`
are computed as in `newSourceIPLimiter`, truncated division included.  `Tick` may
happen between any two steps, so a reading can be arbitrarily old.  `admitted`,
`since`, `retryAt` and `due` are histories.

Durations are natural numbers without a width: the largest value the code
computes is a monotonic reading plus one second, far from the end of an `int64`.

### LookupGate

A request is attributed to a source (`requestSourceIP`), which takes no time, and then
calls `allow`, so `Attribute` is `ReadClock` of the limiter.  `LetThrough` and
`TooManyRequests` are its ways out, `FailAttribution` the 500 of a request without a
source.  The peer's own address always parses, as `net/http` takes it from a TCP
connection, so that error (rate_limit.go:172-175) is left out.  `Attributed` composes all a host's requests can look like: its own
`X-Forwarded-For` lines directly, or with its address added by a trusted proxy in a
new line or at the end of the last, as a plain address, an IPv4-mapped one or one with
a port.  Addresses are hosts in one of these forms, or in a form no address can be
parsed from.  A proxy's own requests carry no client.  `sender`, `failed` and `told`
are histories.

Two facts follow from the arithmetic and are worth knowing.  As long as clock
readings arrive in order, every Retry-After is one second, since no bucket is ever
further ahead than the burst, which fits into a second.  And with `--lookup-rate-limit 1` an image request, which passes
the gate at the account endpoint and again at the avatar endpoint it is redirected to,
is always answered 429 at the second unless the client takes a second to follow; the
default of 3 leaves room (`BurstAfterWait`).  A rate of 0 means no limiter, and
`limitLookups` then returns the handler itself, which is not modelled.

### AccountCache

`get` runs wholly under the mutex, its clock reading included: `Hit`, `Expire` (an
expired entry is removed on the way), `Miss`.  `put` reads the clock first:
`Stamp` computes `expiresAt`, and `Store` (`Replace`, `Insert`, `InsertEvicting`)
happens some time later.  A key is an atom.  `cloneAccount` has no counterpart since values do not alias.
`newer` is a history: which key was used after which, and so is the field `stampedAt` of
an entry, the clock reading of its `put`, by which `ServedWithinLifetime` judges a
`Hit`; the code compares with `expiresAt`.

### AccountCacheKeys

`get` and `put` are called with an identifier and a list of names, any strings a client
sends, and `newAccountCacheKey` makes the key: each name after its length and a colon.
Names are sequences of characters here, and `Digit` says in which base `Itoa` writes
(`Spelled` is what clients may ask for, `Requests` what is asked of the cache).
`asking` has, beside each call of `put`, the request it was made for.  What a `get` of a
request would find is what the refinement into `ResultStore` calls kept for it, so
two requests with one key would be caught answering for each other.

### AccountLookup

Each worker executes one lookup at a time; `call[w]` is its program counter with
its local variables.  `AskCached` and `AskUpstream` are the outcomes of
`cache.get`.  `Resolve...` are the outcomes of `resolver.Resolve`,
`RefuseCollection` is `selectSources` failing (only after the identity was
resolved, as in the code), `ReadFound`, `ReadAbsent`, `ReadFailed` the outcomes
of `records.Get` for the next source: only the protocol's `RecordNotFound` counts
as absent.  A failed read is any other error, a PDS URL that `Get` refuses included,
and the sentinels of service.go:19-34 that no property tells apart are one
`"failed"`.  `Interrupted` is any error that is a context error.
`AnswerUncached`, `PutStamp`, `PutStore` follow `cacheable`; `Return` leaves
`Lookup`.  `repo` is what the PDS holds, changed by `Publish` and `Delete` at any
time.  External to the repository: the identity directory and the PDS.
`held[w]` records the values each collection has had since the lookup began,
`witness` keeps them with the cache entry, `crossed` the lookups during which
somebody else stored their key.

### AccountAssembly

The data path of one request, an iteration of each loop a step, with the early
exits of each: `selectSources` (`SkipRepeated`, `Select`, `RefuseUnlisted`), the
read loop of `lookup`, `selectDefaultProfile` (`OnlyProfile`, `PassUndated`,
`Prefer`, `PassYounger`, `ChooseDefault`), `newAccountResponse` (`AddProfile`,
`Answer`).  It spans two packages on purpose: `newAccountResponse` answers 500
for a repeated collection, and only `selectSources`, in the other package, keeps
it from getting one.  Names are numbers in their string order, `0` the empty name.
What became of a record is judged in `AccountPage`, which knows the records.
Concurrency and the cache are left to `AccountLookup`, for which the records are
version numbers; here they are creation dates, present or not.

### AccountPage

What `AccountAssembly` leaves out: the account's records, each with what the avatar selector
finds in it beside its date (`Held`).  `extractJSONProfile` keeps it if it is a blob of a supported type,
`applySummary` takes the default profile's.  `ReadRecord` and `Default` are the steps
of `AccountAssembly` with this added; `representation` says who consumes the
account: JSON, the page (`WritePage`), or the image request that follows a page
(`RequestImage`, `ServeImage`), which assembles the account once more without any
collection parameters, as `Service.Avatar` does.  Records do not change between the
two requests and the cache is left out: what changes and caches can do to an
avatar is `AvatarDelivery`'s subject.  `newAccountPage` answers 500 for a type it has
no file name for; that this cannot happen is part of `ResponseNeverRefused`, and
rests on three lists of types and names agreeing that the code keeps in three places
(`Supported`, `FileOf`, `KnownFiles`).  `EveryRecordAnswered` compares the answer with
the account's own records, so that one that the read loop loses on its way, for want
of a summary say, is missed.

`PreviewMatchesAvatar` is about pages made from every collection.  For a page
restricted by `?collection=` it does not hold: neither the page's avatar URL nor
the redirect of an image request keeps the parameter, so the image may be another
profile's.  No text in the repository promises otherwise.

### AcceptNegotiation

Two loops: the items of the header are merged into a preference per
representation (`SkipItem`, `Merge`), then the representations are ranked
(`RankBetter`, `RankTied`, `RankOut`), and `Choose` breaks a tie.  Any concrete
image type is `"image/png"`, as the code treats all alike.  The tokenizer
`splitAcceptValues`, `q` parsing and the matching of user agents are abstracted to
what they yield: items with a rank or `Invalid`, and the set of lists (programmatic,
browser, link preview) that an agent matches, more than one at a time.

### AccountEndpoint

An action for each route and each way out of its handler, with the status and the
headers that caches go by; the account endpoint runs `AcceptNegotiation` first.  The
outcome of a lookup is chosen among the sentinels `classifyLookupFailure` tells apart.
`Storable` and `Answers` are what HTTP allows a shared cache: it keeps what is
`public`, and heuristically what carries no `Cache-Control` and has a status that is
cacheable by default.  After an answer a second request for the same path may come
(`Repeat`), from any client: `kept` is the first one's answer, if it may be kept,
and `chosen` what the service would have chosen for the second.

`MuxAnswers` are the mux's own answers to what no route matches.  `HandleAvatar` has the
answers of `http.ServeContent` to ranges and preconditions.  One of them is worth
knowing: `Cache-Control: public, max-age=300` is set before `ServeContent` is called
(account.go:170), so a 412 to an `If-Match` that does not match goes out with it and
may be kept by a shared cache.  (A 416 does not: `ServeContent` removes the header.)
`LookupFailuresNotKept` therefore says what does hold: no failure to look an account up
is kept.  No text in the repository says otherwise of a 412.

### AvatarDelivery

`cached` is the account's entry in the cache, `pending` the avatar requests
(lookup, `Put`, `Fetch`, delivery), `copy` what a browser or CDN keeps because
of `max-age=300`, `lastCurrent` a history: when each image was last the account's
avatar.  `Publish` is the owner.  The PDS may answer `Fetch` with any bytes;
`Verified` is GetBlob's comparison of size, detected type and CID with the
reference.  `due` is set once, at the beginning: one `context.WithTimeout` covers
lookup and fetch (account.go:150).  `Tick` does not pass a deadline, as a request
that waits is interrupted at it; steps that wait for nothing take no time.
This abstraction is what the age bounds rest on, and it is why they count
`LookupTimeout` for a request and no scheduling delays.
The put is one step here; `AccountCache` shows what late puts may do, and
`ServedWithinLifetime` that they do not prolong an entry.

### ServerLifecycle

`serve` and `listener` are the program counters of `Serve` (after its
configuration) and of the goroutine that runs `ListenAndServe`; `errCh` is the
channel between them, of capacity one; `canceled` is the context.  `Receive` and
`BeginShutdown` are the two cases of the `select`, both enabled when both are ready.
`Drained` and `ForceClose` end `Shutdown`, the former with the error of closing the
listener if that failed; the latter closes what is still open,
which cancels the contexts of running requests (`"cut"`).  A connection is `"new"`
until its first request and `"idle"` between two: a shutdown closes the idle ones at
once and leaves the new ones, which may still ask.  A listener may fail on opening or
later (`ListenFails`).  Time is kept as what is left of each duration that runs, so
the state is finite without a bound on the clock.  `net/http` is external: it is
taken at the word of its documentation (that a listener does not open, or ends, once
`Shutdown` has been called is part of that word), and the moment between accepting a
connection and registering it is not modelled.  After `Serve`, `main` ends the
process, which ends whatever still runs.

## 3. Runs

| run | specification | shows |
|---|---|---|
| `limiter_concurrent` | `SourceIPLimiter` | `TableCoherent`, `ActiveNeverEvicted`, `BucketsIsolated`, `ConformingWhileResident`, `LockoutBounded`, `RetryAfterKept` with two calls racing for the mutex |
| `limiter_inorder` | `LookupGate` | one call at a time, with everything a client can put into its headers: `SourceIsSender`; the limiter implements `SourceBuckets`; `ConformingAlways`; `BurstAfterWait` |
| `limiter_reclaim` | `SourceIPLimiter` | violation, see Findings |
| `limiter_stale` | `SourceIPLimiter` | violation, see Findings |
| `cache` | `AccountCacheKeys` | `CacheCoherent`, `RecencyIsOrderOfUse`, `ServedWithinLifetime`, `EvictsLeastRecentlyUsed` for any caller; `KeysDistinguish`; the cache implements `ResultStore` |
| `lookup_race` | `AccountLookup` | two lookups of one key, two upstream writes, expiries: `AnswersAreComplete`, `InterruptionsStayPrivate`, `CachedAnswersFresh`, `ReplacedOnlyByCrossingLookup` |
| `lookup_keys` | `AccountLookup` | two keys of one account, one of them refused, compete for one entry: `AnswersAreComplete`, `EveryLookupReturns` |
| `assembly` | `AccountPage` | `SelectionExact`, `DefaultIsOldest`, `ResponseNeverRefused`, `EveryRecordAnswered`, `PreviewMatchesAvatar` |
| `accept` | `AccountEndpoint` | `PreferenceOrderFree`, `ChoiceAuthoritative`, `AgentBreaksTies`, `SharedCopyFits`, `LookupFailuresNotKept` |
| `avatar` | `AvatarDelivery` | `OnlyOwnersAvatars`, `RefsAreRecent`, `AvatarFresh` |
| `lifecycle_stop` | `ServerLifecycle` | `ResultHonest`, `ShutdownLeavesNothing`, `CutOnlyIfLonger`, `StopsCompletely` |
| `lifecycle_leak` | `ServerLifecycle` | violation, see Findings |

The type invariants are proved, not run.

Two properties judge the age of what is served, and differ in reach.
`ServedWithinLifetime` is about every `get` of any caller, but as an action property of
the cache it sees only hits that change the cache: a hit of the entry already in front
is a stuttering step there.  `CachedAnswersFresh` is about every answer a lookup takes
from the cache, those included.

`ImplementsBuckets` compares what is admitted.  A refusal changes no bucket and is a
stuttering step of `SourceBuckets`; that a full table refuses new sources which a bucket
of their own would admit is the price of its bound, and not compared.

Bounds, and why they are enough.

- *Limiter.*  Three sources for two entries: the least table in which an entry is
  evicted while another stays.  `Second = 5`, `Rate = 2`: the division truncates
  and the burst is more than one.  Two workers are enough for a stale reading.
  `MaxTime` covers a bucket filling up and draining.  Sources and workers are
  interchangeable, hence the symmetry.
- *Gate.*  One trusted proxy, and every header of one line of two elements or two
  lines of one, in all forms: first and last element, first and last line differ.  A
  second of three ticks is no multiple of the interval, so that rounding matters.
- *Cache.*  Three requests for two entries, each taken for another if the lengths or
  the colons were left out of the keys; one account and one error, which the code
  distinguishes only by their TTL; two puts in flight; `TTL = 2`, `ErrorTTL = 1`,
  so that an error expires while an account lives.  `KeysDistinguish` compares all
  lists of up to two names of two characters and three names of one, the
  characters being digits and colons, and the base two, so that two characters make
  a length of two digits.
- *Lookups.*  Two workers (a race needs no third), two collections (a read can fail
  after one succeeded), two writes (a stale answer differs from a newer one).  `lookup_keys`
  has no symmetry, which TLC does not support for liveness, and a clock that stands
  still; a supported and an unsupported request, so that every way out is taken
  and an account answered to the wrong key is noticed.
- *Assembly.*  Three collections whose configured order is not that of their names;
  requests of up to three parameters, with a repetition, an unlisted name or the
  empty name in any place; two dates, so that there are ties, and undated records;
  avatars of a supported type, of another type, and none.
- *Accept.*  Headers of three items over all ranges the code tells apart: a narrow
  range, a wide one and a contradiction of either; three ranks of quality; clients of
  each kind and one that is of two.  Every such header is negotiated, those of up to
  two items (`MaxServed`) are also answered, and asked again by another client.
- *Avatar.*  Two images, one misdeclared by the profile record; two requests, one to
  store late what the other serves.  `MaxClock = 8` is beyond the sum of the
  durations (`2 + 2 + 2`), so that a bound that could be exceeded would be.

- *Lifecycle.*  Two connections, one to be answered while the other is cut off; a
  window shorter than `lookupTimeout`, as in the code (10 s and 25 s).

`MaxTime`, `MaxVersion`, `MaxClock`, `MaxItems`, `MaxServed` and `MaxRequested` are the only
bounds that the code does not have.  Deadlock is checked where the system never
stops (limiter, cache, lookups); a single request ends, so does the server, and the
avatar run stops at `MaxClock`.

Fairness.  `AccountLookup` assumes, for each goroutine, weak fairness of its local
steps (the Go scheduler runs what can run; nothing blocks for ever on the mutex,
which is held over a few statements) and of `Interrupted`, which
`context.WithTimeout(..., lookupTimeout)` brings about in a wait (account.go:81,
150).  Nothing is assumed of the upstream or of the clock.
`ServerLifecycle` assumes weak fairness of the steps of both goroutines, of handlers
whose context is done, and of time; not of clients, upstreams, signals or failures.
`Listen \/ ListenFails` is one such step: opening the listener ends one way or the
other.

## 4. Findings

- **A replenished entry does not always make room** (`limiter_reclaim`).  The test
  says "fully replenished entries should be reclaimable"
  (`internal/web/rate_limit_test.go:69`), but `allow` looks at the least recently
  *used* entry only (rate_limit.go:74).  The list is in order of
  use, not of replenishment.  In TLC's run a source `a` is admitted twice at one instant
  and still owes one interval when `b`, which was admitted once, later, on a clock
  reading from that same instant, owes nothing any more.  The table of two is full, `a`
  is at its back, and a third source is refused for the sake of `a` although `b` could
  make room.  No call is denied on the way.
- **An old clock reading can exceed the burst** (`limiter_stale`).  `allow` reads the
  clock before it takes the mutex (rate_limit.go:68-70).  If a source's
  replenished entry is evicted by a call with a newer reading, and a call of that
  source with an older reading then recreates it, the bucket starts in the past.
  The comment promises the burst capacity to be the configured rate
  (rate_limit.go:23-24).  With two readings in order it holds
  (`InOrderAdmissionsConform`), and for as long as a source stays in the table it
  holds regardless (`ResidentSourcesConform`).

- **A failed listener leaves requests running** (`lifecycle_leak`).  The comment at
  server.go:84-85 says connections are force-closed "so Serve never leaks handlers".
  That is so after a shutdown (`ShutdownsLeaveNothing`), but when the listener fails
  `Serve` returns without closing anything (server.go:72-76).  It matters to a
  caller of `Serve` other than `main`, which ends the process.

## 5. Proofs

The theorems hold for all values of the constants that satisfy the assumptions
named in the modules: `LimiterAssumption` (the guards of `newSourceIPLimiter`),
`GateAssumption` (a trusted proxy is no client, headers are lists of lines),
`CacheAssumption` (`CacheConfig.validate`), `DigitAssumption` (two digits or more, all
different, the colon none of them), `KeysAssumption` (requests are lists of names over
any characters), `LookupAssumption`, `CacheConfigured` (the lookups' cache is configured
as `CacheAssumption` says),
`AssemblyAssumption` (`NewService`: names are distinct and not empty),
`NegotiationAssumption` (qualities are ranks), `DeliveryAssumption` and
`LifecycleAssumption` (durations are positive).  TLC evaluates them in the runs.

*ListTheorems.*  Pushing, unlinking and moving keep a list that enlists a set,
each element once (`Enlists`), and keep it in the order of a relation (`Ordered`).
The library's induction theorems take a predicate, which the provers cannot
instantiate; its theorem that a set of numbers with no least element is empty takes a
set.  `Induction`, `StrongInduction` and `Recursion` (a function defined by
recursion on the numbers satisfies its definition) are derived from that, and from them
what `FlattenSeq` makes of a list of sequences (`FlattenDef`).

*SourceIPLimiter_proof.*  `Inv` is `TypeOK`, `TableCoherent` and a finite table: the
last is needed since `Full` counts and the back of the list must exist when the
table is full.  From it follow `TableStaysCoherent`, `ActiveSourcesStay`,
`SourcesAreIsolated`.  Conformance (`ResidentSourcesConform`) needs to know what
an entry has been charged for: `ConformInv` says that the admissions since the
source entered the table are spaced as they should be (`Spaced`) and that the
theoretical arrival is at least one interval per admission after each of them
(`Paid`), so the next one can be compared with all before it.  `LockoutIsBounded`
is inductive beside `Inv`: a bucket is charged only when it admits, which leaves
it at most `Rate` intervals ahead of a reading that is not ahead of the clock.  `RetryAfterIsKept` ties a promise to the
bucket it was computed from (`PromiseInv`).  For the refinement, `OrderInv` says
that with one call at a time `due` and `entries` agree on the sources in the
table, and that `due` of any other lies neither ahead of the clock nor of the
reading of the call in progress, which is why an eviction forgets nothing;
`LimiterImplementsBuckets` and `InOrderAdmissionsConform` state that condition as
a hypothesis (a single worker).

For `LookupGate`, `GateUsesLimiter` maps each of its steps to one of the limiter or a
stutter, which brings all of the above behind `limitLookups`.
`CallsAreChargedToTheirSender` first shows what `requestSourceIP` yields for headers
of any length: the element a trusted proxy added is the last of the last line, whoever
wrote the rest.  `WaitRestoresBurst` needs `WaitInv`: since a source was told to
return at some instant, its bucket has moved past that instant by one interval for each
admission, so it cannot be denied before `Rate` of them.

*AccountCache_proof.*  The invariant adds to the types and `CacheCoherent` that the
list is ordered by `newer`, and that whatever is about to be stored expires soon
enough: without the second, a late `Store` would be served for too long (`LifetimesHold`; that
`expiresAt` is at most the TTL of its kind after `stampedAt` is `EntriesStamped`).
`RequestsUseCache` brings the theorems under `get` and `put` as they are called with
requests.  `KeysStayDistinct` is an induction over lists of names of any length.
`Itoa` is injective and yields digits only, so if one encoded name begins with another,
both have their first colon in the same place, the same digits before it, hence the same
length, hence the same characters.  So of two joined lists with the same characters
each begins with the same name, and what follows that name is equal too.
`CacheImplementsStore` rests on it: each step maps to one of `ResultStore`, what was
evicted or expired being forgotten, and nothing that is left is another request's.

*AccountLookup_proof.*  `Inv` follows a lookup: while it reads, every selected
collection has been found with a value it held, was seen empty, or is still to
be read (`Progress`), and its history includes the present (`Covers`); the cache
and the puts in flight hold only results with such a history.  From it,
`AnswersStayComplete` and `InterruptionsAreNotCached`.  `LookupsUseCache` is
the refinement into `AccountCache`, step by step; it holds by the way the module is
composed and says nothing of the code by itself, but carries the cache's invariant
over.  `CachedAnswersStayFresh` is proved from that invariant.  `OnlyCrossingLookupsReplace`
needs a second invariant (`Crossed`): the key of a lookup in flight is not in the
table unless another lookup has stored it meanwhile.  The module instantiates
`AccountCache_proof` with the lookups as the cache's callers; with `LookupsUseCache`
that yields `CacheStaysSoundUnderLookups` and `LookupsEvictLeastRecent`.
`LookupsOnlyAdvance` counts what a lookup has ahead of it (`Remaining`): the phases, and
one step per collection still to be read.  Nothing but its own steps changes the
count, and each of them lowers it.

*AccountAssembly_proof.*  The invariant says of each loop what it has done for
the indices it has passed (`SelectedFirst`, `ReadFirst`, `ChosenFirst`,
`AddedFirst`), and carries what one loop guarantees to the next: `selected` is
injective, so the profiles have distinct collections, so the response refuses
none.

For `AccountPage`, `PageInv` keeps that invariant through both requests
(`PagesKeepAssembly`) and says what the loops make of the records: the summaries are
those of the collections read, none left out (`Summarised`, `ReadThrough`), from which
`EveryRecordIsAnswered` follows, and the avatar of the default is what the account and the set of collections alone decide
(`RightAvatar`).  That function has one value (`OneAvatar`, from the strict order of
dates and names), and records do not change once read, so the image request, which
reads every collection in configured order, finds what a page made from the same set in
another order has named (`PreviewsMatchAvatars`).

`AssemblyOnlyAdvances` and `RequestsOnlyAdvance` bound what is left of a request by the
loops to come and the index of the running one.  That a loop is not handed more than
its share needs `Lengths`: no more sources than parameters, no more profiles than
sources.

*AccountEndpoint_proof.*  Each loop of the negotiation has its invariant: after
`n` items every preference is the highest ranking of what they say (`Merged`), after
`n` representations the candidates are those that nothing ranked so far is above
(`Tops`).  So when it ends, the choice is a function of the header and the user
agent (`Decision`), of which the three properties of the choice are consequences.  For
`SharedCopiesFit` the invariant adds that whatever may be kept of the account endpoint
was chosen by that function and varies by both its arguments, and for
`NoLookupFailureIsKept` that a failure which may be kept is one of the two tolerated.

*AvatarDelivery_proof.*  The invariant gives each place an image rests an age: what a
request has read, what the cache holds and until when, what a request fetches,
what the copy shows (`Within`, `Less`).  Each age is bounded by the durations
that led there, whatever they are and however many requests overlap.

*ServerLifecycle_proof.*  The invariant follows the listener's error into the channel:
`ErrServerClosed` exists only once `Serve` has stopped waiting, so its branch of the
`select` never sees one (the `errors.Is` at server.go:73 guards a case that does not
arise).  During a drain what a request needed is what it has left plus the part of
the window that has passed, which at its end gives `OnlyLongerRequestsAreCut`.
`ListenerNeverWaits` is why the goroutine cannot leak: the channel is empty when its one
error is sent.  `ShutdownOnlyAdvances` gives the listener, `Serve` and each connection
a count of steps and ticks they can have ahead of them.  Those of the first two only fall; a
connection's does from the start of the shutdown, when none can be opened any more.

Model-checked only: `EveryLookupReturns`, `StopsCompletely` and the three violations.  Liveness is out of the prover's reach, since fairness is about what is
enabled.  What is proved of it is the half that is safety, for any number of workers,
collections and connections: the `...OnlyAdvance` theorems say that no step repeats,
undoes or postpones another, so that nothing can go on for ever.  That nothing stops
before its end (some step of it always stays possible, and is taken under the fairness
stated) is what the runs show on their instances.

## 6. Not modelled

- *Configuration* (`config.go`, `main.go`, the first part of `Serve`): parsed and
  validated once at start-up, before anything runs concurrently.  What it guarantees is
  what the modules assume.
- *Text*: page titles, descriptions, app links, error messages, logging, and the other
  response headers (ETag, Content-Security-Policy): formatting without state.
- *Parsers*: `splitAcceptValues`, JSONPath evaluation, media types, addresses, DIDs and
  handles; the models start from what they yield.
- *cloneAccount*: results are values here, so that aliasing cannot be expressed.
- *HTTP client*: network I/O; a lookup sees an upstream that answers anything, fails,
  or does not answer.  A client timeout counts as a context error, hence as
  `Interrupted`.
- *Undefined behaviour*: every access to shared state is under a mutex, so there are
  no data races to model.

## 7. Plan

Done, in this order: the limiter with its abstraction; the cache; lookups over the
cache; request assembly; negotiation; avatars; lifecycle; the gate in front of the
limiter; the handlers' answers with a shared cache; the page and its image; the
abstract store and the encoding of keys; then, as proofs only, that keys are distinct,
the cache's theorems under lookups, and the measures that bound lookups, requests and
shutdowns.  Next:

1. `AvatarDelivery` over `ResultStore` in place of its own cache entry, so that
   `CacheImplementsStore` carries its age bounds to the real cache.
2. `AccountLookup` over `AccountCacheKeys`, with requests in place of keys.
3. `Configuration`: that what `parseProfileSources` accepts satisfies
   `AssemblyAssumption`.
4. `splitAcceptValues` as an automaton with its three flags: items of a header do not
   depend on how it is spread over lines.
