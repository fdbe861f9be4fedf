--------------------------- MODULE AccountLookup ---------------------------
(***************************************************************************)
(* Service.Lookup of internal/profile/service.go over the account cache:   *)
(* goroutines look up accounts whose identity and records live upstream    *)
(* (identity directory, PLC, PDS) and change there at any time.            *)
(*                                                                         *)
(* A lookup that misses the cache resolves the identity, reads the record  *)
(* of each selected collection in turn, and puts its result into the cache *)
(* unless it is a context error.  Nothing is locked meanwhile and lookups  *)
(* of one key are not coalesced: every upstream wait interleaves with the  *)
(* other lookups, with upstream changes and with the clock.                *)
(*                                                                         *)
(* The requests are those for one account, each with its own collection    *)
(* parameters.  Its identity may resolve to a PDS, to none, or not at all, *)
(* and any upstream call may fail, at any time.  A record that is read is  *)
(* the one the repository holds at that time: a version number, 0 for no   *)
(* record.                                                                 *)
(***************************************************************************)
EXTENDS Integers, Sequences, FiniteSets

CONSTANTS
  Requests,     \* cache keys: an identifier and its collection parameters
  Supported,    \* the requests whose collections are all allowlisted
  Selection,    \* request -> what selectSources returns for it
  Collections,  \* allowlisted collections (Service.sources)
  Workers,      \* goroutines serving requests
  TTL, ErrorTTL, MaxEntries,  \* CacheConfig
  MaxTime,      \* bound on the clock
  MaxVersion    \* bound on the number of upstream writes

ASSUME LookupAssumption ==
  /\ Supported \subseteq Requests
  /\ Selection \in [Requests -> Seq(Collections)]
  /\ MaxVersion \in Nat

(* The kinds of error lookup returns.  "failed" stands for all that have   *)
(* no name of their own here: ErrInvalidIdentifier, a resolution or a read *)
(* that fails for another reason.  "interrupted" is one that               *)
(* errors.Is(context.Canceled) or errors.Is(context.DeadlineExceeded):     *)
(* the request's own context, or a network timeout further down.           *)
CachedErrors == {"identityNotFound", "noPDS", "unsupported", "failed"}

Success(profiles) == [error |-> "none", profiles |-> profiles]

Failure(error) == [error |-> error, profiles |-> [c \in {} |-> 0]]

Snapshots == UNION {[S -> 1..MaxVersion] : S \in SUBSET Collections}

Accounts == {Success(profiles) : profiles \in Snapshots}

Errors == {Failure(error) : error \in CachedErrors \cup {"interrupted"}}

VARIABLES
  clock, entries, recency, putting, newer,  \* the account cache
  repo,       \* upstream: collection -> version of its record, 0 for none
  version,    \* upstream: number of writes so far
  call,       \* the lookup each worker is executing
  held,       \* history: what each collection held since the lookup began
  witness,    \* history: resident key -> held of the lookup that stored it
  crossed     \* history: lookups during which their key was stored by another

Cache == INSTANCE AccountCache WITH Keys <- Requests

(* CacheConfig is validated before the service is built. *)
ASSUME CacheConfigured == Cache!CacheAssumption

cacheVars == <<clock, entries, recency, putting, newer>>
upstream == <<repo, version>>
history == <<held, witness, crossed>>
vars == <<cacheVars, upstream, call, history>>

NoRecords == [c \in {} |-> 0]

Idle == [phase |-> "idle"]

InFlight(w) == call[w].phase \in {"resolving", "reading", "finishing", "storing"}

----------------------------------------------------------------------------
(* Seeded faults. *)

(* A failed read is taken for an absent record. *)
ReadFailedSkipping(w) ==
  /\ call[w].phase = "reading"
  /\ call[w].rest # <<>>
  /\ call' = [call EXCEPT ![w].rest = Tail(@)]
  /\ UNCHANGED <<cacheVars, upstream, history>>

(* Context errors are cached like any other. *)
CacheableAlways(result) == TRUE

(* A live entry does not keep a lookup from going upstream. *)
AskAlwaysUpstream(w, key) ==
  /\ call[w].phase = "idle"
  /\ call' = [call EXCEPT ![w] = [phase |-> "resolving", key |-> key]]
  /\ held' = [held EXCEPT ![w] = [c \in Collections |-> {repo[c]}]]
  /\ UNCHANGED <<cacheVars, upstream, witness, crossed>>

(* The identity resolution does not heed the context. *)
InterruptedReading(w) ==
  /\ call[w].phase = "reading"
  /\ call[w].rest # <<>>
  /\ call' = [call EXCEPT ![w] = [phase |-> "finishing", key |-> call[w].key,
                                  outcome |-> Failure("interrupted")]]
  /\ UNCHANGED <<cacheVars, upstream, history>>

----------------------------------------------------------------------------
Init ==
  /\ Cache!CacheInit
  /\ repo = [c \in Collections |-> 0]
  /\ version = 0
  /\ call = [w \in Workers |-> Idle]
  /\ held = [w \in Workers |-> NoRecords]
  /\ witness = NoRecords
  /\ crossed = {}

(* Upstream *)

(* Whoever is looking the account up may or may not see the new value. *)
Seen(c, value) ==
  held' = [w \in Workers |-> IF InFlight(w)
                             THEN [held[w] EXCEPT ![c] = @ \cup {value}]
                             ELSE held[w]]

Publish(c) ==
  /\ version < MaxVersion
  /\ version' = version + 1
  /\ repo' = [repo EXCEPT ![c] = version + 1]
  /\ Seen(c, version + 1)
  /\ UNCHANGED <<cacheVars, call, witness, crossed>>

Delete(c) ==
  /\ repo[c] # 0
  /\ repo' = [repo EXCEPT ![c] = 0]
  /\ Seen(c, 0)
  /\ UNCHANGED <<cacheVars, version, call, witness, crossed>>

PassTime ==
  /\ Cache!Tick
  /\ UNCHANGED <<upstream, call, history>>

----------------------------------------------------------------------------
(* Lookup: the cache *)

Cacheable(result) == result.error # "interrupted"

AskCached(w, key) ==
  /\ call[w].phase = "idle"
  /\ Cache!Hit(key)
  /\ call' = [call EXCEPT ![w] = [phase |-> "answered", key |-> key,
                                  outcome |-> entries[key].result]]
  /\ held' = [held EXCEPT ![w] = witness[key]]
  /\ UNCHANGED <<upstream, witness, crossed>>

AskUpstream(w, key) ==
  /\ call[w].phase = "idle"
  /\ Cache!Expire(key) \/ Cache!Miss(key)
  /\ call' = [call EXCEPT ![w] = [phase |-> "resolving", key |-> key]]
  /\ held' = [held EXCEPT ![w] = [c \in Collections |-> {repo[c]}]]
  /\ witness' = [k \in DOMAIN entries' |-> witness[k]]
  /\ UNCHANGED <<upstream, crossed>>

----------------------------------------------------------------------------
(* lookup: upstream calls *)

Finish(w, outcome) ==
  /\ call' = [call EXCEPT ![w] = [phase |-> "finishing", key |-> call[w].key,
                                  outcome |-> outcome]]
  /\ UNCHANGED <<cacheVars, upstream, history>>

Resolve(w) ==
  /\ call[w].phase = "resolving"
  /\ call[w].key \in Supported
  /\ call' = [call EXCEPT ![w] = [phase |-> "reading", key |-> call[w].key,
                                  found |-> NoRecords,
                                  rest |-> Selection[call[w].key]]]
  /\ UNCHANGED <<cacheVars, upstream, history>>

(* selectSources refuses a collection only after the identity is resolved. *)
RefuseCollection(w) ==
  /\ call[w].phase = "resolving"
  /\ call[w].key \notin Supported
  /\ Finish(w, Failure("unsupported"))

ResolveWithoutPDS(w) ==
  /\ call[w].phase = "resolving"
  /\ Finish(w, Failure("noPDS"))

ResolveUnknown(w) ==
  /\ call[w].phase = "resolving"
  /\ Finish(w, Failure("identityNotFound"))

ResolveFailed(w) ==
  /\ call[w].phase = "resolving"
  /\ Finish(w, Failure("failed"))

Reading(w) ==
  /\ call[w].phase = "reading"
  /\ call[w].rest # <<>>

ReadFound(w) ==
  LET c == Head(call[w].rest)
  IN  /\ Reading(w)
      /\ repo[c] # 0
      /\ call' = [call EXCEPT ![w].found = Cache!Bind(@, c, repo[c]),
                              ![w].rest = Tail(@)]
      /\ UNCHANGED <<cacheVars, upstream, history>>

(* RecordNotFound: the account simply has no such profile. *)
ReadAbsent(w) ==
  /\ Reading(w)
  /\ repo[Head(call[w].rest)] = 0
  /\ call' = [call EXCEPT ![w].rest = Tail(@)]
  /\ UNCHANGED <<cacheVars, upstream, history>>

(* Any other error of Get (its own ErrNoPDS among them, which is cached    *)
(* like the rest), a mismatched record URI, or an application link that    *)
(* cannot be built, ends the whole lookup. *)
ReadFailed(w) ==
  /\ Reading(w)
  /\ Finish(w, Failure("failed"))

ReadAll(w) ==
  /\ call[w].phase = "reading"
  /\ call[w].rest = <<>>
  /\ Finish(w, Success(call[w].found))

(* lookupTimeout, a client that went away, or a network timeout. *)
Interrupted(w) ==
  /\ call[w].phase = "resolving" \/ Reading(w)
  /\ Finish(w, Failure("interrupted"))

----------------------------------------------------------------------------
(* Lookup: the result *)

Answered(w) ==
  call' = [call EXCEPT ![w] = [phase |-> "answered", key |-> call[w].key,
                               outcome |-> call[w].outcome]]

AnswerUncached(w) ==
  /\ call[w].phase = "finishing"
  /\ ~Cacheable(call[w].outcome)
  /\ Answered(w)
  /\ UNCHANGED <<cacheVars, upstream, history>>

PutStamp(w) ==
  /\ call[w].phase = "finishing"
  /\ Cacheable(call[w].outcome)
  /\ Cache!Stamp(w, call[w].key, call[w].outcome)
  /\ call' = [call EXCEPT ![w].phase = "storing"]
  /\ UNCHANGED <<upstream, history>>

PutStore(w) ==
  LET key == call[w].key
  IN  /\ call[w].phase = "storing"
      /\ Cache!Store(w)
      /\ Answered(w)
      /\ witness' = [k \in DOMAIN entries' |-> IF k = key THEN held[w] ELSE witness[k]]
      /\ crossed' = (crossed \cup {v \in Workers : InFlight(v) /\ call[v].key = key}) \ {w}
      /\ UNCHANGED <<upstream, held>>

Return(w) ==
  /\ call[w].phase = "answered"
  /\ call' = [call EXCEPT ![w] = Idle]
  /\ held' = [held EXCEPT ![w] = NoRecords]
  /\ crossed' = crossed \ {w}
  /\ UNCHANGED <<cacheVars, upstream, witness>>

----------------------------------------------------------------------------
Upstream(w) ==
  \/ Resolve(w)
  \/ RefuseCollection(w)
  \/ ResolveWithoutPDS(w)
  \/ ResolveUnknown(w)
  \/ ResolveFailed(w)
  \/ ReadFound(w)
  \/ ReadAbsent(w)
  \/ ReadFailed(w)

Local(w) ==
  \/ ReadAll(w)
  \/ AnswerUncached(w)
  \/ PutStamp(w)
  \/ PutStore(w)
  \/ Return(w)

Next ==
  \/ \E c \in Collections : Publish(c) \/ Delete(c)
  \/ PassTime
  \/ \E w \in Workers, key \in Requests : AskCached(w, key) \/ AskUpstream(w, key)
  \/ \E w \in Workers : Upstream(w) \/ Interrupted(w) \/ Local(w)

Spec == Init /\ [][Next]_vars

(* The scheduler runs a goroutine that can run, and lookupTimeout ends     *)
(* every upstream wait.  Nothing is assumed of the upstream or the clock.  *)
Fairness == \A w \in Workers : WF_vars(Local(w)) /\ WF_vars(Interrupted(w))

FairSpec == Spec /\ Fairness

----------------------------------------------------------------------------
(* Properties *)

Value(outcome, c) == IF c \in DOMAIN outcome.profiles THEN outcome.profiles[c] ELSE 0

SelectedSet(key) == {Selection[key][i] : i \in 1..Len(Selection[key])}

TypeOK ==
  /\ repo \in [Collections -> 0..MaxVersion]
  /\ version \in 0..MaxVersion
  /\ DOMAIN call = Workers
  /\ \A w \in Workers :
       \/ call[w] = Idle
       \/ call[w] \in [phase : {"resolving"}, key : Requests]
       \/ call[w] \in [phase : {"reading"}, key : Requests, found : Snapshots,
                       rest : Seq(Collections)]
       \/ call[w] \in [phase : {"finishing", "storing", "answered"},
                       key : Requests, outcome : Accounts \cup Errors]
  /\ DOMAIN putting = {w \in Workers : call[w].phase = "storing"}
  /\ \A w \in DOMAIN putting : putting[w].key = call[w].key
                            /\ putting[w].entry.result = call[w].outcome

(* An account answered to a request, from upstream or from the cache, is   *)
(* one the lookup that fetched it can have seen: every record in it was    *)
(* the current one, and every selected collection missing from it really   *)
(* had no record, at some time during that lookup.  A source that could    *)
(* not be read never reads as "no profile", and no request is answered     *)
(* with the collections of another.                                        *)
AnswersAreComplete ==
  \A w \in Workers :
    call[w].phase = "answered" /\ call[w].outcome.error = "none" =>
      /\ DOMAIN call[w].outcome.profiles \subseteq SelectedSet(call[w].key)
      /\ \A c \in SelectedSet(call[w].key) : Value(call[w].outcome, c) \in held[w][c]

(* One request's cancellation or timeout is never another's answer: it is  *)
(* neither cached nor on its way into the cache                            *)
(* (TestServiceLookupDoesNotCacheContextErrors).                           *)
InterruptionsStayPrivate ==
  /\ \A key \in DOMAIN entries : entries[key].result.error # "interrupted"
  /\ \A w \in DOMAIN putting : putting[w].entry.result.error # "interrupted"

(* A live entry is replaced only by a lookup that was already under way    *)
(* when it was stored: an error, or older data, can displace a good answer *)
(* only through such a race, never because a request bypassed the cache.   *)
ReplacedOnlyByCrossingLookup ==
  [][\A w \in Workers :
       LET key == call[w].key
       IN  /\ call[w].phase = "storing" /\ call'[w].phase = "answered"
           /\ key \in DOMAIN entries
           /\ clock < entries[key].expiresAt
           => w \in crossed]_vars

(* An answer given from the cache is the resident entry, and was put less  *)
(* than the TTL of its kind ago, however many lookups it has answered      *)
(* before and however late its put got the mutex (cache.go:92).            *)
CachedAnswersFresh ==
  [][\A w \in Workers :
       call[w].phase = "idle" /\ call'[w].phase = "answered" =>
         LET key == call'[w].key
             outcome == call'[w].outcome
         IN  /\ key \in DOMAIN entries
             /\ outcome = entries[key].result
             /\ clock < entries[key].stampedAt + Cache!Ttl(outcome)]_vars

(* Every lookup returns, whatever the upstream does or fails to do.        *)
EveryLookupReturns ==
  \A w \in Workers : call[w].phase # "idle" ~> call[w].phase = "idle"

============================================================================
