---------------------------- MODULE AccountCache ----------------------------
(***************************************************************************)
(* The account cache of internal/profile/cache.go: a bounded map from      *)
(* request keys to lookup results (an account or an error), with an expiry *)
(* per entry and least-recently-used eviction.                             *)
(*                                                                         *)
(* get runs wholly under the mutex, its clock reading included.  put reads *)
(* the clock BEFORE it takes the mutex: Stamp and the Store that follows   *)
(* are separate steps, so results may be stored out of order, and late.    *)
(*                                                                         *)
(* The module is used on its own, with an arbitrary caller, and by         *)
(* AccountLookup, whose calls are the ones service.go makes.               *)
(***************************************************************************)
EXTENDS Integers, Sequences, FiniteSets, RecencyList

CONSTANTS
  Keys,        \* accountCacheKey: an identifier with its requested collections
  Accounts,    \* results with a nil error
  Errors,      \* results with an error
  Workers,     \* goroutines
  TTL,         \* CacheConfig.TTL
  ErrorTTL,    \* CacheConfig.ErrorTTL
  MaxEntries,  \* CacheConfig.MaxEntries
  MaxTime      \* bound on the clock

(* CacheConfig.validate, and Go's distinction of err == nil. *)
ASSUME CacheAssumption ==
  /\ ErrorTTL \in Nat \ {0}
  /\ TTL \in Nat
  /\ ErrorTTL < TTL
  /\ MaxEntries \in Nat \ {0}
  /\ MaxTime \in Nat
  /\ Accounts \cap Errors = {}

Results == Accounts \cup Errors

(* stampedAt is history: the clock reading expiresAt was made from. *)
Entry == [result : Results, expiresAt : Nat, stampedAt : Nat]

VARIABLES
  clock,    \* the monotonic clock behind c.now
  entries,  \* c.entries: key -> result, expiresAt
  recency,  \* c.recency: resident keys, most recently used first
  putting,  \* calls of put between c.now() and c.mu.Lock(): worker -> key, entry
  newer     \* history: the pairs <<a, b>> of keys such that a was used last

cacheVars == <<clock, entries, recency, putting, newer>>

Bind(f, x, v) == [y \in DOMAIN f \cup {x} |-> IF y = x THEN v ELSE f[y]]

Unbind(f, x) == [y \in DOMAIN f \ {x} |-> f[y]]

----------------------------------------------------------------------------
(* Seeded faults. *)

(* Errors live as long as accounts. *)
StampWithAccountTtl(w, key, result) ==
  /\ w \notin DOMAIN putting
  /\ putting' = Bind(putting, w,
                  [key |-> key,
                   entry |-> [result |-> result, expiresAt |-> clock + TTL,
                              stampedAt |-> clock]])
  /\ UNCHANGED <<clock, entries, recency, newer>>

(* A hit that leaves the entry where it is in the list. *)
HitUntouched(key) ==
  /\ key \in DOMAIN entries
  /\ clock < entries[key].expiresAt
  /\ recency' = recency
  /\ newer' = {p \in newer : p[2] # key} \cup {<<key, k>> : k \in Keys \ {key}}
  /\ UNCHANGED <<clock, entries, putting>>

(* A hit that renews the entry it answers with. *)
HitRenewing(key) ==
  /\ key \in DOMAIN entries
  /\ clock < entries[key].expiresAt
  /\ entries' = [entries EXCEPT ![key].expiresAt =
                   clock + (IF entries[key].result \in Errors THEN ErrorTTL ELSE TTL)]
  /\ recency' = <<key>> \o SelectSeq(recency, LAMBDA k : k # key)
  /\ newer' = {p \in newer : p[2] # key} \cup {<<key, k>> : k \in Keys \ {key}}
  /\ UNCHANGED <<clock, putting>>

(* get does not look at the expiry. *)
LiveForever(key) == TRUE

(* An expired entry is deleted from the map but stays in the list. *)
ExpireMapOnly(key) ==
  /\ key \in DOMAIN entries
  /\ clock >= entries[key].expiresAt
  /\ entries' = [k \in DOMAIN entries \ {key} |-> entries[k]]
  /\ UNCHANGED <<clock, recency, putting, newer>>

(* A full cache makes room by dropping its most recently used entry. *)
VictimMostRecent == recency[1]

----------------------------------------------------------------------------
Ttl(result) == IF result \in Errors THEN ErrorTTL ELSE TTL

Live(key) == clock < entries[key].expiresAt

Full == Cardinality(DOMAIN entries) >= MaxEntries

Victim == Back(recency)

(* key is now the most recently used one. *)
Used(key) ==
  newer' = {p \in newer : p[2] # key} \cup {<<key, k>> : k \in Keys \ {key}}

CacheInit ==
  /\ clock = 0
  /\ entries = [k \in {} |-> 0]
  /\ recency = <<>>
  /\ putting = [w \in {} |-> 0]
  /\ newer = {}

Tick ==
  /\ clock < MaxTime
  /\ clock' = clock + 1
  /\ UNCHANGED <<entries, recency, putting, newer>>

----------------------------------------------------------------------------
(* get *)

Hit(key) ==
  /\ key \in DOMAIN entries
  /\ Live(key)
  /\ recency' = MoveToFront(recency, key)
  /\ Used(key)
  /\ UNCHANGED <<clock, entries, putting>>

(* An entry found expired is removed on the way. *)
Expire(key) ==
  /\ key \in DOMAIN entries
  /\ ~Live(key)
  /\ entries' = Unbind(entries, key)
  /\ recency' = Unlink(recency, key)
  /\ UNCHANGED <<clock, putting, newer>>

Miss(key) ==
  /\ key \notin DOMAIN entries
  /\ UNCHANGED cacheVars

----------------------------------------------------------------------------
(* put *)

Stamp(w, key, result) ==
  /\ w \notin DOMAIN putting
  /\ putting' = Bind(putting, w,
                  [key |-> key,
                   entry |-> [result |-> result, expiresAt |-> clock + Ttl(result),
                              stampedAt |-> clock]])
  /\ UNCHANGED <<clock, entries, recency, newer>>

Stored(w) ==
  /\ putting' = Unbind(putting, w)
  /\ Used(putting[w].key)
  /\ UNCHANGED clock

(* The key is resident: its entry is replaced, whatever its age. *)
Replace(w) ==
  LET key == putting[w].key
  IN  /\ key \in DOMAIN entries
      /\ entries' = Bind(entries, key, putting[w].entry)
      /\ recency' = MoveToFront(recency, key)
      /\ Stored(w)

Insert(w) ==
  LET key == putting[w].key
  IN  /\ key \notin DOMAIN entries
      /\ ~Full
      /\ entries' = Bind(entries, key, putting[w].entry)
      /\ recency' = PushFront(recency, key)
      /\ Stored(w)

InsertEvicting(w) ==
  LET key == putting[w].key
  IN  /\ key \notin DOMAIN entries
      /\ Full
      /\ entries' = Bind(Unbind(entries, Victim), key, putting[w].entry)
      /\ recency' = PushFront(Unlink(recency, Victim), key)
      /\ Stored(w)

Store(w) ==
  \/ Replace(w)
  \/ Insert(w)
  \/ InsertEvicting(w)

----------------------------------------------------------------------------
CacheNext ==
  \/ Tick
  \/ \E key \in Keys : Hit(key) \/ Expire(key) \/ Miss(key)
  \/ \E w \in Workers, key \in Keys, result \in Results : Stamp(w, key, result)
  \/ \E w \in DOMAIN putting : Store(w)

CacheSpec == CacheInit /\ [][CacheNext]_cacheVars

----------------------------------------------------------------------------
(* Properties *)

TypeOK ==
  /\ clock \in 0..MaxTime
  /\ DOMAIN entries \subseteq Keys
  /\ entries \in [DOMAIN entries -> Entry]
  /\ recency \in Seq(Keys)
  /\ DOMAIN putting \subseteq Workers
  /\ putting \in [DOMAIN putting -> [key : Keys, entry : Entry]]
  /\ newer \in SUBSET (Keys \X Keys)

(* c.entries and c.recency hold the same keys, each once, and at most      *)
(* MaxEntries of them: get's removals, put's replacements and evictions of *)
(* racing goroutines keep the map and the list in step.                    *)
CacheCoherent ==
  /\ Enlists(recency, DOMAIN entries)
  /\ Cardinality(DOMAIN entries) <= MaxEntries

(* The list is in the order of last use, hits and stores alike, whichever  *)
(* entries came and went in between (cache.go's recency).                  *)
RecencyIsOrderOfUse == Ordered(recency, newer)

(* A live entry is lost only to make room in a full cache, and only if     *)
(* every other entry has been used since: errors, expiries and             *)
(* replacements never cost another key its entry.                          *)
EvictsLeastRecentlyUsed ==
  [][\A key \in DOMAIN entries \ DOMAIN entries' :
       Live(key) =>
         /\ Full
         /\ \A k \in DOMAIN entries \ {key} : <<k, key>> \in newer]_cacheVars

(* get answers with an account only until TTL, and with an error only      *)
(* until ErrorTTL, has passed since the call of put that stored it was     *)
(* made, however late that call got the mutex and however often the entry  *)
(* was answered with before (cache.go:92).                                 *)
ServedWithinLifetime ==
  [][\A key \in Keys :
       Hit(key) => clock < entries[key].stampedAt + Ttl(entries[key].result)]_cacheVars

============================================================================
