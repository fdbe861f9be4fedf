-------------------------- MODULE SourceIPLimiter --------------------------
(***************************************************************************)
(* The lookup rate limiter of internal/web/rate_limit.go: a GCRA ("leaky   *)
(* bucket") limiter per source IP, whose table of sources is bounded and   *)
(* ordered by recency.                                                     *)
(*                                                                         *)
(* A call of allow has two steps.  ReadClock takes the time BEFORE the     *)
(* mutex is taken (`now := l.now()`); everything after it runs under the   *)
(* mutex and is one of the five answers below.  Between the two any number *)
(* of other calls may be answered and the clock may advance, so the        *)
(* arrival times the table sees need not be in order.                      *)
(*                                                                         *)
(* clock .. pending are the program's state; admitted .. due record what   *)
(* happened and no guard reads them.                                       *)
(***************************************************************************)
EXTENDS Integers, Sequences, FiniteSets, RecencyList

CONSTANTS
  Sources,     \* source addresses (netip.Addr)
  Workers,     \* goroutines serving requests
  Second,      \* clock units in one time.Second
  Rate,        \* --lookup-rate-limit
  MaxEntries,  \* maxRateLimitSourceIPs
  MaxTime      \* bound on the clock

(* The guards of newSourceIPLimiter: 0 < rate <= time.Second, 0 < maxEntries. *)
ASSUME LimiterAssumption ==
  /\ Second \in Nat \ {0}
  /\ Rate \in 1..Second
  /\ MaxEntries \in Nat \ {0}
  /\ MaxTime \in Nat

interval == Second \div Rate

burstTolerance == (Rate - 1) * interval

VARIABLES
  clock,     \* the monotonic clock behind l.now
  entries,   \* l.entries: theoreticalArrival of every resident source
  recency,   \* l.recency: resident sources, most recently used first
  pending,   \* calls between l.now() and l.mu.Lock(): worker -> source, now
  admitted,  \* history: arrival times let through, per source
  since,     \* history: Len(admitted[s]) when s last entered the table
  retryAt,   \* history: when s was last told to retry, 0 for no promise
  due        \* history: theoretical arrival of s had it never been evicted

table == <<entries, recency>>
history == <<admitted, due, since, retryAt>>
vars == <<clock, table, pending, history>>

Call == [source : Sources, now : Nat]

Bind(f, x, v) == [y \in DOMAIN f \cup {x} |-> IF y = x THEN v ELSE f[y]]

Unbind(f, x) == [y \in DOMAIN f \ {x} |-> f[y]]

Later(t, u) == IF t < u THEN u ELSE t

----------------------------------------------------------------------------
(* Seeded faults: mutated forms of the definitions below, which the checks *)
(* of each property must be able to tell from the real ones.               *)

(* PushFront of an element that is already in the list. *)
PushedAgain(s) == PushFront(recency, s)

(* Evicts a source as soon as it would be admitted, not when replenished. *)
ActiveUntilAllowed(s, now) == now < entries[s] - burstTolerance

(* One admission too many fits into the burst. *)
BurstOfRatePlusOne(s) == entries[s] - Rate * interval

(* An idle source saves up its unused admissions. *)
ChargedWithoutCatchingUp(arrival, now) == arrival + interval

(* Retry-After rounded down. *)
PromiseTooEarly(s, at) ==
  /\ retryAt' = [retryAt EXCEPT ![s] = at - 1]
  /\ UNCHANGED <<admitted, due, since>>

(* A denied call is charged like an admitted one. *)
DenyCharging(w) ==
  LET s == pending[w].source
  IN  /\ s \in DOMAIN entries
      /\ pending[w].now < entries[s] - burstTolerance
      /\ entries' = [entries EXCEPT ![s] = @ + interval]
      /\ retryAt' = [retryAt EXCEPT ![s] = entries[s] - burstTolerance]
      /\ pending' = [v \in DOMAIN pending \ {w} |-> pending[v]]
      /\ UNCHANGED <<clock, recency, admitted, due, since>>

----------------------------------------------------------------------------
(* The table: container/list operations on recency, map operations on      *)
(* entries.                                                                *)

Touched(s) == MoveToFront(recency, s)

Oldest == Back(recency)

Full == Cardinality(DOMAIN entries) >= MaxEntries

(* A source whose theoretical arrival lies in the future still has burst   *)
(* to pay back.                                                            *)
Active(s, now) == now < entries[s]

AllowAt(s) == entries[s] - burstTolerance

Charged(arrival, now) == Later(arrival, now) + interval

----------------------------------------------------------------------------
Init ==
  /\ clock = 0
  /\ entries = [s \in {} |-> 0]
  /\ recency = <<>>
  /\ pending = [w \in {} |-> 0]
  /\ admitted = [s \in Sources |-> <<>>]
  /\ since = [s \in Sources |-> 0]
  /\ retryAt = [s \in Sources |-> 0]
  /\ due = [s \in Sources |-> 0]

Tick ==
  /\ clock < MaxTime
  /\ clock' = clock + 1
  /\ UNCHANGED <<table, pending, history>>

ReadClock(w, s) ==
  /\ w \notin DOMAIN pending
  /\ pending' = Bind(pending, w, [source |-> s, now |-> clock])
  /\ UNCHANGED <<clock, table, history>>

Answer(w) ==
  /\ pending' = Unbind(pending, w)
  /\ UNCHANGED clock

Grant(s, now) ==
  /\ admitted' = [admitted EXCEPT ![s] = Append(@, now)]
  /\ due' = [due EXCEPT ![s] = Later(@, now) + interval]
  /\ retryAt' = [retryAt EXCEPT ![s] = 0]

Promise(s, at) ==
  /\ retryAt' = [retryAt EXCEPT ![s] = at]
  /\ UNCHANGED <<admitted, due, since>>

(* The source is resident and its bucket has room. *)
AdmitResident(w) ==
  LET s == pending[w].source
      now == pending[w].now
  IN  /\ s \in DOMAIN entries
      /\ now >= AllowAt(s)
      /\ entries' = [entries EXCEPT ![s] = Charged(@, now)]
      /\ recency' = Touched(s)
      /\ Grant(s, now)
      /\ UNCHANGED since
      /\ Answer(w)

(* The source is resident and has used up its burst: it is still moved to  *)
(* the front of the list, and nothing is charged.                          *)
Deny(w) ==
  LET s == pending[w].source
  IN  /\ s \in DOMAIN entries
      /\ pending[w].now < AllowAt(s)
      /\ recency' = Touched(s)
      /\ UNCHANGED entries
      /\ Promise(s, AllowAt(s))
      /\ Answer(w)

(* A new entry starts with theoreticalArrival = now, hence is never denied. *)
AdmitNew(w) ==
  LET s == pending[w].source
      now == pending[w].now
  IN  /\ s \notin DOMAIN entries
      /\ ~Full
      /\ entries' = Bind(entries, s, Charged(now, now))
      /\ recency' = PushFront(recency, s)
      /\ Grant(s, now)
      /\ since' = [since EXCEPT ![s] = Len(admitted[s])]
      /\ Answer(w)

(* The table is full and its least recently used entry is replenished: it  *)
(* makes room for the new source.                                          *)
AdmitReclaiming(w) ==
  LET s == pending[w].source
      now == pending[w].now
  IN  /\ s \notin DOMAIN entries
      /\ Full
      /\ ~Active(Oldest, now)
      /\ entries' = Bind(Unbind(entries, Oldest), s, Charged(now, now))
      /\ recency' = PushFront(Unlink(recency, Oldest), s)
      /\ Grant(s, now)
      /\ since' = [since EXCEPT ![s] = Len(admitted[s])]
      /\ Answer(w)

(* The table is full and its least recently used entry is active. *)
RefuseNewSource(w) ==
  LET s == pending[w].source
  IN  /\ s \notin DOMAIN entries
      /\ Full
      /\ Active(Oldest, pending[w].now)
      /\ UNCHANGED table
      /\ Promise(s, entries[Oldest])
      /\ Answer(w)

Locked(w) ==
  \/ AdmitResident(w)
  \/ Deny(w)
  \/ AdmitNew(w)
  \/ AdmitReclaiming(w)
  \/ RefuseNewSource(w)

Next ==
  \/ Tick
  \/ \E w \in Workers, s \in Sources : ReadClock(w, s)
  \/ \E w \in DOMAIN pending : Locked(w)

Spec == Init /\ [][Next]_vars

----------------------------------------------------------------------------
(* Properties *)

(* The values of all variables: a call's clock reading is never ahead of   *)
(* the clock, and a history length never behind its mark.                  *)
TypeOK ==
  /\ clock \in 0..MaxTime
  /\ DOMAIN entries \subseteq Sources
  /\ entries \in [DOMAIN entries -> Nat]
  /\ recency \in Seq(Sources)
  /\ DOMAIN pending \subseteq Workers
  /\ pending \in [DOMAIN pending -> [source : Sources, now : 0..clock]]
  /\ admitted \in [Sources -> Seq(Nat)]
  /\ since \in [Sources -> Nat]
  /\ retryAt \in [Sources -> Nat]
  /\ due \in [Sources -> Nat]

(* The map and the list of rate_limit.go describe the same set of sources, *)
(* each exactly once, and never more than maxEntries of them: whichever    *)
(* calls race, remove() and PushFront keep the two structures in step.     *)
TableCoherent ==
  /\ Enlists(recency, DOMAIN entries)
  /\ Cardinality(DOMAIN entries) <= MaxEntries

(* "active entries must not be evicted to admit a new source"              *)
(* (rate_limit_test.go:54): a source leaves the table only when its bucket *)
(* is full again, whatever stale clock reading the evicting call holds.    *)
ActiveNeverEvicted ==
  [][\A s \in DOMAIN entries \ DOMAIN entries' : entries[s] <= clock]_vars

(* Sources are isolated: a step that is not an admission of s leaves the   *)
(* bucket of a resident s as it was or drops it replenished, and an        *)
(* admission of s only moves its theoretical arrival later.                *)
BucketsIsolated ==
  [][\A s \in DOMAIN entries \cap DOMAIN entries' :
        IF admitted'[s] = admitted[s]
        THEN entries'[s] = entries[s]
        ELSE entries'[s] >= entries[s] + interval]_vars

(* GCRA conformance of the admissions of s after the first lo ones: in the *)
(* order in which they were let through, two of them are never closer than *)
(* their distance allows.  In particular any Rate+1 admissions span at     *)
(* least one interval: the burst is Rate.                                  *)
Conforming(s, lo) ==
  \A i, j \in lo + 1 .. Len(admitted[s]) :
    i < j => admitted[s][j] - admitted[s][i] >= (j - i) * interval - burstTolerance

(* While a source stays in the table its admissions conform to the GCRA,   *)
(* even when the calls' clock readings reach the mutex out of order.       *)
ConformingWhileResident ==
  \A s \in DOMAIN entries : Conforming(s, since[s])

(* "sourceIPLimiter implements a bounded, per-source-IP GCRA rate limiter. *)
(* Its burst capacity is equal to the configured per-second rate"          *)
(* (rate_limit.go:23): all admissions of a source conform, the table's     *)
(* bound and its evictions notwithstanding.                                *)
ConformingAlways == \A s \in Sources : Conforming(s, 0)

(* No source is locked out for more than Rate intervals (at most one       *)
(* second) from now, and no Retry-After points further ahead.              *)
LockoutBounded ==
  /\ \A s \in DOMAIN entries : entries[s] <= clock + Rate * interval
  /\ \A s \in Sources : retryAt[s] <= clock + Rate * interval

(* Retry-After is kept: a source denied by its own bucket that comes back  *)
(* no earlier than it was told, with nothing admitted for it meanwhile and *)
(* its entry still in the table, is not denied again.                      *)
RetryAfterKept ==
  [][\A w \in DOMAIN pending \ DOMAIN pending' :
       LET s == pending[w].source
       IN  /\ s \in DOMAIN entries
           /\ retryAt[s] # 0
           /\ admitted'[s] = admitted[s]
           => pending[w].now < retryAt[s]]_vars

(* "fully replenished entries should be reclaimable"                       *)
(* (rate_limit_test.go:69): a new source is refused only when every entry  *)
(* of the full table is active at its arrival.                             *)
ReplenishedReclaimable ==
  [][\A w \in DOMAIN pending \ DOMAIN pending' :
       LET s == pending[w].source
       IN  s \notin DOMAIN entries /\ s \notin DOMAIN entries'
           => \A e \in DOMAIN entries : Active(e, pending[w].now)]_vars

(* The bounded, evicting limiter admits nothing that a bucket kept for     *)
(* every source for ever would not admit: no eviction hands out an         *)
(* admission, and an eviction changes no bucket.  What is refused is not   *)
(* compared: a full table turns new sources away, which is a stutter here. *)
(* Holds when calls are answered in the order of their clock readings.     *)
Buckets == INSTANCE SourceBuckets
  WITH Interval <- interval, Tolerance <- burstTolerance,
       now <- clock, granted <- admitted

ImplementsBuckets == Buckets!Spec

============================================================================
