----------------------- MODULE SourceIPLimiter_proof -----------------------
(***************************************************************************)
(* Proofs about the lookup rate limiter, for any number of sources and     *)
(* goroutines, any rate, any table size and any clock.                     *)
(*                                                                         *)
(* Everything rests on Inv: the types, the map and the list in step, and a *)
(* finite table.  Each further theorem adds the one fact it needs.         *)
(***************************************************************************)
EXTENDS LookupGate, ListTheorems, FiniteSetTheorems

(* ------------------------- arithmetic of the bucket -------------------- *)

(* interval and burstTolerance of newSourceIPLimiter are durations, and a  *)
(* full burst plus one admission is Rate intervals.                        *)
LEMMA BucketArithmetic ==
  /\ interval \in Nat
  /\ burstTolerance \in Nat
  /\ Rate * interval = burstTolerance + interval
<1>1. Second \in Nat /\ Rate \in Nat /\ Rate >= 1
  BY LimiterAssumption
<1>2. interval \in Nat
  BY <1>1 DEF interval
<1>3. \A k, x \in Nat : k * x \in Nat
  OBVIOUS
<1>4. \A k, x \in Nat : k >= 1 => k * x = (k - 1) * x + x
  OBVIOUS
<1>5. Rate - 1 \in Nat
  BY <1>1
<1>6. burstTolerance \in Nat
  BY <1>2, <1>3, <1>5 DEF burstTolerance
<1> QED  BY <1>1, <1>2, <1>4, <1>6 DEF burstTolerance

(* One admission more costs one interval more.                             *)
LEMMA OneIntervalMore ==
  \A n \in Nat : n * interval \in Nat /\ (n + 1) * interval = n * interval + interval
<1>1. \A n, x \in Nat : n * x \in Nat /\ (n + 1) * x = n * x + x
  OBVIOUS
<1> QED  BY <1>1, BucketArithmetic

(* Charging a bucket that admits at now leaves it at most Rate intervals   *)
(* ahead, and at least one interval later than before.                     *)
LEMMA ChargedProperties ==
  ASSUME NEW arrival \in Nat, NEW now \in Nat
  PROVE  /\ Charged(arrival, now) \in Nat
         /\ Charged(arrival, now) >= arrival + interval
         /\ Charged(arrival, now) >= now + interval
         /\ now >= arrival - burstTolerance
              => Charged(arrival, now) <= now + Rate * interval
  BY BucketArithmetic DEF Charged, Later

(* Map assignment and delete.                                              *)
LEMMA BindProperties ==
  ASSUME NEW f, NEW x, NEW v
  PROVE  /\ DOMAIN Bind(f, x, v) = DOMAIN f \cup {x}
         /\ Bind(f, x, v)[x] = v
         /\ \A y \in DOMAIN f : y # x => Bind(f, x, v)[y] = f[y]
         /\ \A T : f \in [DOMAIN f -> T] /\ v \in T
               => Bind(f, x, v) \in [DOMAIN Bind(f, x, v) -> T]
  BY DEF Bind

LEMMA UnbindProperties ==
  ASSUME NEW f, NEW x
  PROVE  /\ DOMAIN Unbind(f, x) = DOMAIN f \ {x}
         /\ \A y \in DOMAIN f : y # x => Unbind(f, x)[y] = f[y]
         /\ \A T : f \in [DOMAIN f -> T]
               => Unbind(f, x) \in [DOMAIN Unbind(f, x) -> T]
  BY DEF Unbind

(* ------------------------- the inductive invariant --------------------- *)

Inv ==
  /\ TypeOK
  /\ TableCoherent
  /\ IsFiniteSet(DOMAIN entries)

(* A call between l.now() and l.mu.Lock() is for a source and carries a    *)
(* reading of the clock.                                                   *)
LEMMA PendingCall ==
  ASSUME TypeOK, NEW w \in DOMAIN pending
  PROVE  /\ w \in Workers
         /\ pending[w].source \in Sources
         /\ pending[w].now \in Nat
         /\ pending[w].now <= clock
         /\ clock \in Nat
<1>1. clock \in Nat
  BY LimiterAssumption DEF TypeOK
<1>2. pending[w] \in [source : Sources, now : 0..clock] /\ w \in Workers
  BY DEF TypeOK
<1> QED  BY <1>1, <1>2

(* A full table has a least recently used source.                          *)
LEMMA OldestResident ==
  ASSUME Inv, Full
  PROVE  Oldest \in DOMAIN entries
<1>1. DOMAIN entries # {}
  <2>1. Cardinality({}) = 0
    BY FS_EmptySet
  <2> QED  BY <2>1, LimiterAssumption DEF Full
<1>2. recency \in Seq(Sources) /\ Enlists(recency, DOMAIN entries)
  BY DEF Inv, TypeOK, TableCoherent
<1> QED  BY <1>1, <1>2, BackListed DEF Oldest

(* What every answer does to the pending calls.                            *)
LEMMA AnswerType ==
  ASSUME TypeOK, NEW w \in DOMAIN pending, Answer(w)
  PROVE  /\ clock' \in 0..MaxTime
         /\ DOMAIN pending' \subseteq Workers
         /\ pending' \in [DOMAIN pending' -> [source : Sources, now : 0..clock']]
<1> DEFINE T == [source : Sources, now : 0..clock]
<1>1. clock' = clock /\ pending' = Unbind(pending, w)
  BY DEF Answer
<1>2. clock \in 0..MaxTime /\ DOMAIN pending \subseteq Workers
      /\ pending \in [DOMAIN pending -> T]
  BY DEF TypeOK
<1>3. DOMAIN Unbind(pending, w) = DOMAIN pending \ {w}
      /\ Unbind(pending, w) \in [DOMAIN Unbind(pending, w) -> T]
  BY ONLY <1>2, UnbindProperties
<1> QED  BY <1>1, <1>2, <1>3

(* Admitting a call keeps the history typed.                               *)
LEMMA GrantType ==
  ASSUME TypeOK, NEW s \in Sources, NEW now \in Nat, Grant(s, now)
  PROVE  /\ admitted' \in [Sources -> Seq(Nat)]
         /\ retryAt' \in [Sources -> Nat]
         /\ due' \in [Sources -> Nat]
<1>1. admitted \in [Sources -> Seq(Nat)] /\ retryAt \in [Sources -> Nat]
      /\ due \in [Sources -> Nat]
  BY DEF TypeOK
<1>2. Append(admitted[s], now) \in Seq(Nat)
  BY <1>1, AppendProperties
<1>3. Later(due[s], now) + interval \in Nat
  BY <1>1, BucketArithmetic DEF Later
<1> QED  BY <1>1, <1>2, <1>3 DEF Grant

LEMMA InitInv == Init => Inv
<1> SUFFICES ASSUME Init PROVE Inv
  OBVIOUS
<1>1. DOMAIN entries = {} /\ recency = <<>> /\ DOMAIN pending = {}
  BY DEF Init
<1>2. TypeOK
  BY LimiterAssumption, <1>1 DEF Init, TypeOK
<1>3. IsFiniteSet(DOMAIN entries) /\ Cardinality(DOMAIN entries) = 0
  BY <1>1, FS_EmptySet
<1>4. Enlists(recency, DOMAIN entries)
  BY <1>1 DEF Enlists
<1> QED  BY <1>2, <1>3, <1>4, LimiterAssumption DEF Inv, TableCoherent

(* The resident call: the table keeps its sources.                         *)
LEMMA TouchedKeeps ==
  ASSUME Inv, NEW s \in DOMAIN entries
  PROVE  Touched(s) \in Seq(Sources) /\ Enlists(Touched(s), DOMAIN entries)
<1>1. DOMAIN entries \in SUBSET Sources /\ recency \in Seq(Sources)
      /\ Enlists(recency, DOMAIN entries)
  BY DEF Inv, TypeOK, TableCoherent
<1> QED  BY <1>1, MoveToFrontEnlists DEF Touched

LEMMA TickInv == Inv /\ Tick => Inv'
<1> SUFFICES ASSUME Inv, Tick PROVE Inv'
  OBVIOUS
<1> USE DEF Inv, Tick, table, history
<1>1. clock \in Nat /\ clock' = clock + 1 /\ clock' \in 0..MaxTime
  BY LimiterAssumption DEF TypeOK
<1>2. pending' \in [DOMAIN pending' -> [source : Sources, now : 0..clock']]
  BY <1>1 DEF TypeOK
<1>3. TypeOK'
  BY <1>1, <1>2 DEF TypeOK
<1> QED  BY <1>3 DEF TableCoherent

LEMMA ReadClockInv ==
  ASSUME Inv, NEW w \in Workers, NEW s \in Sources, ReadClock(w, s)
  PROVE  Inv'
<1> DEFINE T == [source : Sources, now : 0..clock]
<1>1. pending' = Bind(pending, w, [source |-> s, now |-> clock])
      /\ UNCHANGED <<clock, table, history>>
  BY DEF ReadClock
<1>2. clock \in Nat /\ DOMAIN pending \subseteq Workers
      /\ pending \in [DOMAIN pending -> T]
  BY LimiterAssumption DEF Inv, TypeOK
<1>3. [source |-> s, now |-> clock] \in T
  BY <1>2
<1>4. DOMAIN pending' = DOMAIN pending \cup {w}
      /\ pending' \in [DOMAIN pending' -> T]
  BY ONLY <1>1, <1>2, <1>3, BindProperties
<1>5. TypeOK'
  BY <1>1, <1>2, <1>4 DEF Inv, TypeOK, table, history
<1> QED  BY <1>1, <1>5 DEF Inv, TableCoherent, table, history

LEMMA AdmitResidentInv ==
  ASSUME Inv, NEW w \in DOMAIN pending, AdmitResident(w)
  PROVE  Inv'
<1> DEFINE s == pending[w].source
           now == pending[w].now
<1>1. s \in Sources /\ now \in Nat
  BY PendingCall DEF Inv
<1>2. /\ s \in DOMAIN entries
      /\ entries' = [entries EXCEPT ![s] = Charged(@, now)]
      /\ recency' = Touched(s)
      /\ Grant(s, now)
      /\ since' = since
      /\ Answer(w)
  BY DEF AdmitResident
<1> HIDE DEF s, now
<1>3. entries \in [DOMAIN entries -> Nat] /\ DOMAIN entries \subseteq Sources
      /\ since \in [Sources -> Nat]
  BY DEF Inv, TypeOK
<1>4. Charged(entries[s], now) \in Nat
  BY <1>1, <1>2, <1>3, ChargedProperties
<1>5. DOMAIN entries' = DOMAIN entries /\ entries' \in [DOMAIN entries' -> Nat]
  BY <1>2, <1>3, <1>4
<1>6. Touched(s) \in Seq(Sources) /\ Enlists(Touched(s), DOMAIN entries)
  BY <1>2, TouchedKeeps
<1>7. TypeOK'
  BY <1>1, <1>2, <1>3, <1>5, <1>6, AnswerType, GrantType DEF Inv, TypeOK
<1>8. TableCoherent' /\ IsFiniteSet(DOMAIN entries')
  BY <1>2, <1>5, <1>6 DEF Inv, TableCoherent
<1> QED  BY <1>7, <1>8 DEF Inv

LEMMA DenyInv ==
  ASSUME Inv, NEW w \in DOMAIN pending, Deny(w)
  PROVE  Inv'
<1> DEFINE s == pending[w].source
           now == pending[w].now
<1>1. s \in Sources /\ now \in Nat
  BY PendingCall DEF Inv
<1>2. /\ s \in DOMAIN entries
      /\ now < AllowAt(s)
      /\ recency' = Touched(s)
      /\ entries' = entries
      /\ Promise(s, AllowAt(s))
      /\ Answer(w)
  BY DEF Deny
<1> HIDE DEF s, now
<1>3. AllowAt(s) \in Nat
  <2>1. entries[s] \in Nat
    BY <1>2 DEF Inv, TypeOK
  <2> QED  BY <1>1, <1>2, <2>1, BucketArithmetic DEF AllowAt
<1>4. Touched(s) \in Seq(Sources) /\ Enlists(Touched(s), DOMAIN entries)
  BY <1>2, TouchedKeeps
<1>5. retryAt' \in [Sources -> Nat]
      /\ admitted' = admitted /\ due' = due /\ since' = since
  BY <1>1, <1>2, <1>3 DEF Promise, Inv, TypeOK
<1>6. TypeOK'
  BY <1>2, <1>4, <1>5, AnswerType DEF Inv, TypeOK
<1> QED  BY <1>2, <1>4, <1>6 DEF Inv, TableCoherent

(* Admission of a source that is not resident, from a table from which     *)
(* the sources outside D have been removed.                                *)
LEMMA InsertInv ==
  ASSUME Inv, NEW w \in DOMAIN pending, NEW f, NEW list \in Seq(Sources),
         NEW D \in SUBSET DOMAIN entries,
         DOMAIN f = D, f \in [D -> Nat], Enlists(list, D),
         Cardinality(D) < MaxEntries,
         pending[w].source \notin DOMAIN entries,
         entries' = Bind(f, pending[w].source,
                         Charged(pending[w].now, pending[w].now)),
         recency' = PushFront(list, pending[w].source),
         Grant(pending[w].source, pending[w].now),
         since' = [since EXCEPT ![pending[w].source] =
                     Len(admitted[pending[w].source])],
         Answer(w)
  PROVE  Inv'
<1> DEFINE s == pending[w].source
           now == pending[w].now
<1>1. s \in Sources /\ now \in Nat
  BY PendingCall DEF Inv
<1>2. s \notin D /\ D \in SUBSET Sources
  BY DEF Inv, TypeOK
<1>3. Charged(now, now) \in Nat
  BY <1>1, ChargedProperties
<1>4. DOMAIN entries' = D \cup {s} /\ entries' \in [DOMAIN entries' -> Nat]
  <2>1. entries' = Bind(f, s, Charged(now, now))
    OBVIOUS
  <2> QED  BY ONLY <2>1, <1>3, BindProperties, DOMAIN f = D, f \in [D -> Nat]
<1>5. recency' \in Seq(Sources) /\ Enlists(recency', D \cup {s})
  <2>1. recency' = PushFront(list, s) /\ Enlists(list, D)
    OBVIOUS
  <2>2. list \in Seq(Sources) /\ s \in Sources /\ s \notin D
    BY <1>1, <1>2
  <2>3. PushFront(list, s) \in Seq(Sources)
    BY ONLY <2>2, PushFrontProperties
  <2>4. Enlists(PushFront(list, s), D \cup {s})
    BY ONLY <2>1, <2>2, PushFrontEnlists
  <2> QED  BY <2>1, <2>3, <2>4
<1>6. since' \in [Sources -> Nat]
  <2>1. Len(admitted[s]) \in Nat /\ since \in [Sources -> Nat]
    BY <1>1, LenProperties DEF Inv, TypeOK
  <2> QED  BY <1>1, <2>1
<1>7. /\ admitted' \in [Sources -> Seq(Nat)]
      /\ retryAt' \in [Sources -> Nat]
      /\ due' \in [Sources -> Nat]
  BY <1>1, GrantType DEF Inv
<1>8. TypeOK'
  BY <1>1, <1>2, <1>4, <1>5, <1>6, <1>7, AnswerType DEF Inv, TypeOK
<1>9. IsFiniteSet(D) /\ Cardinality(D) \in Nat
  BY FS_Subset, FS_CardinalityType DEF Inv
<1>10. IsFiniteSet(D \cup {s}) /\ Cardinality(D \cup {s}) = Cardinality(D) + 1
  BY <1>2, <1>9, FS_AddElement
<1> QED
  BY <1>4, <1>5, <1>8, <1>9, <1>10, LimiterAssumption DEF Inv, TableCoherent

LEMMA AdmitNewInv ==
  ASSUME Inv, NEW w \in DOMAIN pending, AdmitNew(w)
  PROVE  Inv'
<1>1. recency \in Seq(Sources) /\ entries \in [DOMAIN entries -> Nat]
      /\ Enlists(recency, DOMAIN entries)
  BY DEF Inv, TypeOK, TableCoherent
<1>2. Cardinality(DOMAIN entries) < MaxEntries
  <2>1. Cardinality(DOMAIN entries) \in Nat
    BY FS_CardinalityType DEF Inv
  <2> QED  BY <2>1, LimiterAssumption DEF AdmitNew, Full
<1> QED  BY <1>1, <1>2, InsertInv DEF AdmitNew

LEMMA AdmitReclaimingInv ==
  ASSUME Inv, NEW w \in DOMAIN pending, AdmitReclaiming(w)
  PROVE  Inv'
<1> DEFINE D == DOMAIN entries \ {Oldest}
           f == Unbind(entries, Oldest)
           list == Unlink(recency, Oldest)
<1>1. Oldest \in DOMAIN entries
  BY OldestResident DEF AdmitReclaiming
<1>2. recency \in Seq(Sources) /\ entries \in [DOMAIN entries -> Nat]
      /\ Enlists(recency, DOMAIN entries)
  BY DEF Inv, TypeOK, TableCoherent
<1>3. list \in Seq(Sources) /\ Enlists(list, D)
  BY <1>1, <1>2, UnlinkEnlists
<1>4. DOMAIN f = D /\ f \in [D -> Nat]
  BY ONLY <1>2, UnbindProperties
<1>5. Cardinality(D) < MaxEntries
  <2>1. Cardinality(D) = Cardinality(DOMAIN entries) - 1
    BY <1>1, FS_RemoveElement DEF Inv
  <2>2. Cardinality(DOMAIN entries) \in Nat
    BY FS_CardinalityType DEF Inv
  <2> QED  BY <2>1, <2>2, LimiterAssumption DEF Inv, TableCoherent
<1>6. D \in SUBSET DOMAIN entries
  OBVIOUS
<1> HIDE DEF D, f, list
<1> QED  BY <1>3, <1>4, <1>5, <1>6, InsertInv DEF AdmitReclaiming, D, f, list

LEMMA RefuseNewSourceInv ==
  ASSUME Inv, NEW w \in DOMAIN pending, RefuseNewSource(w)
  PROVE  Inv'
<1>1. pending[w].source \in Sources
  BY PendingCall DEF Inv
<1>2. Oldest \in DOMAIN entries
  BY OldestResident DEF RefuseNewSource
<1>3. entries[Oldest] \in Nat
  BY <1>2 DEF Inv, TypeOK
<1>4. UNCHANGED <<entries, recency, admitted, due, since>>
      /\ retryAt' \in [Sources -> Nat]
  BY <1>1, <1>3 DEF RefuseNewSource, Promise, table, Inv, TypeOK
<1>5. TypeOK'
  BY <1>4, AnswerType DEF RefuseNewSource, Inv, TypeOK
<1> QED  BY <1>4, <1>5 DEF Inv, TableCoherent

LEMMA NextInv == Inv /\ [Next]_vars => Inv'
<1> SUFFICES ASSUME Inv, [Next]_vars PROVE Inv'
  OBVIOUS
<1>1. CASE Tick
  BY <1>1, TickInv
<1>2. ASSUME NEW w \in Workers, NEW s \in Sources, ReadClock(w, s) PROVE Inv'
  BY <1>2, ReadClockInv
<1>3. ASSUME NEW w \in DOMAIN pending, Locked(w) PROVE Inv'
  BY <1>3, AdmitResidentInv, DenyInv, AdmitNewInv, AdmitReclaimingInv,
     RefuseNewSourceInv DEF Locked
<1>4. CASE UNCHANGED vars
  BY <1>4 DEF vars, table, history, Inv, TypeOK, TableCoherent
<1> QED  BY <1>1, <1>2, <1>3, <1>4 DEF Next

THEOREM Invariance == Spec => []Inv
  BY InitInv, NextInv, PTL DEF Spec

(* --------------------------- the safety theorems ----------------------- *)

(* Type correctness of the limiter of rate_limit.go.                       *)
THEOREM TypeCorrect == Spec => []TypeOK
<1>1. Inv => TypeOK
  BY DEF Inv
<1> QED  BY <1>1, Invariance, PTL

(* l.entries and l.recency always describe the same sources, each once,    *)
(* and never more than maxEntries of them.                                 *)
THEOREM TableStaysCoherent == Spec => []TableCoherent
<1>1. Inv => TableCoherent
  BY DEF Inv
<1> QED  BY <1>1, Invariance, PTL

(* A source leaves the table only by AdmitReclaiming, as the oldest one.   *)
LEMMA OnlyOldestLeaves ==
  ASSUME Inv, [Next]_vars, NEW s \in DOMAIN entries, s \notin DOMAIN entries'
  PROVE  \E w \in DOMAIN pending :
           /\ AdmitReclaiming(w)
           /\ s = Oldest
<1>1. PICK w \in DOMAIN pending : Locked(w)
  BY DEF Next, Tick, ReadClock, vars, table
<1>2. ~AdmitResident(w) /\ ~Deny(w) /\ ~RefuseNewSource(w)
  BY DEF AdmitResident, Deny, RefuseNewSource, table
<1>3. ~AdmitNew(w)
  BY DEF AdmitNew, Bind
<1>4. AdmitReclaiming(w)
  BY <1>1, <1>2, <1>3 DEF Locked
<1>5. DOMAIN entries' = (DOMAIN entries \ {Oldest}) \cup {pending[w].source}
  BY <1>4 DEF AdmitReclaiming, Bind, Unbind
<1> QED  BY <1>4, <1>5

(* "active entries must not be evicted to admit a new source": whatever    *)
(* the clock readings of the racing calls, a source leaves the table only  *)
(* when its bucket is full again.                                          *)
THEOREM ActiveSourcesStay == Spec => ActiveNeverEvicted
<1>1. ASSUME Inv, [Next]_vars, NEW s \in DOMAIN entries \ DOMAIN entries'
      PROVE  entries[s] <= clock
  <2>1. PICK w \in DOMAIN pending : AdmitReclaiming(w) /\ s = Oldest
    BY <1>1, OnlyOldestLeaves
  <2>2. pending[w].now \in Nat /\ pending[w].now <= clock /\ clock \in Nat
    BY <1>1, PendingCall DEF Inv
  <2>3. entries[s] \in Nat
    BY <1>1 DEF Inv, TypeOK
  <2> QED  BY <2>1, <2>2, <2>3 DEF AdmitReclaiming, Active
<1>2. Inv /\ [Next]_vars =>
        [\A s \in DOMAIN entries \ DOMAIN entries' : entries[s] <= clock]_vars
  BY <1>1
<1> QED  BY <1>2, Invariance, PTL DEF Spec, ActiveNeverEvicted

(* The effect of letting a source into the table: the entry starts at the  *)
(* call's clock reading, and no other resident bucket changes.             *)
LEMMA InsertEffect ==
  ASSUME Inv, NEW w \in DOMAIN pending, AdmitNew(w) \/ AdmitReclaiming(w),
         NEW s, s = pending[w].source, NEW now, now = pending[w].now
  PROVE  /\ s \notin DOMAIN entries
         /\ s \in DOMAIN entries'
         /\ entries'[s] = now + interval
         /\ \A x \in DOMAIN entries' \ {s} :
              x \in DOMAIN entries /\ entries'[x] = entries[x]
         /\ Grant(s, now)
         /\ since' = [since EXCEPT ![s] = Len(admitted[s])]
         /\ Answer(w)
<1>1. Charged(now, now) = now + interval
  BY PendingCall DEF Inv, Charged, Later
<1>2. PICK f : /\ DOMAIN f \subseteq DOMAIN entries
               /\ \A x \in DOMAIN f : f[x] = entries[x]
               /\ entries' = Bind(f, s, Charged(now, now))
  <2>1. CASE AdmitNew(w)
    BY <2>1 DEF AdmitNew
  <2>2. CASE AdmitReclaiming(w)
    BY <2>2 DEF AdmitReclaiming, Unbind
  <2> QED  BY <2>1, <2>2
<1>3. /\ s \in DOMAIN entries'
      /\ entries'[s] = now + interval
      /\ \A x \in DOMAIN entries' \ {s} :
           x \in DOMAIN entries /\ entries'[x] = entries[x]
  BY <1>1, <1>2 DEF Bind
<1> QED  BY <1>3 DEF AdmitNew, AdmitReclaiming

(* Sources are isolated from each other: only its own admission moves the  *)
(* bucket of a resident source, and always later.                          *)
THEOREM SourcesAreIsolated == Spec => BucketsIsolated
<1> DEFINE Isolated(s) == IF admitted'[s] = admitted[s]
                          THEN entries'[s] = entries[s]
                          ELSE entries'[s] >= entries[s] + interval
<1>1. ASSUME Inv, [Next]_vars, NEW s \in DOMAIN entries \cap DOMAIN entries'
      PROVE  Isolated(s)
  <2>1. CASE UNCHANGED <<entries, admitted>>
    BY <2>1
  <2>2. ASSUME NEW w \in DOMAIN pending, AdmitResident(w)
        PROVE  Isolated(s)
    <3> DEFINE now == pending[w].now
    <3>1. /\ pending[w].source \in DOMAIN entries
          /\ entries' = [entries EXCEPT ![pending[w].source] = Charged(@, now)]
          /\ Grant(pending[w].source, now)
      BY <2>2 DEF AdmitResident
    <3>2. CASE pending[w].source = s
      <4>1. s \in Sources /\ admitted[s] \in Seq(Nat) /\ now \in Nat
        BY <1>1, <3>2, PendingCall DEF Inv, TypeOK
      <4>2. admitted'[s] = Append(admitted[s], now)
        BY <1>1, <3>1, <3>2, <4>1 DEF Grant, Inv, TypeOK
      <4>3. admitted'[s] # admitted[s]
        BY <4>1, <4>2, AppendProperties, LenProperties
      <4>4. entries'[s] = Charged(entries[s], now) /\ entries[s] \in Nat
        BY <1>1, <3>1, <3>2 DEF Inv, TypeOK
      <4> QED  BY <4>1, <4>3, <4>4, ChargedProperties
    <3>3. CASE pending[w].source # s
      BY <1>1, <3>1, <3>3 DEF Grant, Inv, TypeOK
    <3> QED  BY <3>2, <3>3
  <2>3. ASSUME NEW w \in DOMAIN pending, AdmitNew(w) \/ AdmitReclaiming(w)
        PROVE  Isolated(s)
    <3>1. pending[w].source # s /\ entries'[s] = entries[s]
          /\ Grant(pending[w].source, pending[w].now)
      BY <1>1, <2>3, InsertEffect
    <3>2. admitted'[s] = admitted[s]
      BY <1>1, <3>1 DEF Grant, Inv, TypeOK
    <3> QED  BY <3>1, <3>2
  <2>4. ASSUME NEW w \in DOMAIN pending, Deny(w) \/ RefuseNewSource(w)
        PROVE  Isolated(s)
    BY <2>4 DEF Deny, RefuseNewSource, Promise, table
  <2> QED
    BY <1>1, <2>1, <2>2, <2>3, <2>4
    DEF Next, Tick, ReadClock, Locked, vars, table, history
<1>2. Inv /\ [Next]_vars => [\A s \in DOMAIN entries \cap DOMAIN entries' : Isolated(s)]_vars
  BY <1>1
<1> QED  BY <1>2, Invariance, PTL DEF Spec, BucketsIsolated

(* ------------------------------ conformance ---------------------------- *)

(* Every admission of the sequence from position lo + 1 on has been        *)
(* charged one interval to a bucket now due at d, and so has every later   *)
(* one.                                                                    *)
Paid(arrivals, lo, d) ==
  \A i \in lo + 1 .. Len(arrivals) :
    arrivals[i] + (Len(arrivals) - i + 1) * interval <= d

Spaced(arrivals, lo) ==
  \A i, j \in lo + 1 .. Len(arrivals) :
    i < j => arrivals[j] - arrivals[i] >= (j - i) * interval - burstTolerance

(* An admission that the bucket allows, and that is charged to it, keeps   *)
(* the admissions paid for and spaced.                                     *)
LEMMA AdmissionKeepsSpacing ==
  ASSUME NEW a \in Seq(Nat), NEW lo \in Nat, NEW d \in Nat, NEW e \in Nat,
         NEW now \in Nat,
         Paid(a, lo, d), Spaced(a, lo),
         now >= d - burstTolerance, e >= d + interval, e >= now + interval
  PROVE  Paid(Append(a, now), lo, e) /\ Spaced(Append(a, now), lo)
<1> DEFINE b == Append(a, now)
<1>1. /\ Len(a) \in Nat /\ Len(b) = Len(a) + 1
      /\ \A i \in 1..Len(a) : b[i] = a[i] /\ a[i] \in Nat
      /\ b[Len(a) + 1] = now
  BY AppendProperties, LenProperties, ElementOfSeq
<1> HIDE DEF b
<1>2. interval \in Nat /\ burstTolerance \in Nat
  BY BucketArithmetic
<1>3. ASSUME NEW i \in lo + 1 .. Len(b)
      PROVE  b[i] + (Len(b) - i + 1) * interval <= e
  <2>1. CASE i = Len(a) + 1
    <3>1. (Len(b) - i + 1) * interval = interval
      BY <1>1, <1>2, <2>1
    <3> QED  BY <1>1, <1>2, <2>1, <3>1
  <2>2. CASE i \in lo + 1 .. Len(a)
    <3> DEFINE n == Len(a) - i + 1
    <3>1. n \in Nat /\ Len(b) - i + 1 = n + 1
      BY <1>1, <2>2
    <3>2. a[i] + n * interval <= d
      BY <2>2 DEF Paid
    <3>3. n * interval \in Nat /\ (n + 1) * interval = n * interval + interval
      BY <3>1, OneIntervalMore
    <3> DEFINE cost == n * interval
    <3>4. b[i] = a[i] /\ a[i] \in Nat
      BY <1>1, <2>2
    <3>5. (Len(b) - i + 1) * interval = cost + interval /\ cost \in Nat
      BY <3>1, <3>3
    <3> HIDE DEF n, cost
    <3> QED  BY <1>2, <3>2, <3>4, <3>5 DEF cost
  <2> QED  BY <1>1, <2>1, <2>2
<1>4. ASSUME NEW i \in lo + 1 .. Len(b), NEW j \in lo + 1 .. Len(b), i < j
      PROVE  b[j] - b[i] >= (j - i) * interval - burstTolerance
  <2>1. i \in lo + 1 .. Len(a) /\ b[i] = a[i] /\ a[i] \in Nat
    BY <1>1, <1>4
  <2>2. CASE j = Len(a) + 1
    <3>1. a[i] + (j - i) * interval <= d
      <4>1. j - i = Len(a) - i + 1
        BY <1>1, <2>1, <2>2
      <4> QED  BY <2>1, <4>1 DEF Paid
    <3>2. (j - i) * interval \in Nat
      <4>1. j - i \in Nat
        BY <1>1, <1>4
      <4> QED  BY <4>1, OneIntervalMore
    <3> QED  BY <1>1, <1>2, <2>1, <2>2, <3>1, <3>2
  <2>3. CASE j \in lo + 1 .. Len(a)
    <3>1. b[j] = a[j]
      BY <1>1, <2>3
    <3> QED  BY <1>4, <2>1, <2>3, <3>1 DEF Spaced
  <2> QED  BY <1>1, <2>2, <2>3
<1> QED  BY <1>3, <1>4 DEF Paid, Spaced, b

(* The first admission of a stay in the table.                             *)
LEMMA FirstAdmission ==
  ASSUME NEW a \in Seq(Nat), NEW now \in Nat
  PROVE  /\ Paid(Append(a, now), Len(a), now + interval)
         /\ Spaced(Append(a, now), Len(a))
<1>1. /\ Len(a) \in Nat /\ Len(Append(a, now)) = Len(a) + 1
      /\ Append(a, now)[Len(a) + 1] = now
  BY AppendProperties, LenProperties
<1>2. interval \in Nat /\ 1 * interval = interval
  BY BucketArithmetic
<1> QED  BY <1>1, <1>2 DEF Paid, Spaced

(* The strengthening: the admissions of a source since it entered the      *)
(* table are paid for by its theoretical arrival time.                     *)
ConformInv ==
  \A s \in DOMAIN entries :
    /\ Paid(admitted[s], since[s], entries[s])
    /\ Spaced(admitted[s], since[s])

LEMMA ConformStep == Inv /\ ConformInv /\ [Next]_vars => ConformInv'
<1> SUFFICES ASSUME Inv, ConformInv, [Next]_vars, NEW s \in DOMAIN entries'
             PROVE  /\ Paid(admitted'[s], since'[s], entries'[s])
                    /\ Spaced(admitted'[s], since'[s])
  BY DEF ConformInv, Paid, Spaced
<1> DEFINE Kept == /\ s \in DOMAIN entries
                   /\ entries'[s] = entries[s]
                   /\ admitted'[s] = admitted[s]
                   /\ since'[s] = since[s]
<1>1. CASE Kept
  BY <1>1 DEF ConformInv
<1>2. ASSUME NEW w \in DOMAIN pending, AdmitResident(w), pending[w].source = s
      PROVE  /\ Paid(admitted'[s], since'[s], entries'[s])
             /\ Spaced(admitted'[s], since'[s])
  <2> DEFINE now == pending[w].now
             e == Charged(entries[s], now)
  <2>1. /\ s \in DOMAIN entries /\ entries'[s] = e
        /\ now >= entries[s] - burstTolerance
        /\ since' = since /\ Grant(s, now)
    BY <1>2 DEF AdmitResident, AllowAt
  <2>2. s \in Sources /\ now \in Nat /\ entries[s] \in Nat
        /\ admitted[s] \in Seq(Nat) /\ since[s] \in Nat
    BY <1>2, <2>1, PendingCall DEF Inv, TypeOK
  <2>3. admitted'[s] = Append(admitted[s], now)
    BY <2>1, <2>2 DEF Grant, Inv, TypeOK
  <2>4. e \in Nat /\ e >= entries[s] + interval /\ e >= now + interval
    BY <2>2, ChargedProperties
  <2>5. Paid(admitted[s], since[s], entries[s]) /\ Spaced(admitted[s], since[s])
    BY <2>1 DEF ConformInv
  <2> HIDE DEF e, now
  <2> QED  BY <2>1, <2>2, <2>3, <2>4, <2>5, AdmissionKeepsSpacing
<1>3. ASSUME NEW w \in DOMAIN pending, AdmitResident(w), pending[w].source # s
      PROVE  Kept
  BY <1>3 DEF AdmitResident, Grant, Inv, TypeOK
<1>4. ASSUME NEW w \in DOMAIN pending, AdmitNew(w) \/ AdmitReclaiming(w),
             pending[w].source = s
      PROVE  /\ Paid(admitted'[s], since'[s], entries'[s])
             /\ Spaced(admitted'[s], since'[s])
  <2> DEFINE now == pending[w].now
  <2>1. /\ entries'[s] = now + interval
        /\ Grant(s, now) /\ since' = [since EXCEPT ![s] = Len(admitted[s])]
    BY <1>4, InsertEffect
  <2>2. s \in Sources /\ now \in Nat /\ admitted[s] \in Seq(Nat)
    BY <1>4, PendingCall DEF Inv, TypeOK
  <2>3. admitted'[s] = Append(admitted[s], now) /\ since'[s] = Len(admitted[s])
    BY <2>1, <2>2 DEF Grant, Inv, TypeOK
  <2> HIDE DEF now
  <2> QED  BY <2>1, <2>2, <2>3, FirstAdmission
<1>5. ASSUME NEW w \in DOMAIN pending, AdmitNew(w) \/ AdmitReclaiming(w),
             pending[w].source # s
      PROVE  Kept
  <2>1. /\ s \in DOMAIN entries /\ entries'[s] = entries[s]
        /\ Grant(pending[w].source, pending[w].now)
        /\ since' = [since EXCEPT ![pending[w].source] =
                       Len(admitted[pending[w].source])]
    BY <1>5, InsertEffect
  <2> QED  BY <1>5, <2>1 DEF Grant, Inv, TypeOK
<1>6. ASSUME NEW w \in DOMAIN pending, Deny(w) \/ RefuseNewSource(w)
      PROVE  Kept
  BY <1>6 DEF Deny, RefuseNewSource, Promise, table
<1>7. CASE Tick \/ (\E w \in Workers, x \in Sources : ReadClock(w, x)) \/ UNCHANGED vars
  BY <1>1, <1>7 DEF Tick, ReadClock, vars, table, history
<1> QED  BY <1>1, <1>2, <1>3, <1>4, <1>5, <1>6, <1>7 DEF Next, Locked

(* Per-source rate and burst: as long as a source stays in the table, its  *)
(* admissions conform to the GCRA of rate_limit.go, even when the clock    *)
(* readings of racing calls reach the mutex out of order.                  *)
THEOREM ResidentSourcesConform == Spec => []ConformingWhileResident
<1>1. Init => ConformInv
  BY DEF Init, ConformInv
<1>2. ConformInv => ConformingWhileResident
  BY DEF ConformInv, Spaced, ConformingWhileResident, Conforming
<1> QED  BY <1>1, <1>2, ConformStep, Invariance, PTL DEF Spec

(* ------------------------- lockout and Retry-After --------------------- *)

(* No source is locked out, and no Retry-After points, further ahead than  *)
(* Rate intervals, which is at most one second.                            *)
THEOREM LockoutIsBounded == Spec => []LockoutBounded
<1> DEFINE Horizon == clock + Rate * interval
<1>1. Init => LockoutBounded
  BY BucketArithmetic DEF Init, LockoutBounded
<1>2. Inv /\ LockoutBounded /\ [Next]_vars => LockoutBounded'
  <2> SUFFICES ASSUME Inv, LockoutBounded, [Next]_vars PROVE LockoutBounded'
    OBVIOUS
  <2>1. clock \in Nat /\ clock' \in Nat /\ clock <= clock'
        /\ Rate * interval \in Nat /\ Horizon <= Horizon'
    <3>1. clock \in Nat /\ Rate * interval \in Nat
      BY LimiterAssumption, BucketArithmetic DEF Inv, TypeOK
    <3>2. clock' = clock \/ clock' = clock + 1
      BY DEF Next, Tick, ReadClock, Locked, AdmitResident, Deny, AdmitNew,
         AdmitReclaiming, RefuseNewSource, Answer, vars
    <3> QED  BY <3>1, <3>2
  <2>2. \A s \in DOMAIN entries : entries[s] \in Nat /\ entries[s] <= Horizon
    BY DEF Inv, TypeOK, LockoutBounded
  <2>3. \A s \in Sources : retryAt[s] \in Nat /\ retryAt[s] <= Horizon
    BY DEF Inv, TypeOK, LockoutBounded
  <2>4. \A w \in DOMAIN pending :
          /\ pending[w].source \in Sources
          /\ pending[w].now \in Nat /\ pending[w].now <= clock
    BY PendingCall DEF Inv
  <2> DEFINE Kept == UNCHANGED <<entries, retryAt>>
             Goal == /\ \A s \in DOMAIN entries' : entries'[s] <= Horizon'
                     /\ \A s \in Sources : retryAt'[s] <= Horizon'
  <2>5. CASE Kept
    <3>1. \A s \in DOMAIN entries : entries[s] <= Horizon'
      BY <2>1, <2>2
    <3>2. \A s \in Sources : retryAt[s] <= Horizon'
      BY <2>1, <2>3
    <3> QED  BY <2>5, <3>1, <3>2 DEF LockoutBounded
  <2>6. ASSUME NEW w \in DOMAIN pending, AdmitResident(w) PROVE Goal
    <3> DEFINE s == pending[w].source
               now == pending[w].now
    <3>1. /\ s \in DOMAIN entries
          /\ now >= entries[s] - burstTolerance
          /\ entries' = [entries EXCEPT ![s] = Charged(@, now)]
          /\ retryAt' = [retryAt EXCEPT ![s] = 0]
      BY <2>6 DEF AdmitResident, AllowAt, Grant
    <3>5. entries[s] \in Nat /\ now \in Nat /\ now <= clock
      BY <2>2, <2>4, <3>1
    <3> HIDE DEF s, now
    <3>6. Charged(entries[s], now) \in Nat
          /\ Charged(entries[s], now) <= now + Rate * interval
      BY <3>1, <3>5, ChargedProperties
    <3>2. Charged(entries[s], now) \in Nat /\ Charged(entries[s], now) <= Horizon
      BY <2>1, <3>5, <3>6
    <3>3. \A x \in DOMAIN entries' : entries'[x] \in Nat /\ entries'[x] <= Horizon
      BY <2>2, <3>1, <3>2
    <3>4. \A x \in Sources : retryAt'[x] \in Nat /\ retryAt'[x] <= Horizon
      <4>1. 0 <= Horizon
        BY <2>1
      <4>2. \A x \in Sources : retryAt'[x] = 0 \/ retryAt'[x] = retryAt[x]
        BY <3>1 DEF Inv, TypeOK
      <4> QED  BY <2>3, <4>1, <4>2
    <3> QED  BY <2>1, <3>3, <3>4
  <2>7. ASSUME NEW w \in DOMAIN pending, AdmitNew(w) \/ AdmitReclaiming(w) PROVE Goal
    <3> DEFINE s == pending[w].source
               now == pending[w].now
    <3>1. /\ entries'[s] = now + interval
          /\ \A x \in DOMAIN entries' \ {s} :
               x \in DOMAIN entries /\ entries'[x] = entries[x]
          /\ retryAt' = [retryAt EXCEPT ![s] = 0]
      BY <2>7, InsertEffect DEF Grant
    <3>2. now + interval \in Nat /\ now + interval <= Horizon
      BY <2>1, <2>4, BucketArithmetic
    <3> HIDE DEF s, now
    <3>3. \A x \in DOMAIN entries' : entries'[x] \in Nat /\ entries'[x] <= Horizon
      BY <2>2, <3>1, <3>2
    <3>4. \A x \in Sources : retryAt'[x] \in Nat /\ retryAt'[x] <= Horizon
      BY <2>1, <2>3, <3>1 DEF Inv, TypeOK
    <3> QED  BY <2>1, <3>3, <3>4
  <2>8. ASSUME NEW w \in DOMAIN pending, Deny(w) \/ RefuseNewSource(w) PROVE Goal
    <3>1. entries' = entries
      BY <2>8 DEF Deny, RefuseNewSource, table
    <3>2. PICK at \in Int : at <= Horizon /\ Promise(pending[w].source, at)
      <4>1. CASE Deny(w)
        <5>1. AllowAt(pending[w].source) \in Int /\ AllowAt(pending[w].source) <= Horizon
          BY <2>1, <2>2, <4>1, BucketArithmetic DEF Deny, AllowAt
        <5> QED  BY <4>1, <5>1 DEF Deny
      <4>2. CASE RefuseNewSource(w)
        BY <2>2, <4>2, OldestResident DEF RefuseNewSource
      <4> QED  BY <2>8, <4>1, <4>2
    <3>3. \A x \in DOMAIN entries' : entries'[x] \in Nat /\ entries'[x] <= Horizon
      BY <2>2, <3>1
    <3>4. \A x \in Sources : retryAt'[x] \in Int /\ retryAt'[x] <= Horizon
      BY <2>3, <3>2 DEF Promise, Inv, TypeOK
    <3> QED  BY <2>1, <3>3, <3>4
  <2>9. CASE Tick \/ (\E w \in Workers, x \in Sources : ReadClock(w, x)) \/ UNCHANGED vars
    BY <2>5, <2>9 DEF Tick, ReadClock, vars, table, history
  <2> QED
    BY <2>6, <2>7, <2>8, <2>9 DEF Next, Locked, LockoutBounded
<1> QED  BY <1>1, <1>2, Invariance, PTL DEF Spec

(* The strengthening: what a resident source was last told, if anything,   *)
(* is the instant its bucket admits again.                                 *)
PromiseInv ==
  \A s \in DOMAIN entries : retryAt[s] # 0 => retryAt[s] = AllowAt(s)

LEMMA PromiseStep == Inv /\ PromiseInv /\ [Next]_vars => PromiseInv'
<1> SUFFICES ASSUME Inv, PromiseInv, [Next]_vars, NEW s \in DOMAIN entries',
                    retryAt'[s] # 0
             PROVE  retryAt'[s] = entries'[s] - burstTolerance
  BY DEF PromiseInv, AllowAt
<1> DEFINE Kept == s \in DOMAIN entries /\ entries'[s] = entries[s]
                   /\ retryAt'[s] = retryAt[s]
<1>1. CASE Kept
  BY <1>1 DEF PromiseInv, AllowAt
<1>2. ASSUME NEW w \in DOMAIN pending, AdmitResident(w)
      PROVE  Kept
  BY <1>2 DEF AdmitResident, Grant, Inv, TypeOK
<1>3. ASSUME NEW w \in DOMAIN pending, AdmitNew(w) \/ AdmitReclaiming(w)
      PROVE  Kept
  <2>1. /\ \A x \in DOMAIN entries' \ {pending[w].source} :
             x \in DOMAIN entries /\ entries'[x] = entries[x]
        /\ retryAt' = [retryAt EXCEPT ![pending[w].source] = 0]
    BY <1>3, InsertEffect DEF Grant
  <2> QED  BY <2>1 DEF Inv, TypeOK
<1>4. ASSUME NEW w \in DOMAIN pending, Deny(w)
      PROVE  retryAt'[s] = entries'[s] - burstTolerance
  <2>1. CASE pending[w].source = s
    BY <1>4, <2>1 DEF Deny, Promise, AllowAt, Inv, TypeOK
  <2>2. CASE pending[w].source # s
    BY <1>1, <1>4, <2>2 DEF Deny, Promise, Inv, TypeOK
  <2> QED  BY <2>1, <2>2
<1>5. ASSUME NEW w \in DOMAIN pending, RefuseNewSource(w)
      PROVE  Kept
  BY <1>5 DEF RefuseNewSource, Promise, table, Inv, TypeOK
<1>6. CASE Tick \/ (\E w \in Workers, x \in Sources : ReadClock(w, x)) \/ UNCHANGED vars
  BY <1>1, <1>6 DEF Tick, ReadClock, vars, table, history
<1> QED  BY <1>1, <1>2, <1>3, <1>4, <1>5, <1>6 DEF Next, Locked

(* Retry-After is kept: a source denied by its own bucket, still in the    *)
(* table and not admitted since, is not denied again at or after the       *)
(* instant it was told, whatever calls of other sources came in between.   *)
THEOREM RetryAfterIsKept == Spec => RetryAfterKept
<1>1. Init => PromiseInv
  BY DEF Init, PromiseInv
<1>2. ASSUME Inv, PromiseInv, [Next]_vars,
             NEW w \in DOMAIN pending \ DOMAIN pending',
             pending[w].source \in DOMAIN entries,
             retryAt[pending[w].source] # 0,
             admitted'[pending[w].source] = admitted[pending[w].source]
      PROVE  pending[w].now < retryAt[pending[w].source]
  <2> DEFINE s == pending[w].source
  <2>1. Locked(w)
    <3>1. PICK v \in DOMAIN pending : Locked(v)
      BY <1>2 DEF Next, Tick, ReadClock, Bind, vars, table
    <3>2. pending' = Unbind(pending, v)
      BY <3>1 DEF Locked, AdmitResident, Deny, AdmitNew, AdmitReclaiming,
         RefuseNewSource, Answer
    <3> QED  BY <1>2, <3>1, <3>2 DEF Unbind
  <2>2. ~AdmitResident(w)
    <3> SUFFICES ASSUME AdmitResident(w) PROVE FALSE
      OBVIOUS
    <3>1. s \in Sources /\ pending[w].now \in Nat
      BY <1>2, PendingCall DEF Inv
    <3>2. admitted[s] \in Seq(Nat)
      BY <1>2, <3>1 DEF Inv, TypeOK
    <3>3. admitted'[s] = Append(admitted[s], pending[w].now)
      BY <1>2, <3>1 DEF AdmitResident, Grant, Inv, TypeOK
    <3> QED  BY <1>2, <3>1, <3>2, <3>3, AppendProperties, LenProperties
  <2>3. ~AdmitNew(w) /\ ~AdmitReclaiming(w) /\ ~RefuseNewSource(w)
    BY <1>2 DEF AdmitNew, AdmitReclaiming, RefuseNewSource
  <2>4. Deny(w)
    BY <2>1, <2>2, <2>3 DEF Locked
  <2> QED  BY <1>2, <2>4 DEF Deny, PromiseInv
<1> DEFINE Kept == \A w \in DOMAIN pending \ DOMAIN pending' :
                     LET s == pending[w].source
                     IN  /\ s \in DOMAIN entries
                         /\ retryAt[s] # 0
                         /\ admitted'[s] = admitted[s]
                         => pending[w].now < retryAt[s]
<1>3. Inv /\ PromiseInv /\ [Next]_vars => [Kept]_vars
  BY <1>2
<1> QED  BY <1>1, <1>3, PromiseStep, Invariance, PTL DEF Spec, RetryAfterKept

(* --------------------------- calls in order ---------------------------- *)

(* When calls reach the mutex in the order of their clock readings, which  *)
(* is what a single goroutine guarantees, the bucket of a resident source  *)
(* is the one that was never evicted, and the bucket of any other source   *)
(* is full again at every arrival still to be answered.                    *)
OrderInv ==
  /\ \A s \in DOMAIN entries : due[s] = entries[s]
  /\ \A s \in Sources \ DOMAIN entries :
       due[s] <= clock /\ \A w \in DOMAIN pending : due[s] <= pending[w].now

LEMMA OrderStep ==
  ASSUME \A v, w \in Workers : v = w
  PROVE  Inv /\ OrderInv /\ [Next]_vars => OrderInv'
<1> SUFFICES ASSUME Inv, OrderInv, [Next]_vars PROVE OrderInv'
  OBVIOUS
<1> DEFINE Alone == DOMAIN pending' = {} /\ clock' = clock
<1>1. /\ clock \in Nat
      /\ due \in [Sources -> Nat]
      /\ entries \in [DOMAIN entries -> Nat] /\ DOMAIN entries \subseteq Sources
  BY LimiterAssumption DEF Inv, TypeOK
<1>2. ASSUME NEW w \in DOMAIN pending, Answer(w) PROVE Alone
  <2>1. \A v \in DOMAIN pending : v = w
    BY DEF Inv, TypeOK
  <2> QED  BY <1>2, <2>1 DEF Answer, Unbind
<1>3. CASE Tick
  BY <1>1, <1>3 DEF Tick, OrderInv, table, history
<1>4. ASSUME NEW w \in Workers, NEW x \in Sources, ReadClock(w, x)
      PROVE  OrderInv'
  <2>1. /\ UNCHANGED <<clock, entries, due>>
        /\ pending' = Bind(pending, w, [source |-> x, now |-> clock])
    BY <1>4 DEF ReadClock, table, history
  <2>2. \A v \in DOMAIN pending' : v \in DOMAIN pending \/ pending'[v].now = clock
    BY <2>1 DEF Bind
  <2>3. \A v \in DOMAIN pending' :
          pending'[v].now = clock \/ (v \in DOMAIN pending /\ pending'[v] = pending[v])
    BY <2>1 DEF Bind
  <2> QED  BY <1>1, <2>1, <2>3 DEF OrderInv
<1>5. ASSUME NEW w \in DOMAIN pending, AdmitResident(w) PROVE OrderInv'
  <2> DEFINE s == pending[w].source
             now == pending[w].now
  <2>1. /\ s \in DOMAIN entries /\ Answer(w)
        /\ entries' = [entries EXCEPT ![s] = Later(@, now) + interval]
        /\ due' = [due EXCEPT ![s] = Later(@, now) + interval]
    BY <1>5 DEF AdmitResident, Grant, Charged
  <2>2. Alone
    BY <1>2, <2>1
  <2> HIDE DEF s, now
  <2>3. \A x \in DOMAIN entries' : due'[x] = entries'[x]
    BY <1>1, <2>1 DEF OrderInv
  <2>4. \A x \in Sources \ DOMAIN entries' : due'[x] <= clock'
    BY <1>1, <2>1, <2>2 DEF OrderInv
  <2> QED  BY <2>2, <2>3, <2>4 DEF OrderInv
<1>6. ASSUME NEW w \in DOMAIN pending, AdmitNew(w) \/ AdmitReclaiming(w)
      PROVE  OrderInv'
  <2> DEFINE s == pending[w].source
             now == pending[w].now
  <2>1. /\ s \notin DOMAIN entries /\ s \in DOMAIN entries' /\ Answer(w)
        /\ entries'[s] = now + interval
        /\ \A x \in DOMAIN entries' \ {s} :
             x \in DOMAIN entries /\ entries'[x] = entries[x]
        /\ due' = [due EXCEPT ![s] = Later(@, now) + interval]
    BY <1>6, InsertEffect DEF Grant
  <2>2. Alone
    BY <1>2, <2>1
  <2>3. s \in Sources /\ now \in Nat /\ now <= clock
    BY PendingCall DEF Inv
  <2>4. due[s] <= now
    BY <2>1, <2>3 DEF OrderInv
  <2> HIDE DEF s, now
  <2>5. due'[s] = now + interval
    BY <1>1, <2>1, <2>3, <2>4 DEF Later
  <2>6. \A x \in Sources \ {s} : due'[x] = due[x]
    BY <1>1, <2>1
  <2>7. \A x \in DOMAIN entries' : due'[x] = entries'[x]
    BY <1>1, <2>1, <2>5, <2>6 DEF OrderInv
  <2>8. \A x \in DOMAIN entries \ DOMAIN entries' : entries[x] <= clock
    <3> SUFFICES ASSUME NEW x \in DOMAIN entries \ DOMAIN entries'
                 PROVE  entries[x] <= clock
      OBVIOUS
    <3>1. PICK v \in DOMAIN pending : AdmitReclaiming(v) /\ x = Oldest
      BY OnlyOldestLeaves
    <3>2. entries[x] \in Nat /\ pending[v].now \in Nat /\ pending[v].now <= clock
      BY <1>1, PendingCall DEF Inv
    <3> QED  BY <1>1, <3>1, <3>2 DEF AdmitReclaiming, Active
  <2>9. \A x \in Sources \ DOMAIN entries' : due'[x] <= clock'
    <3>1. \A x \in Sources \ DOMAIN entries' :
            x # s /\ (x \in DOMAIN entries => due[x] = entries[x])
      BY <2>1 DEF OrderInv
    <3> QED  BY <1>1, <2>2, <2>6, <2>8, <3>1 DEF OrderInv
  <2> QED  BY <2>2, <2>7, <2>9 DEF OrderInv
<1>7. ASSUME NEW w \in DOMAIN pending, Deny(w) \/ RefuseNewSource(w)
      PROVE  OrderInv'
  <2>1. UNCHANGED <<entries, due>> /\ Answer(w)
    BY <1>7 DEF Deny, RefuseNewSource, Promise, table
  <2>2. Alone
    BY <1>2, <2>1
  <2> QED  BY <1>1, <2>1, <2>2 DEF OrderInv
<1>8. CASE UNCHANGED vars
  BY <1>8 DEF vars, table, history, OrderInv
<1> QED  BY <1>3, <1>4, <1>5, <1>6, <1>7, <1>8 DEF Next, Locked

(* An in-order admission is one that the source's own everlasting bucket   *)
(* allows.                                                                 *)
LEMMA AdmissionIsDue ==
  ASSUME Inv, OrderInv, NEW w \in DOMAIN pending,
         AdmitResident(w) \/ AdmitNew(w) \/ AdmitReclaiming(w)
  PROVE  /\ pending[w].now >= due[pending[w].source] - burstTolerance
         /\ Grant(pending[w].source, pending[w].now)
         /\ clock' = clock
<1> DEFINE s == pending[w].source
           now == pending[w].now
<1>1. s \in Sources /\ now \in Nat /\ due[s] \in Nat
  BY PendingCall DEF Inv, TypeOK
<1>2. CASE AdmitResident(w)
  BY <1>2 DEF AdmitResident, AllowAt, OrderInv, Answer
<1>3. CASE AdmitNew(w) \/ AdmitReclaiming(w)
  <2>1. s \notin DOMAIN entries /\ Grant(s, now) /\ Answer(w)
    BY <1>3, InsertEffect
  <2>2. due[s] <= now
    BY <1>1, <2>1 DEF OrderInv
  <2> QED  BY <1>1, <2>1, <2>2, BucketArithmetic DEF Answer
<1> QED  BY <1>2, <1>3

(* The bounded, evicting limiter implements a limiter that keeps a bucket  *)
(* for every source for ever.                                              *)
THEOREM LimiterImplementsBuckets ==
  ASSUME \A v, w \in Workers : v = w
  PROVE  Spec => ImplementsBuckets
<1>1. Init => Buckets!Init
  BY DEF Init, Buckets!Init
<1>2. Init => OrderInv
  BY DEF Init, OrderInv
<1>3. Inv /\ OrderInv /\ [Next]_vars => OrderInv'
  BY OrderStep
<1>4. Inv /\ OrderInv /\ [Next]_vars => [Buckets!Next]_(Buckets!buckets)
  <2> SUFFICES ASSUME Inv, OrderInv, [Next]_vars
               PROVE  Buckets!Next \/ UNCHANGED <<clock, due, admitted>>
    BY DEF Buckets!buckets
  <2>1. CASE Tick
    BY <2>1 DEF Tick, history, Buckets!Next, Buckets!Advance
  <2>2. ASSUME NEW w \in DOMAIN pending,
               AdmitResident(w) \/ AdmitNew(w) \/ AdmitReclaiming(w)
        PROVE  Buckets!Next
    <3>1. Buckets!Admit(pending[w].source, pending[w].now)
      BY <2>2, AdmissionIsDue
      DEF Grant, Later, Buckets!Admit, Buckets!Settled
    <3>2. pending[w].source \in Sources /\ pending[w].now \in 0..clock
      BY PendingCall DEF Inv
    <3> QED  BY <3>1, <3>2 DEF Buckets!Next
  <2>3. ASSUME NEW w \in DOMAIN pending, Deny(w) \/ RefuseNewSource(w)
        PROVE  UNCHANGED <<clock, due, admitted>>
    BY <2>3 DEF Deny, RefuseNewSource, Promise, Answer
  <2>4. CASE (\E w \in Workers, x \in Sources : ReadClock(w, x)) \/ UNCHANGED vars
    BY <2>4 DEF ReadClock, vars, history
  <2> QED  BY <2>1, <2>2, <2>3, <2>4 DEF Next, Locked
<1> QED
  BY <1>1, <1>2, <1>3, <1>4, Invariance, PTL
  DEF Spec, ImplementsBuckets, Buckets!Spec

(* "Its burst capacity is equal to the configured per-second rate": taken  *)
(* in order, all admissions of a source conform to the GCRA, the bound on  *)
(* the table and its evictions notwithstanding.                            *)
THEOREM InOrderAdmissionsConform ==
  ASSUME \A v, w \in Workers : v = w
  PROVE  Spec => []ConformingAlways
<1> DEFINE AllPaid == \A s \in Sources :
                        Paid(admitted[s], 0, due[s]) /\ Spaced(admitted[s], 0)
<1>1. Init => OrderInv /\ AllPaid
  BY DEF Init, OrderInv, Paid, Spaced
<1>2. Inv /\ OrderInv /\ [Next]_vars => OrderInv'
  BY OrderStep
<1>3. Inv /\ OrderInv /\ AllPaid /\ [Next]_vars => AllPaid'
  <2> SUFFICES ASSUME Inv, OrderInv, AllPaid, [Next]_vars, NEW s \in Sources
               PROVE  Paid(admitted'[s], 0, due'[s]) /\ Spaced(admitted'[s], 0)
    BY DEF Paid, Spaced
  <2>1. CASE UNCHANGED <<admitted, due>>
    BY <2>1
  <2>2. ASSUME NEW w \in DOMAIN pending,
               AdmitResident(w) \/ AdmitNew(w) \/ AdmitReclaiming(w)
        PROVE  Paid(admitted'[s], 0, due'[s]) /\ Spaced(admitted'[s], 0)
    <3> DEFINE now == pending[w].now
    <3>1. now \in Nat /\ due[s] \in Nat /\ admitted[s] \in Seq(Nat)
      BY PendingCall DEF Inv, TypeOK
    <3>2. CASE pending[w].source = s
      <4> DEFINE e == Later(due[s], now) + interval
      <4>1. now >= due[s] - burstTolerance /\ Grant(s, now)
        BY <2>2, <3>2, AdmissionIsDue
      <4>2. admitted'[s] = Append(admitted[s], now) /\ due'[s] = e
        BY <4>1 DEF Grant, Inv, TypeOK
      <4>3. e \in Nat /\ e >= due[s] + interval /\ e >= now + interval
        BY <3>1, BucketArithmetic DEF Later
      <4> HIDE DEF e, now
      <4> QED  BY <3>1, <4>1, <4>2, <4>3, AdmissionKeepsSpacing
    <3>3. CASE pending[w].source # s
      <4>1. Grant(pending[w].source, now)
        BY <2>2, AdmissionIsDue
      <4>2. admitted'[s] = admitted[s] /\ due'[s] = due[s]
        BY <3>3, <4>1 DEF Grant, Inv, TypeOK
      <4> QED  BY <4>2
    <3> QED  BY <3>2, <3>3
  <2>3. ASSUME NEW w \in DOMAIN pending, Deny(w) \/ RefuseNewSource(w)
        PROVE  UNCHANGED <<admitted, due>>
    BY <2>3 DEF Deny, RefuseNewSource, Promise
  <2> QED
    BY <2>1, <2>2, <2>3 DEF Next, Tick, ReadClock, Locked, vars, history
<1>4. AllPaid => ConformingAlways
  BY DEF Spaced, ConformingAlways, Conforming
<1> HIDE DEF AllPaid
<1> QED  BY <1>1, <1>2, <1>3, <1>4, Invariance, PTL DEF Spec

(* --------------------------- the gate in front ------------------------- *)

(* The header a trusted proxy passes on ends in what the proxy wrote.      *)
LEMMA ForwardedEndsInClient ==
  ASSUME NEW lines \in Headers, NEW e \in Written, NEW given \in Forwarded(lines, e)
  PROVE  /\ given # <<>>
         /\ given[Len(given)][Len(given[Len(given)])] = e
<1> DEFINE Line == Seq(Written) \ {<<>>}
<1>1. lines \in Seq(Line)
  BY DEF Headers
<1>2. CASE given = Append(lines, <<e>>)
  <2>1. /\ Len(given) = Len(lines) + 1
        /\ given[Len(given)] = <<e>>
    BY <1>1, <1>2
  <2> QED  BY <1>1, <1>2, <2>1
<1>3. CASE lines # <<>> /\ given = [lines EXCEPT ![Len(lines)] = Append(@, e)]
  <2> DEFINE last == lines[Len(lines)]
  <2>1. Len(lines) \in 1..Len(lines) /\ last \in Line
    BY <1>1, <1>3
  <2>2. /\ Append(last, e) \in Seq(Written)
        /\ Len(Append(last, e)) = Len(last) + 1
        /\ Append(last, e)[Len(last) + 1] = e
    BY <2>1
  <2>3. /\ Len(given) = Len(lines)
        /\ given[Len(lines)] = Append(last, e)
    BY <1>1, <1>3, <2>1
  <2>4. given # <<>>
    BY <2>1, <2>3
  <2> QED  BY <2>2, <2>3, <2>4
<1> QED  BY <1>2, <1>3 DEF Forwarded

(* requestSourceIP finds a client behind any proxy, under any header.      *)
LEMMA ClientsAreFound ==
  ASSUME NEW h \in Sources
  PROVE  \A source \in Attributions[h] : source = {h}
<1>1. h \notin TrustedProxies /\ Supplied \subseteq Headers
  BY GateAssumption
<1>2. \A lines : requestSourceIP(h, lines) = {h}
  BY <1>1 DEF requestSourceIP
<1>3. ASSUME NEW p \in TrustedProxies, NEW given \in Supplied,
             NEW e \in ClientElements(h), NEW lines \in Forwarded(given, e)
      PROVE  requestSourceIP(p, lines) = {h}
  <2>1. e \in Written /\ forwardedIP(e) = {h}
    BY DEF ClientElements, Written, Forms, forwardedIP
  <2>2. lines # <<>> /\ lines[Len(lines)][Len(lines[Len(lines)])] = e
    BY <1>1, <2>1, ForwardedEndsInClient
  <2> QED  BY <2>1, <2>2 DEF requestSourceIP
<1>4. Attributions[h] = Attributed(h)
  BY DEF Attributions
<1> QED  BY <1>1, <1>2, <1>3, <1>4 DEF Attributed

(* A trusted proxy's own requests are never attributed.                    *)
LEMMA ProxiesAreNotFound ==
  ASSUME NEW h \in TrustedProxies
  PROVE  \A source \in Attributions[h] : source = {}
<1>1. \A lines \in OwnHeaders(h) : requestSourceIP(h, lines) = {}
  <2> SUFFICES ASSUME NEW e \in [host : {h}, form : {"blank", "unparsable"}]
               PROVE  requestSourceIP(h, <<<<e>>>>) = {}
    BY DEF OwnHeaders, requestSourceIP
  <2>1. e.form \in {"blank", "unparsable"}
    OBVIOUS
  <2>2. forwardedIP(e) = {}
    BY <2>1 DEF forwardedIP
  <2>3. Len(<<<<e>>>>) = 1 /\ <<<<e>>>> # <<>> /\ <<<<e>>>>[1] = <<e>>
        /\ Len(<<e>>) = 1 /\ <<e>>[1] = e
    OBVIOUS
  <2> QED  BY <2>2, <2>3 DEF requestSourceIP
<1>2. Attributions[h] = Attributed(h)
  BY DEF Attributions
<1> QED  BY <1>1, <1>2 DEF Attributed

(* So an attributed request is a client's, and its source is that client.  *)
LEMMA AttributedToSender ==
  ASSUME NEW w \in Workers, NEW h \in Sources \cup TrustedProxies, Attribute(w, h)
  PROVE  h \in Sources /\ ReadClock(w, h)
<1>1. PICK source \in Attributions[h] : \E s \in source : ReadClock(w, s)
  BY DEF Attribute
<1> QED  BY <1>1, ClientsAreFound, ProxiesAreNotFound

(* Every step of the gate is a step of the limiter or leaves it alone.     *)
LEMMA GateStep == [GateNext]_gateVars => [Next]_vars
<1> SUFFICES ASSUME [GateNext]_gateVars PROVE [Next]_vars
  OBVIOUS
<1>1. ASSUME NEW w \in Workers, NEW h \in Sources \cup TrustedProxies, Attribute(w, h)
      PROVE  Next
  BY <1>1, AttributedToSender DEF Next
<1>2. ASSUME NEW w \in DOMAIN pending, LetThrough(w) \/ TooManyRequests(w)
      PROVE  Next
  BY <1>2 DEF LetThrough, TooManyRequests, Locked, Next
<1> QED  BY <1>1, <1>2 DEF GateNext, GateTick, FailAttribution, Next, gateVars

(* The gate only ever uses the limiter as its specification says: every    *)
(* theorem about Spec holds behind limitLookups.                           *)
THEOREM GateUsesLimiter == GateSpec => Spec
<1>1. GateInit => Init
  BY DEF GateInit
<1> QED  BY <1>1, GateStep, PTL DEF GateSpec, Spec

SenderInv == SourceIsSender /\ DOMAIN sender = DOMAIN pending

(* Every call is charged to the host that made it, whatever proxies and    *)
(* headers it came by, and no client is ever unattributable.               *)
THEOREM CallsAreChargedToTheirSender == GateSpec => []SourceIsSender
<1>1. GateInit => SenderInv
  BY DEF GateInit, Init, SenderInv, SourceIsSender
<1>2. SenderInv /\ [GateNext]_gateVars => SenderInv'
  <2> SUFFICES ASSUME SenderInv, [GateNext]_gateVars PROVE SenderInv'
    OBVIOUS
  <2>1. CASE GateTick
    BY <2>1 DEF GateTick, Tick, gateHistory, SenderInv, SourceIsSender
  <2>2. ASSUME NEW w \in Workers, NEW h \in Sources \cup TrustedProxies, Attribute(w, h)
        PROVE  SenderInv'
    <3>1. /\ pending' = Bind(pending, w, [source |-> h, now |-> clock])
          /\ sender' = Bind(sender, w, h)
          /\ failed' = failed
      BY <2>2, AttributedToSender DEF Attribute, ReadClock
    <3> QED  BY <3>1 DEF Bind, SenderInv, SourceIsSender
  <2>3. ASSUME NEW h \in Sources \cup TrustedProxies, FailAttribution(h)
        PROVE  SenderInv'
    <3>1. h \notin Sources
      BY <2>3, ClientsAreFound DEF FailAttribution
    <3> QED  BY <2>3, <3>1 DEF FailAttribution, vars, SenderInv, SourceIsSender
  <2>4. ASSUME NEW w \in DOMAIN pending, LetThrough(w) \/ TooManyRequests(w)
        PROVE  SenderInv'
    <3>1. /\ pending' = Unbind(pending, w)
          /\ sender' = Unbind(sender, w)
          /\ failed' = failed
      BY <2>4 DEF LetThrough, TooManyRequests, AdmitResident, AdmitNew,
         AdmitReclaiming, Deny, RefuseNewSource, Answer
    <3> QED  BY <3>1 DEF Unbind, SenderInv, SourceIsSender
  <2>5. CASE UNCHANGED gateVars
    BY <2>5 DEF gateVars, gateHistory, vars, SenderInv, SourceIsSender
  <2> QED  BY <2>1, <2>2, <2>3, <2>4, <2>5 DEF GateNext
<1> QED  BY <1>1, <1>2, PTL DEF GateSpec, SenderInv

(* Rate intervals fit into one second, interval being a truncated quotient.*)
LEMMA BurstFitsSecond == Rate * interval <= Second
<1>1. \A a \in Nat, b \in Nat \ {0} : b * (a \div b) <= a
  OBVIOUS
<1> QED  BY <1>1, LimiterAssumption DEF interval

(* The announced wait is a whole second at least.                          *)
LEMMA WaitIsSeconds ==
  ASSUME NEW duration \in Int
  PROVE  /\ retryAfterSeconds(duration) * Second \in Nat
         /\ retryAfterSeconds(duration) * Second >= Second
<1>1. Second \in Nat \ {0}
  BY LimiterAssumption
<1>2. retryAfterSeconds(duration) \in Nat /\ retryAfterSeconds(duration) >= 1
  BY <1>1 DEF retryAfterSeconds, Later
<1>3. \A k \in Nat, x \in Nat : k >= 1 => k * x \in Nat /\ k * x >= x
  OBVIOUS
<1> QED  BY <1>1, <1>2, <1>3

Since(s) == Len(admitted[s]) - told[s].before

(* The strengthening: no bucket runs further than Rate intervals ahead of  *)
(* the call under way, and since a source was told to return at some       *)
(* instant, its bucket has moved past that instant, or past the present,   *)
(* by one interval for each admission.                                     *)
Ahead(s, t) ==
  told[s] # NotTold => entries[s] <= Later(told[s].until, t) + Since(s) * interval

WaitInv ==
  /\ told \in [Sources -> [until : Nat, before : Nat]]
  /\ \A s \in Sources : told[s].before <= Len(admitted[s])
  /\ \A s \in DOMAIN entries :
       /\ Ahead(s, clock)
       /\ \A w \in DOMAIN pending : Ahead(s, pending[w].now)
                                    /\ entries[s] <= pending[w].now + Rate * interval

LEMMA WaitStep ==
  ASSUME \A v, w \in Workers : v = w
  PROVE  Inv /\ LockoutBounded /\ WaitInv /\ [GateNext]_gateVars => WaitInv'
<1> SUFFICES ASSUME Inv, LockoutBounded, WaitInv, [GateNext]_gateVars
             PROVE  WaitInv'
  OBVIOUS
<1> DEFINE Alone == DOMAIN pending' = {} /\ clock' = clock
<1>1. /\ clock \in Nat
      /\ entries \in [DOMAIN entries -> Nat] /\ DOMAIN entries \subseteq Sources
      /\ admitted \in [Sources -> Seq(Nat)]
      /\ \A s \in Sources : Since(s) \in Nat /\ Since(s) * interval \in Nat
      /\ interval \in Nat /\ Rate * interval \in Nat
  <2>1. /\ clock \in Nat
        /\ entries \in [DOMAIN entries -> Nat] /\ DOMAIN entries \subseteq Sources
        /\ admitted \in [Sources -> Seq(Nat)]
    BY LimiterAssumption DEF Inv, TypeOK
  <2>2. \A s \in Sources : Since(s) \in Nat
    BY <2>1 DEF WaitInv, Since
  <2> QED  BY <2>1, <2>2, BucketArithmetic, OneIntervalMore
<1>2. ASSUME NEW w \in DOMAIN pending, Answer(w) PROVE Alone
  <2>1. \A v \in DOMAIN pending : v = w
    BY DEF Inv, TypeOK
  <2> QED  BY <1>2, <2>1 DEF Answer, Unbind
<1>3. CASE GateTick
  <2>1. clock' = clock + 1 /\ UNCHANGED <<entries, pending, admitted, told>>
    BY <1>3 DEF GateTick, Tick, table, history, gateHistory
  <2>2. \A s \in DOMAIN entries : Ahead(s, clock) => Ahead(s, clock + 1)
    BY <1>1 DEF WaitInv, Ahead, Later
  <2> QED  BY <2>1, <2>2 DEF WaitInv, Ahead, Since
<1>4. ASSUME NEW w \in Workers, NEW h \in Sources \cup TrustedProxies, Attribute(w, h)
      PROVE  WaitInv'
  <2>1. /\ UNCHANGED <<clock, entries, admitted, told>>
        /\ pending' = Bind(pending, w, [source |-> h, now |-> clock])
    BY <1>4, AttributedToSender DEF Attribute, ReadClock, table, history
  <2>2. \A v \in DOMAIN pending' :
          pending'[v].now = clock \/ (v \in DOMAIN pending /\ pending'[v] = pending[v])
    BY <2>1 DEF Bind
  <2> QED  BY <1>1, <2>1, <2>2 DEF WaitInv, Ahead, Since, LockoutBounded
<1>5. ASSUME NEW w \in DOMAIN pending, LetThrough(w) PROVE WaitInv'
  <2>1. PICK s \in Sources, now \in Nat :
          s = pending[w].source /\ now = pending[w].now /\ now <= clock
    BY PendingCall DEF Inv
  <2>2. /\ Grant(s, now) /\ Answer(w)
        /\ s \in DOMAIN entries'
        /\ \A x \in DOMAIN entries' \ {s} :
             x \in DOMAIN entries /\ entries'[x] = entries[x]
        /\ \/ entries'[s] = now + interval
           \/ s \in DOMAIN entries /\ entries'[s] = Later(entries[s], now) + interval
    <3>1. CASE AdmitResident(w)
      BY <1>1, <2>1, <3>1 DEF AdmitResident, Charged
    <3>2. CASE AdmitNew(w) \/ AdmitReclaiming(w)
      BY <2>1, <3>2, InsertEffect
    <3> QED  BY <1>5, <3>1, <3>2 DEF LetThrough
  <2>3. Alone /\ told' = told
    BY <1>2, <1>5, <2>2 DEF LetThrough
  <2>4. WaitInv /\ (s \in DOMAIN entries => Ahead(s, now))
    BY <2>1 DEF WaitInv
  <2>5. admitted' = [admitted EXCEPT ![s] = Append(@, now)]
    BY <2>2 DEF Grant
  <2>6. /\ Len(admitted'[s]) = Len(admitted[s]) + 1
        /\ \A x \in Sources \ {s} : admitted'[x] = admitted[x]
    BY <1>1, <2>1, <2>5
  <2>7. Since(s)' = Since(s) + 1 /\ Since(s)' * interval = Since(s) * interval + interval
    <3>1. Since(s)' = Since(s) + 1
      <4>1. told[s].before \in Nat /\ Len(admitted[s]) \in Nat
        BY <1>1, <2>1 DEF WaitInv
      <4>2. told'[s].before = told[s].before
        BY <2>3
      <4>3. Len(admitted'[s]) - told'[s].before = Len(admitted[s]) - told[s].before + 1
        BY <2>6, <4>1, <4>2
      <4> QED  BY <4>3 DEF Since
    <3> QED  BY <1>1, <2>1, <3>1, OneIntervalMore
  <2>8. \A x \in Sources : told'[x].before <= Len(admitted'[x])
    <3> SUFFICES ASSUME NEW x \in Sources PROVE told[x].before <= Len(admitted'[x])
      BY <2>3
    <3>1. /\ told[x].before \in Nat /\ Len(admitted[x]) \in Nat
          /\ told[x].before <= Len(admitted[x])
      BY <1>1, <2>4 DEF WaitInv
    <3>2. Len(admitted'[x]) \in {Len(admitted[x]), Len(admitted[x]) + 1}
      BY <2>6
    <3> QED  BY <3>1, <3>2
  <2>9. Ahead(s, clock)'
    <3> SUFFICES ASSUME told[s] # NotTold
                 PROVE  entries'[s] <= Later(told[s].until, clock) + Since(s)' * interval
      BY <2>3 DEF Ahead
    <3>1. told[s].until \in Nat
      BY <2>1, <2>4 DEF WaitInv
    <3>2. s \in DOMAIN entries =>
            entries[s] \in Nat
            /\ entries[s] <= Later(told[s].until, now) + Since(s) * interval
      BY <1>1, <2>4 DEF Ahead
    <3>3. \A e, n, t, u, k, i \in Nat :
            n <= t => /\ n + i <= Later(u, t) + (k + i)
                      /\ e <= Later(u, n) + k
                           => Later(e, n) + i <= Later(u, t) + (k + i)
      BY DEF Later
    <3>4. PICK k, i, t, u \in Nat :
            /\ k = Since(s) * interval /\ i = interval
            /\ t = clock /\ u = told[s].until
      BY <1>1, <3>1
    <3>5. CASE entries'[s] = now + interval
      <4>1. now + i <= Later(u, t) + (k + i)
        BY <2>1, <3>3, <3>4
      <4> QED  BY <2>7, <3>4, <3>5, <4>1
    <3>6. CASE s \in DOMAIN entries /\ entries'[s] = Later(entries[s], now) + interval
      <4>1. Later(entries[s], now) + i <= Later(u, t) + (k + i)
        BY <2>1, <3>2, <3>3, <3>4, <3>6
      <4> QED  BY <2>7, <3>4, <3>6, <4>1
    <3> QED  BY <2>2, <3>5, <3>6
  <2>10. \A x \in DOMAIN entries' \ {s} : Ahead(x, clock)'
    BY <1>1, <2>2, <2>3, <2>4, <2>6 DEF WaitInv, Ahead, Since
  <2> QED  BY <2>3, <2>4, <2>8, <2>9, <2>10 DEF WaitInv
<1>6. ASSUME NEW w \in DOMAIN pending, TooManyRequests(w) PROVE WaitInv'
  <2>1. PICK s \in Sources, now \in Nat :
          s = pending[w].source /\ now = pending[w].now /\ now <= clock
    BY PendingCall DEF Inv
  <2>4. retryAt' \in [Sources -> Nat]
    BY <1>6, NextInv DEF TooManyRequests, Next, Locked, Inv, TypeOK
  <2>5. PICK until \in Nat :
          /\ until = now + retryAfterSeconds(retryAt'[s] - now) * Second
          /\ until >= now + Second
    <3>1. retryAt'[s] - now \in Int
      BY <2>1, <2>4
    <3> QED  BY <3>1, WaitIsSeconds, LimiterAssumption
  <2>2. /\ UNCHANGED <<entries, admitted>> /\ Answer(w)
        /\ told' = [told EXCEPT ![s] = [until |-> until, before |-> Len(admitted[s])]]
    BY <1>6, <2>1, <2>5 DEF TooManyRequests, Deny, RefuseNewSource, table, Promise
  <2>3. Alone
    BY <1>2, <2>2
  <2>6. /\ \A x \in DOMAIN entries : Ahead(x, clock)
        /\ s \in DOMAIN entries => entries[s] <= now + Rate * interval
        /\ told \in [Sources -> [until : Nat, before : Nat]]
        /\ \A x \in Sources : told[x].before <= Len(admitted[x])
    BY <2>1 DEF WaitInv
  <2>7. told' \in [Sources -> [until : Nat, before : Nat]]
        /\ \A x \in Sources : told'[x].before <= Len(admitted'[x])
    BY <1>1, <2>1, <2>2, <2>5, <2>6
  <2>8. s \in DOMAIN entries => Ahead(s, clock)'
    <3> SUFFICES ASSUME s \in DOMAIN entries PROVE Ahead(s, clock)'
      OBVIOUS
    <3>1. told'[s].until = until /\ Since(s)' = 0
      BY <1>1, <2>1, <2>2, <2>6 DEF Since
    <3>2. entries[s] <= until
      <4>1. \A e, n, u, sec, b \in Nat : e <= n + b /\ b <= sec /\ u >= n + sec => e <= u
        OBVIOUS
      <4>2. entries[s] \in Nat /\ entries[s] <= now + Rate * interval
        BY <1>1, <2>6
      <4> QED  BY <1>1, <2>5, <4>1, <4>2, BurstFitsSecond, LimiterAssumption
    <3> QED  BY <1>1, <2>2, <2>3, <2>5, <3>1, <3>2 DEF Ahead, Later
  <2>9. \A x \in DOMAIN entries \ {s} : Ahead(x, clock)'
    BY <1>1, <2>2, <2>3, <2>6 DEF Ahead, Since
  <2> QED  BY <2>2, <2>3, <2>7, <2>8, <2>9 DEF WaitInv
<1>7. CASE UNCHANGED <<clock, entries, pending, admitted, told>>
  BY <1>7 DEF WaitInv, Ahead, Since
<1> QED
  BY <1>3, <1>4, <1>5, <1>6, <1>7
  DEF GateNext, FailAttribution, gateVars, gateHistory, vars, table, history

(* A source that stays away for the announced seconds has its whole burst  *)
(* back, for any rate, as long as calls are answered one at a time.        *)
THEOREM WaitRestoresBurst ==
  ASSUME \A v, w \in Workers : v = w
  PROVE  GateSpec => BurstAfterWait
<1>1. GateInit => WaitInv
  BY DEF GateInit, Init, WaitInv, NotTold
<1>2. ASSUME Inv, LockoutBounded, WaitInv, [GateNext]_gateVars,
             NEW s \in DOMAIN entries,
             NEW w \in DOMAIN pending \ DOMAIN pending', pending[w].source = s,
             admitted'[s] = admitted[s], told[s] # NotTold,
             pending[w].now >= told[s].until
      PROVE  Len(admitted[s]) - told[s].before >= Rate
  <2>1. Deny(w)
    <3>1. PICK v \in DOMAIN pending : LetThrough(v) \/ TooManyRequests(v)
      <4>1. ~(DOMAIN pending \subseteq DOMAIN pending')
        BY <1>2
      <4>2. ASSUME NEW v \in Workers, NEW h \in Sources \cup TrustedProxies,
                   Attribute(v, h)
            PROVE  DOMAIN pending \subseteq DOMAIN pending'
        BY <4>2, AttributedToSender DEF ReadClock, Bind
      <4>3. GateTick \/ (\E h \in Sources \cup TrustedProxies : FailAttribution(h))
              \/ UNCHANGED gateVars => pending' = pending
        BY DEF GateTick, Tick, FailAttribution, gateVars, vars
      <4> QED  BY <1>2, <4>1, <4>2, <4>3 DEF GateNext
    <3>2. pending' = Unbind(pending, v)
      BY <3>1 DEF LetThrough, TooManyRequests, AdmitResident, AdmitNew,
         AdmitReclaiming, Deny, RefuseNewSource, Answer
    <3>3. v = w
      BY <1>2, <3>2 DEF Unbind
    <3>4. ~LetThrough(w)
      <4> SUFFICES ASSUME LetThrough(w) PROVE FALSE
        OBVIOUS
      <4>1. Grant(s, pending[w].now)
        BY <1>2, InsertEffect DEF LetThrough, AdmitResident
      <4>2. admitted[s] \in Seq(Nat) /\ s \in Sources /\ pending[w].now \in Nat
            /\ admitted \in [Sources -> Seq(Nat)]
        BY <1>2, PendingCall DEF Inv, TypeOK
      <4>3. Len(admitted'[s]) = Len(admitted[s]) + 1
        BY <4>1, <4>2 DEF Grant
      <4> QED  BY <1>2, <4>2, <4>3
    <3> QED  BY <1>2, <3>1, <3>3, <3>4 DEF TooManyRequests, RefuseNewSource
  <2>2. /\ pending[w].now < entries[s] - burstTolerance
        /\ entries[s] <= Later(told[s].until, pending[w].now) + Since(s) * interval
    BY <1>2, <2>1 DEF Deny, AllowAt, WaitInv, Ahead
  <2>3. /\ pending[w].now \in Nat /\ told[s].until \in Nat /\ entries[s] \in Nat
        /\ Since(s) \in Nat
    BY <1>2, PendingCall DEF Inv, TypeOK, WaitInv, Since
  <2>4. (Rate - 1) * interval < Since(s) * interval
    <3>1. Since(s) * interval \in Nat /\ burstTolerance \in Nat
      BY <2>3, BucketArithmetic, OneIntervalMore
    <3>2. burstTolerance < Since(s) * interval
      BY <1>2, <2>2, <2>3, <3>1 DEF Later
    <3> QED  BY <3>2 DEF burstTolerance
  <2>5. \A j, k, x \in Nat : j * x < k * x => j < k
    OBVIOUS
  <2>6. Rate - 1 < Since(s)
    BY <2>3, <2>4, <2>5, BucketArithmetic, LimiterAssumption
  <2> QED  BY <2>3, <2>6, LimiterAssumption DEF Since
<1> DEFINE Restored ==
      \A s \in DOMAIN entries : \A w \in DOMAIN pending \ DOMAIN pending' :
        /\ pending[w].source = s
        /\ admitted'[s] = admitted[s]
        /\ told[s] # NotTold
        /\ pending[w].now >= told[s].until
        => Len(admitted[s]) - told[s].before >= Rate
<1>3. Inv /\ LockoutBounded /\ WaitInv /\ [GateNext]_gateVars => [Restored]_gateVars
  BY <1>2
<1>4. Inv /\ LockoutBounded /\ WaitInv /\ [GateNext]_gateVars => WaitInv'
  BY WaitStep
<1> QED
  BY <1>1, <1>3, <1>4, GateUsesLimiter, Invariance, LockoutIsBounded, PTL
  DEF GateSpec, BurstAfterWait

============================================================================
