------------------------- MODULE AccountCache_proof -------------------------
(***************************************************************************)
(* Proofs about the account cache, for any keys, any number of goroutines, *)
(* any lifetimes and any bound on the number of entries.                   *)
(***************************************************************************)
EXTENDS AccountCacheKeys, ListTheorems, FiniteSetTheorems

(* An entry expires when its kind does, counted from its stamp.            *)
StampedRight(entry) == entry.expiresAt = entry.stampedAt + Ttl(entry.result)

EntriesStamped == \A key \in DOMAIN entries : StampedRight(entries[key])

(* The inductive invariant: the types, the map and the list in step and    *)
(* the list in order of use, a finite table, and each stored or pending    *)
(* entry with the expiry its own stamp and kind give it.                   *)
Inv ==
  /\ TypeOK
  /\ CacheCoherent
  /\ RecencyIsOrderOfUse
  /\ IsFiniteSet(DOMAIN entries)
  /\ EntriesStamped
  /\ \A w \in DOMAIN putting : StampedRight(putting[w].entry)

LEMMA TtlType == \A result : Ttl(result) \in Nat
  BY CacheAssumption DEF Ttl

LEMMA BindProperties ==
  ASSUME NEW f, NEW x, NEW v
  PROVE  /\ DOMAIN Bind(f, x, v) = DOMAIN f \cup {x}
         /\ \A y \in DOMAIN f \cup {x} : Bind(f, x, v)[y] = IF y = x THEN v ELSE f[y]
         /\ \A T : f \in [DOMAIN f -> T] /\ v \in T
               => Bind(f, x, v) \in [DOMAIN Bind(f, x, v) -> T]
  BY DEF Bind

LEMMA UnbindProperties ==
  ASSUME NEW f, NEW x
  PROVE  /\ DOMAIN Unbind(f, x) = DOMAIN f \ {x}
         /\ \A y \in DOMAIN f \ {x} : Unbind(f, x)[y] = f[y]
         /\ \A T : f \in [DOMAIN f -> T]
               => Unbind(f, x) \in [DOMAIN Unbind(f, x) -> T]
  BY DEF Unbind

(* A full cache has a least recently used key, which is resident.          *)
LEMMA VictimResident ==
  ASSUME Inv, Full
  PROVE  Victim \in DOMAIN entries
<1>1. DOMAIN entries # {}
  <2>1. Cardinality({}) = 0
    BY FS_EmptySet
  <2> QED  BY <2>1, CacheAssumption DEF Full
<1>2. recency \in Seq(Keys) /\ Enlists(recency, DOMAIN entries)
  BY DEF Inv, TypeOK, CacheCoherent
<1> QED  BY <1>1, <1>2, BackListed DEF Victim

LEMMA InitInv == CacheInit => Inv
<1> SUFFICES ASSUME CacheInit PROVE Inv
  OBVIOUS
<1>1. DOMAIN entries = {} /\ recency = <<>> /\ DOMAIN putting = {}
  BY DEF CacheInit
<1>2. TypeOK
  BY CacheAssumption, <1>1 DEF CacheInit, TypeOK
<1>3. IsFiniteSet(DOMAIN entries) /\ Cardinality(DOMAIN entries) = 0
  BY <1>1, FS_EmptySet
<1>4. Enlists(recency, DOMAIN entries) /\ Ordered(recency, newer)
  BY <1>1 DEF Enlists, Ordered
<1> QED
  BY <1>1, <1>2, <1>3, <1>4, CacheAssumption
  DEF Inv, CacheCoherent, EntriesStamped, RecencyIsOrderOfUse

LEMMA TickInv == Inv /\ Tick => Inv'
<1> SUFFICES ASSUME Inv, Tick PROVE Inv'
  OBVIOUS
<1>1. /\ clock \in Nat /\ clock' = clock + 1 /\ clock' \in 0..MaxTime
      /\ UNCHANGED <<entries, recency, putting, newer>>
  BY CacheAssumption DEF Tick, Inv, TypeOK
<1>2. TypeOK'
  BY <1>1 DEF Inv, TypeOK
<1> QED
  BY <1>1, <1>2
  DEF Inv, CacheCoherent, RecencyIsOrderOfUse, EntriesStamped, StampedRight, Ttl

(* Using a key relates it to every other one and keeps the other pairs.    *)
LEMMA UsedProperties ==
  ASSUME NEW key \in Keys, newer \in SUBSET (Keys \X Keys), Used(key)
  PROVE  /\ newer' \in SUBSET (Keys \X Keys)
         /\ \A k \in Keys \ {key} : <<key, k>> \in newer'
         /\ \A k, l \in Keys : <<k, l>> \in newer /\ l # key => <<k, l>> \in newer'
  BY DEF Used

(* The list after a use of a key: whatever was listed before, in order,    *)
(* without the key itself, and the key in front.                           *)
LEMMA UsedListOrdered ==
  ASSUME NEW list \in Seq(Keys), NEW S \in SUBSET Keys, Enlists(list, S),
         Ordered(list, newer), NEW key \in Keys \ S,
         newer \in SUBSET (Keys \X Keys), Used(key)
  PROVE  /\ PushFront(list, key) \in Seq(Keys)
         /\ Enlists(PushFront(list, key), S \cup {key})
         /\ Ordered(PushFront(list, key), newer')
<1>1. /\ newer' \in SUBSET (Keys \X Keys)
      /\ \A k \in S : <<key, k>> \in newer'
      /\ \A k, l \in S : <<k, l>> \in newer => <<k, l>> \in newer'
  BY UsedProperties
<1>2. PushFront(list, key) \in Seq(Keys) /\ Enlists(PushFront(list, key), S \cup {key})
  BY PushFrontProperties, PushFrontEnlists
<1> QED  BY <1>1, <1>2, PushFrontOrdered

(* MoveToFront of a resident key.                                          *)
LEMMA TouchOrdered ==
  ASSUME Inv, NEW key \in DOMAIN entries, Used(key)
  PROVE  /\ MoveToFront(recency, key) \in Seq(Keys)
         /\ Enlists(MoveToFront(recency, key), DOMAIN entries)
         /\ Ordered(MoveToFront(recency, key), newer')
<1> DEFINE list == Unlink(recency, key)
           S == DOMAIN entries \ {key}
<1>1. /\ recency \in Seq(Keys) /\ Enlists(recency, DOMAIN entries)
      /\ Ordered(recency, newer) /\ newer \in SUBSET (Keys \X Keys)
      /\ DOMAIN entries \subseteq Keys
  BY DEF Inv, TypeOK, CacheCoherent, RecencyIsOrderOfUse
<1>2. list \in Seq(Keys) /\ Enlists(list, S)
  BY <1>1, UnlinkEnlists
<1>3. Ordered(list, newer)
  BY <1>1, UnlinkOrdered
<1>4. S \in SUBSET Keys /\ key \in Keys \ S /\ S \cup {key} = DOMAIN entries
  BY <1>1
<1> HIDE DEF list, S
<1>5. /\ PushFront(list, key) \in Seq(Keys)
      /\ Enlists(PushFront(list, key), S \cup {key})
      /\ Ordered(PushFront(list, key), newer')
  BY <1>1, <1>2, <1>3, <1>4, UsedListOrdered
<1> QED  BY <1>4, <1>5 DEF MoveToFront, list

LEMMA HitInv ==
  ASSUME Inv, NEW key \in Keys, Hit(key)
  PROVE  Inv'
<1>1. /\ key \in DOMAIN entries /\ recency' = MoveToFront(recency, key)
      /\ Used(key) /\ UNCHANGED <<clock, entries, putting>>
  BY DEF Hit
<1>2. recency' \in Seq(Keys) /\ Enlists(recency', DOMAIN entries') /\ Ordered(recency', newer')
  BY <1>1, TouchOrdered
<1>3. newer' \in SUBSET (Keys \X Keys)
  BY <1>1, UsedProperties DEF Inv, TypeOK
<1> QED
  BY <1>1, <1>2, <1>3
  DEF Inv, TypeOK, CacheCoherent, RecencyIsOrderOfUse, EntriesStamped, StampedRight, Ttl

LEMMA ExpireInv ==
  ASSUME Inv, NEW key \in Keys, Expire(key)
  PROVE  Inv'
<1>1. /\ key \in DOMAIN entries
      /\ entries' = Unbind(entries, key) /\ recency' = Unlink(recency, key)
      /\ UNCHANGED <<clock, putting, newer>>
  BY DEF Expire
<1>2. /\ recency \in Seq(Keys) /\ Enlists(recency, DOMAIN entries)
      /\ Ordered(recency, newer) /\ entries \in [DOMAIN entries -> Entry]
  BY DEF Inv, TypeOK, CacheCoherent, RecencyIsOrderOfUse
<1>3. /\ DOMAIN entries' = DOMAIN entries \ {key}
      /\ entries' \in [DOMAIN entries' -> Entry]
      /\ \A k \in DOMAIN entries' : entries'[k] = entries[k]
  BY <1>1, <1>2 DEF Unbind
<1>4. recency' \in Seq(Keys) /\ Enlists(recency', DOMAIN entries')
  BY <1>1, <1>2, <1>3, UnlinkEnlists
<1>5. Ordered(recency', newer')
  BY <1>1, <1>2, UnlinkOrdered
<1>6. /\ IsFiniteSet(DOMAIN entries')
      /\ Cardinality(DOMAIN entries') = Cardinality(DOMAIN entries) - 1
      /\ Cardinality(DOMAIN entries) \in Nat
  BY <1>1, <1>3, FS_RemoveElement, FS_CardinalityType DEF Inv
<1>7. TypeOK'
  BY <1>1, <1>3, <1>4 DEF Inv, TypeOK
<1>8. CacheCoherent'
  BY <1>4, <1>6, CacheAssumption DEF Inv, CacheCoherent
<1> QED
  BY <1>1, <1>3, <1>5, <1>6, <1>7, <1>8
  DEF Inv, RecencyIsOrderOfUse, EntriesStamped, StampedRight, Ttl

LEMMA StampInv ==
  ASSUME Inv, NEW w \in Workers, NEW key \in Keys, NEW result \in Results,
         Stamp(w, key, result)
  PROVE  Inv'
<1> DEFINE put == [key |-> key,
                   entry |-> [result |-> result, expiresAt |-> clock + Ttl(result),
                              stampedAt |-> clock]]
           T == [key : Keys, entry : Entry]
<1>1. putting' = Bind(putting, w, put) /\ UNCHANGED <<clock, entries, recency, newer>>
  BY DEF Stamp
<1>2. putting \in [DOMAIN putting -> T] /\ DOMAIN putting \subseteq Workers
  BY DEF Inv, TypeOK
<1>3. put \in T /\ StampedRight(put.entry)
  <2>1. clock + Ttl(result) \in Nat /\ clock \in Nat
    BY TtlType, CacheAssumption DEF Inv, TypeOK
  <2> QED  BY <2>1 DEF Entry, StampedRight
<1> HIDE DEF put
<1>4. DOMAIN putting' = DOMAIN putting \cup {w} /\ putting' \in [DOMAIN putting' -> T]
      /\ \A v \in DOMAIN putting' : putting'[v] = put \/
                                  (v \in DOMAIN putting /\ putting'[v] = putting[v])
  BY <1>1, <1>2, <1>3 DEF Bind
<1>5. TypeOK'
  BY <1>1, <1>2, <1>4 DEF Inv, TypeOK
<1>6. \A v \in DOMAIN putting' : StampedRight(putting'[v].entry)
  BY <1>1, <1>3, <1>4 DEF Inv
<1> QED
  BY <1>1, <1>5, <1>6
  DEF Inv, CacheCoherent, RecencyIsOrderOfUse, EntriesStamped, StampedRight, Ttl

(* What every store has in common.                                         *)
LEMMA PutInFlight ==
  ASSUME Inv, NEW w \in DOMAIN putting, Stored(w)
  PROVE  /\ putting[w].key \in Keys
         /\ putting[w].entry \in Entry
         /\ StampedRight(putting[w].entry)
         /\ clock' = clock
         /\ Used(putting[w].key)
         /\ newer' \in SUBSET (Keys \X Keys)
         /\ DOMAIN putting' \subseteq Workers
         /\ putting' \in [DOMAIN putting' -> [key : Keys, entry : Entry]]
         /\ \A v \in DOMAIN putting' : StampedRight(putting'[v].entry)
<1>1. /\ DOMAIN putting \subseteq Workers
      /\ putting \in [DOMAIN putting -> [key : Keys, entry : Entry]]
      /\ newer \in SUBSET (Keys \X Keys)
      /\ \A v \in DOMAIN putting : StampedRight(putting[v].entry)
  BY DEF Inv, TypeOK
<1>2. clock' = clock /\ putting' = Unbind(putting, w) /\ Used(putting[w].key)
  BY DEF Stored
<1>3. putting[w].key \in Keys /\ putting[w].entry \in Entry
  BY <1>1
<1>4. newer' \in SUBSET (Keys \X Keys)
  BY <1>1, <1>2, <1>3, UsedProperties
<1>5. /\ DOMAIN putting' \subseteq Workers
      /\ putting' \in [DOMAIN putting' -> [key : Keys, entry : Entry]]
      /\ \A v \in DOMAIN putting' : v \in DOMAIN putting /\ putting'[v] = putting[v]
  BY <1>1, <1>2 DEF Unbind
<1> QED  BY <1>1, <1>2, <1>3, <1>4, <1>5

LEMMA ReplaceInv ==
  ASSUME Inv, NEW w \in DOMAIN putting, Replace(w)
  PROVE  Inv'
<1> DEFINE key == putting[w].key
           e == putting[w].entry
<1>1. /\ key \in DOMAIN entries /\ entries' = Bind(entries, key, e)
      /\ recency' = MoveToFront(recency, key) /\ Stored(w)
  BY DEF Replace
<1>2. /\ e \in Entry /\ StampedRight(e) /\ Used(key)
      /\ clock' = clock
  BY <1>1, PutInFlight
<1>3. entries \in [DOMAIN entries -> Entry]
  BY DEF Inv, TypeOK
<1> HIDE DEF key, e
<1>4. /\ DOMAIN entries' = DOMAIN entries
      /\ entries' \in [DOMAIN entries' -> Entry]
      /\ \A k \in DOMAIN entries' : entries'[k] = e \/ entries'[k] = entries[k]
  BY <1>1, <1>2, <1>3 DEF Bind
<1>5. recency' \in Seq(Keys) /\ Enlists(recency', DOMAIN entries) /\ Ordered(recency', newer')
  BY <1>1, <1>2, TouchOrdered
<1>6. TypeOK'
  BY <1>1, <1>4, <1>5, PutInFlight DEF Inv, TypeOK
<1>7. EntriesStamped'
  BY <1>2, <1>4 DEF Inv, EntriesStamped, StampedRight, Ttl
<1> QED
  BY <1>1, <1>4, <1>5, <1>6, <1>7, PutInFlight
  DEF Inv, CacheCoherent, RecencyIsOrderOfUse, Ttl

(* Insertion of a key that is not resident, after the keys outside D have  *)
(* been removed.                                                           *)
LEMMA InsertStepInv ==
  ASSUME Inv, NEW w \in DOMAIN putting, NEW f, NEW list \in Seq(Keys),
         NEW D \in SUBSET DOMAIN entries,
         DOMAIN f = D, \A k \in D : f[k] = entries[k],
         Enlists(list, D), Ordered(list, newer),
         Cardinality(D) < MaxEntries,
         putting[w].key \notin DOMAIN entries,
         entries' = Bind(f, putting[w].key, putting[w].entry),
         recency' = PushFront(list, putting[w].key),
         Stored(w)
  PROVE  Inv'
<1> DEFINE key == putting[w].key
           e == putting[w].entry
<1>1. /\ key \in Keys /\ e \in Entry /\ StampedRight(e)
      /\ Used(key) /\ clock' = clock
  BY PutInFlight
<1>2. /\ key \notin D /\ D \in SUBSET Keys /\ newer \in SUBSET (Keys \X Keys)
      /\ entries \in [DOMAIN entries -> Entry]
  BY DEF Inv, TypeOK
<1>3. /\ DOMAIN entries' = D \cup {key}
      /\ entries' \in [DOMAIN entries' -> Entry]
      /\ \A k \in DOMAIN entries' : entries'[k] = e \/
                                   (k \in D /\ entries'[k] = entries[k])
  BY <1>1, <1>2 DEF Bind
<1>4. /\ recency' \in Seq(Keys) /\ Enlists(recency', D \cup {key})
      /\ Ordered(recency', newer')
  <2>1. recency' = PushFront(list, key) /\ key \in Keys \ D
    BY <1>1, <1>2
  <2>2. /\ PushFront(list, key) \in Seq(Keys)
        /\ Enlists(PushFront(list, key), D \cup {key})
        /\ Ordered(PushFront(list, key), newer')
    BY ONLY <1>1, <1>2, <2>1, list \in Seq(Keys), Enlists(list, D),
       Ordered(list, newer), UsedListOrdered
  <2> QED  BY <2>1, <2>2
<1>5. IsFiniteSet(D) /\ Cardinality(D) \in Nat
  BY FS_Subset, FS_CardinalityType DEF Inv
<1>6. IsFiniteSet(D \cup {key}) /\ Cardinality(D \cup {key}) = Cardinality(D) + 1
  BY <1>2, <1>5, FS_AddElement
<1>7. TypeOK'
  BY <1>1, <1>2, <1>3, <1>4, PutInFlight DEF Inv, TypeOK
<1>8. EntriesStamped'
  BY <1>1, <1>3 DEF Inv, EntriesStamped, StampedRight, Ttl
<1> QED
  BY <1>3, <1>4, <1>5, <1>6, <1>7, <1>8, PutInFlight, CacheAssumption
  DEF Inv, CacheCoherent, RecencyIsOrderOfUse, Ttl

LEMMA InsertInv ==
  ASSUME Inv, NEW w \in DOMAIN putting, Insert(w)
  PROVE  Inv'
<1>1. recency \in Seq(Keys) /\ Enlists(recency, DOMAIN entries) /\ Ordered(recency, newer)
  BY DEF Inv, TypeOK, CacheCoherent, RecencyIsOrderOfUse
<1>2. Cardinality(DOMAIN entries) < MaxEntries
  <2>1. Cardinality(DOMAIN entries) \in Nat
    BY FS_CardinalityType DEF Inv
  <2> QED  BY <2>1, CacheAssumption DEF Insert, Full
<1> QED  BY <1>1, <1>2, InsertStepInv DEF Insert

LEMMA InsertEvictingInv ==
  ASSUME Inv, NEW w \in DOMAIN putting, InsertEvicting(w)
  PROVE  Inv'
<1> DEFINE D == DOMAIN entries \ {Victim}
           f == Unbind(entries, Victim)
           list == Unlink(recency, Victim)
<1>1. Victim \in DOMAIN entries
  BY VictimResident DEF InsertEvicting
<1>2. /\ recency \in Seq(Keys) /\ Enlists(recency, DOMAIN entries)
      /\ Ordered(recency, newer)
  BY DEF Inv, TypeOK, CacheCoherent, RecencyIsOrderOfUse
<1>3. list \in Seq(Keys) /\ Enlists(list, D)
  BY <1>1, <1>2, UnlinkEnlists
<1>4. Ordered(list, newer)
  BY <1>1, <1>2, UnlinkOrdered
<1>5. DOMAIN f = D /\ \A k \in D : f[k] = entries[k]
  BY DEF Unbind
<1>6. Cardinality(D) < MaxEntries
  <2>1. Cardinality(D) = Cardinality(DOMAIN entries) - 1
    BY <1>1, FS_RemoveElement DEF Inv
  <2>2. Cardinality(DOMAIN entries) \in Nat
    BY FS_CardinalityType DEF Inv
  <2> QED  BY <2>1, <2>2, CacheAssumption DEF Inv, CacheCoherent
<1>7. D \in SUBSET DOMAIN entries
  OBVIOUS
<1>8. /\ putting[w].key \notin DOMAIN entries
      /\ entries' = Bind(f, putting[w].key, putting[w].entry)
      /\ recency' = PushFront(list, putting[w].key)
      /\ Stored(w)
  BY DEF InsertEvicting
<1> HIDE DEF D, f, list
<1> QED  BY <1>3, <1>4, <1>5, <1>6, <1>7, <1>8, InsertStepInv

LEMMA NextInv == Inv /\ [CacheNext]_cacheVars => Inv'
<1> SUFFICES ASSUME Inv, [CacheNext]_cacheVars PROVE Inv'
  OBVIOUS
<1>1. CASE Tick
  BY <1>1, TickInv
<1>2. ASSUME NEW key \in Keys, Hit(key) \/ Expire(key) PROVE Inv'
  BY <1>2, HitInv, ExpireInv
<1>3. ASSUME NEW w \in Workers, NEW key \in Keys, NEW result \in Results,
             Stamp(w, key, result)
      PROVE  Inv'
  BY <1>3, StampInv
<1>4. ASSUME NEW w \in DOMAIN putting, Store(w) PROVE Inv'
  BY <1>4, ReplaceInv, InsertInv, InsertEvictingInv DEF Store
<1>5. CASE UNCHANGED cacheVars
  BY <1>5 DEF cacheVars, Inv, TypeOK, CacheCoherent, RecencyIsOrderOfUse,
              EntriesStamped, StampedRight, Ttl
<1>6. ASSUME NEW key \in Keys, Miss(key) PROVE UNCHANGED cacheVars
  BY <1>6 DEF Miss
<1> QED  BY <1>1, <1>2, <1>3, <1>4, <1>5, <1>6 DEF CacheNext

THEOREM Invariance == CacheSpec => []Inv
  BY InitInv, NextInv, PTL DEF CacheSpec

(* The state of the account cache is always well typed.                    *)
THEOREM TypeCorrect == CacheSpec => []TypeOK
<1>1. Inv => TypeOK
  BY DEF Inv
<1> QED  BY <1>1, Invariance, PTL

(* c.entries and c.recency never drift apart, and never exceed MaxEntries. *)
THEOREM CacheStaysCoherent == CacheSpec => []CacheCoherent
<1>1. Inv => CacheCoherent
  BY DEF Inv
<1> QED  BY <1>1, Invariance, PTL

(* The recency list is always in the order of last use.                    *)
THEOREM RecencyStaysOrdered == CacheSpec => []RecencyIsOrderOfUse
<1>1. Inv => RecencyIsOrderOfUse
  BY DEF Inv
<1> QED  BY <1>1, Invariance, PTL

(* get answers with nothing that was put longer ago than the TTL of its    *)
(* kind: hits, replacements and late stores leave an entry's expiry where  *)
(* its own call of put has set it.                                         *)
THEOREM LifetimesHold == CacheSpec => ServedWithinLifetime
<1>1. ASSUME Inv, NEW key \in Keys, Hit(key)
      PROVE  clock < entries[key].stampedAt + Ttl(entries[key].result)
  BY <1>1 DEF Inv, EntriesStamped, StampedRight, Hit, Live
<1>2. Inv /\ [CacheNext]_cacheVars =>
        [\A key \in Keys :
           Hit(key) => clock < entries[key].stampedAt + Ttl(entries[key].result)]_cacheVars
  BY <1>1
<1> QED  BY <1>2, Invariance, PTL DEF CacheSpec, ServedWithinLifetime

(* A live entry is lost only in a full cache, and only by the key that was *)
(* used least recently of all.                                             *)
THEOREM EvictionIsLRU == CacheSpec => EvictsLeastRecentlyUsed
<1> DEFINE Lost(key) == Live(key) =>
                          /\ Full
                          /\ \A k \in DOMAIN entries \ {key} : <<k, key>> \in newer
<1>1. ASSUME Inv, [CacheNext]_cacheVars, NEW key \in DOMAIN entries \ DOMAIN entries'
      PROVE  Lost(key)
  <2>1. CASE UNCHANGED entries
    BY <1>1, <2>1
  <2>2. ASSUME NEW k \in Keys, Expire(k) PROVE Lost(key)
    BY <1>1, <2>2 DEF Expire, Unbind
  <2>3. ASSUME NEW w \in DOMAIN putting, Replace(w) \/ Insert(w) PROVE Lost(key)
    BY <1>1, <2>3 DEF Replace, Insert, Bind
  <2>4. ASSUME NEW w \in DOMAIN putting, InsertEvicting(w) PROVE Lost(key)
    <3>1. key = Victim /\ Full
      BY <1>1, <2>4 DEF InsertEvicting, Bind, Unbind
    <3>2. recency \in Seq(Keys) /\ Enlists(recency, DOMAIN entries) /\ Ordered(recency, newer)
      BY <1>1 DEF Inv, TypeOK, CacheCoherent, RecencyIsOrderOfUse
    <3>3. \A k \in DOMAIN entries \ {key} : <<k, key>> \in newer
      BY <3>1, <3>2, BackIsLast DEF Victim
    <3> QED  BY <3>1, <3>3
  <2> QED
    BY <1>1, <2>1, <2>2, <2>3, <2>4 DEF CacheNext, Tick, Hit, Miss, Stamp, Store, cacheVars
<1>2. Inv /\ [CacheNext]_cacheVars =>
        [\A key \in DOMAIN entries \ DOMAIN entries' : Lost(key)]_cacheVars
  BY <1>1
<1> QED  BY <1>2, Invariance, PTL DEF CacheSpec, EvictsLeastRecentlyUsed

----------------------------------------------------------------------------
(* One key, one request *)

Base == Len(Digit)

LastDigit(n) == <<Digit[(n % Base) + 1]>>

LEMMA BaseType == Base \in Nat /\ Base >= 2 /\ \A n \in Nat : Digit[(n % Base) + 1] \in Range(Digit)
<1>1. Base \in Nat /\ DOMAIN Digit = 1..Base
  BY DigitAssumption, LenProperties DEF Base
<1>2. ASSUME NEW n \in Nat PROVE (n % Base) + 1 \in 1..Base
  BY <1>1, DigitAssumption DEF Base
<1> QED  BY <1>1, <1>2, DigitAssumption DEF Base, Range

LEMMA Quotient ==
  ASSUME NEW n \in Nat
  PROVE  /\ n \div Base \in Nat
         /\ n % Base \in 0..Base - 1
         /\ n = (Base * (n \div Base)) + (n % Base)
         /\ n >= Base => n \div Base < n
<1> DEFINE b == Base
<1>1. b \in Nat /\ b >= 2
  BY BaseType
<1> HIDE DEF b
<1>2. /\ n \div b \in Nat
      /\ n % b \in 0..b - 1
      /\ n = (b * (n \div b)) + (n % b)
      /\ n >= b => n \div b < n
  BY <1>1
<1> QED  BY <1>2 DEF b

LEMMA LastDigitType ==
  ASSUME NEW n \in Nat
  PROVE  /\ LastDigit(n) \in Seq(Range(Digit)) /\ Len(LastDigit(n)) = 1
         /\ LastDigit(n)[1] = Digit[(n % Base) + 1]
<1> DEFINE d == Digit[(n % Base) + 1]
<1>1. d \in Range(Digit)
  BY BaseType
<1> HIDE DEF d
<1>2. <<d>> \in Seq(Range(Digit)) /\ Len(<<d>>) = 1 /\ <<d>>[1] = d
  BY <1>1
<1> QED  BY <1>2 DEF d, LastDigit

(* strconv.Itoa, unfolded once: the recursion is well defined.             *)
LEMMA ItoaDef ==
  /\ Itoa \in [Nat -> Seq(Range(Digit))]
  /\ \A n \in Nat : Itoa[n] = IF n < Base THEN LastDigit(n) ELSE Itoa[n \div Base] \o LastDigit(n)
<1> DEFINE E(g) == g = [n \in Nat |-> IF n < Base THEN LastDigit(n)
                                      ELSE g[n \div Base] \o LastDigit(n)]
           Numerals == Seq(Range(Digit))
           Small == {n \in Nat : n < Base}
           short == [n \in Nat |-> LastDigit(n)]
           quotient == [n \in Nat |-> n \div Base]
           longer == [n \in Nat |-> [v \in Numerals |-> v \o LastDigit(n)]]
<1>1. \A n \in Nat : LastDigit(n) \in Numerals
  BY LastDigitType
<1>2. /\ short \in [Nat -> Numerals] /\ quotient \in [Nat -> Nat]
      /\ longer \in [Nat -> [Numerals -> Numerals]]
  <2>1. \A n \in Nat, v \in Numerals : v \o LastDigit(n) \in Numerals
    BY <1>1, Joined
  <2>2. \A n \in Nat : n \div Base \in Nat
    BY Quotient
  <2> HIDE DEF Numerals
  <2> QED  BY <1>1, <2>1, <2>2
<1>3. \A n \in Nat : n \notin Small => quotient[n] < n
  BY Quotient, BaseType
<1>4. PICK g : Computed(g, Numerals, Small, short, quotient, longer)
  <2>1. Recursive(Numerals, Small, short, quotient, longer)
    BY <1>2, <1>3 DEF Recursive
  <2> HIDE DEF Numerals, Small, short, quotient, longer
  <2> QED  BY <2>1, Recursion
<1>5. \A n \in Nat : g[n] = IF n < Base THEN LastDigit(n) ELSE g[n \div Base] \o LastDigit(n)
  <2> SUFFICES ASSUME NEW n \in Nat
               PROVE  g[n] = IF n < Base THEN LastDigit(n) ELSE g[n \div Base] \o LastDigit(n)
    OBVIOUS
  <2>1. n \div Base \in Nat
    BY Quotient
  <2>2. g[n \div Base] \in Numerals
    BY <1>4, <2>1 DEF Computed
  <2> HIDE DEF Numerals
  <2> QED  BY <1>4, <2>1, <2>2 DEF Computed
<1>6. E(g)
  <2> HIDE DEF Numerals
  <2> QED  BY <1>4, <1>5 DEF Computed
<1>7. Itoa = CHOOSE h : E(h)
  BY DEF Itoa, Base, LastDigit
<1> HIDE DEF E
<1>8. E(Itoa)
  BY <1>6, <1>7
<1> USE DEF E
<1>9. /\ DOMAIN Itoa = Nat /\ Itoa = [n \in Nat |-> Itoa[n]]
      /\ \A n \in Nat : Itoa[n] = IF n < Base THEN LastDigit(n)
                                 ELSE Itoa[n \div Base] \o LastDigit(n)
  BY <1>8
<1> HIDE DEF E
<1>10. \A n \in Nat : n \in {k \in Nat : Itoa[k] \in Numerals}
  <2>1. ASSUME NEW n \in Nat, \A m \in Nat : m < n => m \in {k \in Nat : Itoa[k] \in Numerals}
        PROVE  n \in {k \in Nat : Itoa[k] \in Numerals}
    <3>1. CASE n < Base
      BY <1>1, <1>9, <3>1
    <3>2. CASE n >= Base
      <4>1. n \div Base \in Nat /\ n \div Base < n
        BY <3>2, Quotient
      <4>2. Itoa[n \div Base] \in Numerals /\ LastDigit(n) \in Numerals
        BY <1>1, <2>1, <4>1
      <4>3. ~(n < Base)
        BY <3>2, BaseType
      <4>4. Itoa[n] = Itoa[n \div Base] \o LastDigit(n)
        BY <1>9, <4>3, Zenon
      <4>5. Itoa[n \div Base] \o LastDigit(n) \in Numerals
        BY <4>2, Joined
      <4> QED  BY <4>4, <4>5
    <3> QED  BY <3>1, <3>2, BaseType
  <2> QED  BY <2>1, StrongInduction
<1> QED  BY <1>9, <1>10

(* The digits of a larger number are those of its quotient and one more.   *)
LEMMA ItoaLonger ==
  ASSUME NEW n \in Nat, n >= Base
  PROVE  /\ n \div Base \in Nat /\ n \div Base < n
         /\ Itoa[n \div Base] \in Seq(Range(Digit)) /\ Len(Itoa[n \div Base]) \in Nat
         /\ Itoa[n] = Itoa[n \div Base] \o LastDigit(n)
         /\ Len(Itoa[n]) = Len(Itoa[n \div Base]) + 1
         /\ \A i \in 1..Len(Itoa[n \div Base]) : Itoa[n][i] = Itoa[n \div Base][i]
         /\ Itoa[n][Len(Itoa[n \div Base]) + 1] = LastDigit(n)[1]
<1>1. n \div Base \in Nat /\ n \div Base < n
  BY Quotient
<1>2. ~(n < Base)
  BY BaseType
<1> DEFINE high == Itoa[n \div Base]
           low == LastDigit(n)
           digits == Range(Digit)
<1>3. Itoa[n] = high \o low
  BY <1>2, ItoaDef
<1>4. high \in Seq(digits) /\ low \in Seq(digits)
  BY <1>1, ItoaDef, LastDigitType
<1>0. Len(low) = 1
  BY LastDigitType
<1> HIDE DEF high, low, digits
<1>5. /\ Len(high) \in Nat /\ Len(high \o low) = Len(high) + Len(low)
      /\ \A i \in 1..Len(high) : (high \o low)[i] = high[i]
      /\ \A i \in 1..Len(low) : (high \o low)[Len(high) + i] = low[i]
  BY <1>4, Joined
<1>6. (high \o low)[Len(high) + 1] = low[1]
  <2>1. 1 \in 1..Len(low)
    BY <1>0
  <2> QED  BY <1>5, <2>1
<1> QED  BY <1>0, <1>1, <1>3, <1>4, <1>5, <1>6 DEF high, low, digits

(* A number has at least one digit.                                        *)
LEMMA ItoaLength == \A n \in Nat : Len(Itoa[n]) \in Nat /\ Len(Itoa[n]) >= 1
<1> SUFFICES ASSUME NEW n \in Nat PROVE Len(Itoa[n]) \in Nat /\ Len(Itoa[n]) >= 1
  OBVIOUS
<1>1. CASE n < Base
  BY <1>1, ItoaDef, LastDigitType
<1>2. CASE n >= Base
  BY <1>2, ItoaLonger
<1> QED  BY <1>1, <1>2, BaseType

(* No two lengths are written alike.                                       *)
LEMMA ItoaInjective == \A n, m \in Nat : Itoa[n] = Itoa[m] => n = m
<1> DEFINE T == {n \in Nat : \A m \in Nat : Itoa[n] = Itoa[m] => n = m}
<1>0. ASSUME NEW n \in Nat
      PROVE  /\ LastDigit(n)[1] = Digit[(n % Base) + 1] /\ Len(LastDigit(n)) = 1
             /\ n < Base => n % Base = n
             /\ (n % Base) + 1 \in DOMAIN Digit
  <2>1. n < Base => n % Base = n
    <3> DEFINE b == Base
    <3>1. b \in Nat /\ b >= 2
      BY BaseType
    <3> HIDE DEF b
    <3>2. n < b => n % b = n
      BY <3>1
    <3> QED  BY <3>2 DEF b
  <2>2. (n % Base) + 1 \in 1..Base
    BY Quotient, BaseType
  <2>3. DOMAIN Digit = 1..Base
    BY DigitAssumption, LenProperties DEF Base
  <2> QED  BY LastDigitType, <2>1, <2>2, <2>3
<1>1. ASSUME NEW n \in Nat, \A k \in Nat : k < n => k \in T, NEW m \in Nat, Itoa[n] = Itoa[m]
      PROVE  n = m
  <2>1. CASE n < Base /\ m < Base
    <3>0. Itoa[n] = LastDigit(n) /\ Itoa[m] = LastDigit(m)
      <4>1. \A k \in Nat : k < Base => Itoa[k] = LastDigit(k)
        BY ItoaDef, Zenon
      <4> QED  BY <1>1, <2>1, <4>1
    <3>1. Digit[(n % Base) + 1] = Digit[(m % Base) + 1]
      <4>1. LastDigit(n) = LastDigit(m)
        BY <1>1, <3>0
      <4>2. /\ LastDigit(n)[1] = Digit[(n % Base) + 1]
            /\ LastDigit(m)[1] = Digit[(m % Base) + 1]
        BY <1>0
      <4> QED  BY <4>1, <4>2
    <3>2. (n % Base) + 1 = (m % Base) + 1
      BY <1>0, <3>1, DigitAssumption DEF IsInjective
    <3> QED  BY <1>0, <2>1, <3>2
  <2>2. CASE n >= Base /\ m >= Base
    <3> DEFINE s == Itoa[n \div Base]
               t == Itoa[m \div Base]
    <3>1. /\ n \div Base \in Nat /\ n \div Base < n /\ m \div Base \in Nat
          /\ s \in Seq(Range(Digit)) /\ t \in Seq(Range(Digit))
          /\ Len(s) \in Nat /\ Len(t) \in Nat
          /\ Len(Itoa[n]) = Len(s) + 1 /\ Len(Itoa[m]) = Len(t) + 1
          /\ \A i \in 1..Len(s) : Itoa[n][i] = s[i]
          /\ \A i \in 1..Len(t) : Itoa[m][i] = t[i]
          /\ Itoa[n][Len(s) + 1] = LastDigit(n)[1]
          /\ Itoa[m][Len(t) + 1] = LastDigit(m)[1]
      BY <2>2, ItoaLonger
    <3> HIDE DEF s, t
    <3>2. Len(s) = Len(t) /\ LastDigit(n)[1] = LastDigit(m)[1]
      BY <1>1, <3>1
    <3>3. s = t
      <4>1. \A i \in 1..Len(s) : s[i] = t[i]
        BY <1>1, <3>1, <3>2
      <4> QED  BY <3>1, <3>2, <4>1, SeqEqual
    <3>4. n \div Base = m \div Base
      BY <1>1, <3>1, <3>3 DEF s, t
    <3>5. n % Base = m % Base
      <4>1. (n % Base) + 1 = (m % Base) + 1
        BY <1>0, <3>2, DigitAssumption DEF IsInjective
      <4> QED  BY <4>1, Quotient, BaseType
    <3> QED  BY <3>4, <3>5, Quotient
  <2>3. ASSUME NEW i \in Nat, NEW j \in Nat, i < Base, j >= Base, Itoa[i] = Itoa[j] PROVE FALSE
    <3>1. Len(Itoa[i]) = 1
      BY <1>0, <2>3, ItoaDef
    <3>2. j \div Base \in Nat /\ Len(Itoa[j]) = Len(Itoa[j \div Base]) + 1
      BY <2>3, ItoaLonger
    <3>3. Len(Itoa[j \div Base]) \in Nat /\ Len(Itoa[j \div Base]) >= 1
      BY <3>2, ItoaLength
    <3>4. Len(Itoa[j]) = 1
      BY <2>3, <3>1
    <3> DEFINE k == Len(Itoa[j \div Base])
               l == Len(Itoa[j])
    <3>5. k \in Nat /\ k >= 1 /\ l = 1 /\ l = k + 1
      BY <3>2, <3>3, <3>4
    <3> HIDE DEF k, l
    <3> QED  BY <3>5
  <2> QED  BY <1>1, <2>1, <2>2, <2>3, BaseType
<1>2. \A n \in Nat : n \in T
  <2>1. ASSUME NEW n \in Nat, \A k \in Nat : k < n => k \in T PROVE n \in T
    BY <1>1, <2>1
  <2> HIDE DEF T
  <2> QED  BY <2>1, StrongInduction
<1> QED  BY <1>2

(* What an encoded name is made of.                                        *)
Alphabet == Characters \cup {":"}

LEMMA EncodedProperties ==
  ASSUME NEW s \in Seq(Characters)
  PROVE  /\ Encoded(s) \in Seq(Alphabet)
         /\ Len(s) \in Nat /\ Len(Itoa[Len(s)]) \in Nat
         /\ Itoa[Len(s)] \in Seq(Range(Digit))
         /\ Len(Encoded(s)) = Len(Itoa[Len(s)]) + 1 + Len(s)
         /\ \A k \in 1..Len(Itoa[Len(s)]) :
              Encoded(s)[k] = Itoa[Len(s)][k] /\ Encoded(s)[k] # ":"
         /\ Encoded(s)[Len(Itoa[Len(s)]) + 1] = ":"
         /\ \A k \in 1..Len(s) : Encoded(s)[Len(Itoa[Len(s)]) + 1 + k] = s[k]
<1>1. Len(s) \in Nat
  BY LenProperties
<1> DEFINE number == Itoa[Len(s)]
           colon == <<":">>
<1>2. number \in Seq(Range(Digit)) /\ Len(number) \in Nat
  BY <1>1, ItoaDef, ItoaLength
<1>3. \A k \in 1..Len(number) : number[k] \in Range(Digit)
  BY <1>2, ElementOfSeq
<1>4. Range(Digit) \subseteq Characters
  <2>1. \A i \in DOMAIN Digit : Digit[i] \in Characters
    BY DigitAssumption, LenProperties
  <2> QED  BY <2>1 DEF Range
<1>5. number \in Seq(Alphabet) /\ colon \in Seq(Alphabet) /\ s \in Seq(Alphabet)
  <2>1. Characters \subseteq Alphabet /\ ":" \in Alphabet
    BY DEF Alphabet
  <2>2. Range(Digit) \subseteq Alphabet
    BY <1>4, <2>1
  <2> HIDE DEF number
  <2> QED  BY <1>2, <2>1, <2>2
<1>6. Len(colon) = 1 /\ colon[1] = ":"
  OBVIOUS
<1>7. Encoded(s) = (number \o colon) \o s
  BY DEF Encoded
<1> HIDE DEF number, colon
<1> DEFINE front == number \o colon
<1>8. /\ front \in Seq(Alphabet) /\ Len(front) = Len(number) + Len(colon)
      /\ \A k \in 1..Len(number) : front[k] = number[k]
      /\ \A k \in 1..Len(colon) : front[Len(number) + k] = colon[k]
  BY <1>5, Joined
<1>9. /\ Len(front) = Len(number) + 1
      /\ front[Len(number) + 1] = ":"
  <2>1. 1 \in 1..Len(colon)
    BY <1>6
  <2> QED  BY <1>6, <1>8, <2>1
<1> HIDE DEF front
<1>10. /\ front \o s \in Seq(Alphabet) /\ Len(front \o s) = Len(front) + Len(s)
       /\ \A k \in 1..Len(front) : (front \o s)[k] = front[k]
       /\ \A k \in 1..Len(s) : (front \o s)[Len(front) + k] = s[k]
  <2>1. front \in Seq(Alphabet) /\ s \in Seq(Alphabet)
    BY <1>5, <1>8
  <2> QED  BY ONLY <2>1, Joined
<1>11. Encoded(s) = front \o s
  BY <1>7 DEF front
<1>12. \A k \in 1..Len(number) : Encoded(s)[k] = number[k]
  <2>1. ASSUME NEW k \in 1..Len(number) PROVE k \in 1..Len(front)
    BY <1>2, <1>9
  <2> QED  BY <1>8, <1>10, <1>11, <2>1
<1>13. \A k \in 1..Len(number) : Encoded(s)[k] # ":"
  BY <1>3, <1>12, DigitAssumption
<1>14. Encoded(s)[Len(number) + 1] = ":"
  <2>1. Len(number) + 1 \in 1..Len(front)
    BY <1>2, <1>9
  <2> QED  BY <1>9, <1>10, <1>11, <2>1
<1>15. \A k \in 1..Len(s) : Encoded(s)[Len(number) + 1 + k] = s[k]
  <2>1. ASSUME NEW k \in 1..Len(s) PROVE Len(number) + 1 + k = Len(front) + k
    BY <1>1, <1>2, <1>9
  <2> QED  BY <1>10, <1>11, <2>1
<1>16. Encoded(s) \in Seq(Alphabet) /\ Len(Encoded(s)) = Len(number) + 1 + Len(s)
  BY <1>9, <1>10, <1>11
<1> QED  BY <1>1, <1>2, <1>12, <1>13, <1>14, <1>15, <1>16 DEF number

(* Where an encoded name ends shows in its first characters: the digits up *)
(* to the colon are its length.  Of two different names neither's encoding *)
(* begins like the other's for as long as both last.                       *)
LEMMA EncodedPrefixFree ==
  ASSUME NEW s \in Seq(Characters), NEW t \in Seq(Characters),
         \A k \in 1..Len(Encoded(s)) : k <= Len(Encoded(t)) => Encoded(s)[k] = Encoded(t)[k]
  PROVE  s = t
<1> DEFINE n == Itoa[Len(s)]
           m == Itoa[Len(t)]
           e == Encoded(s)
           f == Encoded(t)
<1>1. /\ Len(s) \in Nat /\ Len(t) \in Nat /\ Len(n) \in Nat /\ Len(m) \in Nat
      /\ n \in Seq(Range(Digit)) /\ m \in Seq(Range(Digit))
      /\ Len(e) = Len(n) + 1 + Len(s) /\ Len(f) = Len(m) + 1 + Len(t)
      /\ \A k \in 1..Len(n) : e[k] = n[k] /\ e[k] # ":"
      /\ \A k \in 1..Len(m) : f[k] = m[k] /\ f[k] # ":"
      /\ e[Len(n) + 1] = ":" /\ f[Len(m) + 1] = ":"
      /\ \A k \in 1..Len(s) : e[Len(n) + 1 + k] = s[k]
      /\ \A k \in 1..Len(t) : f[Len(m) + 1 + k] = t[k]
  BY EncodedProperties
<1>2. \A k \in 1..Len(e) : k <= Len(f) => e[k] = f[k]
  OBVIOUS
<1>3. Len(s) = Len(t) => s = t
  <2> SUFFICES ASSUME Len(s) = Len(t) PROVE s = t
    OBVIOUS
  <2>1. Len(n) = Len(m)
    OBVIOUS
  <2> HIDE DEF n, m, e, f
  <2>2. ASSUME NEW k \in 1..Len(s) PROVE s[k] = t[k]
    <3>1. Len(n) + 1 + k \in 1..Len(e) /\ Len(n) + 1 + k <= Len(f)
      BY <1>1, <2>1
    <3> QED  BY <1>1, <1>2, <2>1, <3>1
  <2> QED  BY <2>2, SeqEqual
<1>4. n = m => Len(s) = Len(t)
  BY <1>1, ItoaInjective
<1> HIDE DEF n, m, e, f
<1>5. Len(n) = Len(m)
  <2>1. ASSUME Len(n) < Len(m) PROVE FALSE
    <3>1. /\ Len(n) + 1 \in 1..Len(m) /\ Len(n) + 1 \in 1..Len(e) /\ Len(n) + 1 <= Len(f)
      BY <1>1, <2>1
    <3> QED  BY <1>1, <1>2, <3>1
  <2>2. ASSUME Len(m) < Len(n) PROVE FALSE
    <3>1. /\ Len(m) + 1 \in 1..Len(n) /\ Len(m) + 1 \in 1..Len(e) /\ Len(m) + 1 <= Len(f)
      BY <1>1, <2>2
    <3> QED  BY <1>1, <1>2, <3>1
  <2> QED  BY <1>1, <2>1, <2>2
<1>6. n = m
  <2>1. ASSUME NEW k \in 1..Len(n) PROVE n[k] = m[k]
    <3>1. k \in 1..Len(e) /\ k <= Len(f) /\ k \in 1..Len(m)
      BY <1>1, <1>5
    <3> QED  BY <1>1, <1>2, <3>1
  <2> QED  BY <1>1, <1>5, <2>1, SeqEqual
<1> QED  BY <1>3, <1>4, <1>6

Encodings(names) == [i \in DOMAIN names |-> Encoded(names[i])]

LEMMA EncodingsType ==
  ASSUME NEW a \in Seq(Seq(Characters))
  PROVE  /\ Len(a) \in Nat /\ DOMAIN a = 1..Len(a) /\ \A i \in 1..Len(a) : a[i] \in Seq(Characters)
         /\ Encodings(a) \in Seq(Seq(Alphabet)) /\ Len(Encodings(a)) = Len(a)
         /\ \A i \in 1..Len(a) : Encodings(a)[i] = Encoded(a[i]) /\ Encoded(a[i]) \in Seq(Alphabet)
<1>1. /\ Len(a) \in Nat /\ DOMAIN a = 1..Len(a)
      /\ \A i \in 1..Len(a) : a[i] \in Seq(Characters)
  BY LenProperties, ElementOfSeq
<1>2. \A i \in 1..Len(a) : Encoded(a[i]) \in Seq(Alphabet)
  BY <1>1, EncodedProperties
<1> DEFINE encoded == Seq(Alphabet)
           n == Len(a)
<1>3. Encodings(a) = [i \in 1..n |-> Encoded(a[i])]
  BY <1>1 DEF Encodings
<1>4. n \in Nat /\ \A i \in 1..n : Encoded(a[i]) \in encoded
  BY <1>1, <1>2
<1> HIDE DEF encoded, n
<1>5. /\ Encodings(a) \in Seq(encoded) /\ Len(Encodings(a)) = n
      /\ \A i \in 1..n : Encodings(a)[i] = Encoded(a[i])
  BY <1>3, <1>4
<1> QED  BY <1>1, <1>2, <1>5 DEF encoded, n

(* Of two lists with one encoding, the first is a part of the second: name *)
(* by name, where the next one begins is where the one before has ended.   *)
LEMMA EncodedListIncluded ==
  ASSUME NEW a \in Seq(Seq(Characters)), NEW b \in Seq(Seq(Characters)),
         FlattenSeq(Encodings(a)) = FlattenSeq(Encodings(b))
  PROVE  Len(a) <= Len(b) /\ \A i \in 1..Len(a) : a[i] = b[i]
<1>1. /\ Len(a) \in Nat /\ Len(Encodings(a)) = Len(a) /\ Encodings(a) \in Seq(Seq(Alphabet))
      /\ Len(b) \in Nat /\ Len(Encodings(b)) = Len(b) /\ Encodings(b) \in Seq(Seq(Alphabet))
      /\ \A i \in 1..Len(a) : Encodings(a)[i] = Encoded(a[i]) /\ a[i] \in Seq(Characters)
      /\ \A i \in 1..Len(b) : Encodings(b)[i] = Encoded(b[i]) /\ b[i] \in Seq(Characters)
  BY EncodingsType
<1>2. PICK p : Joins(p, Encodings(a), Alphabet)
  BY <1>1, JoinsExist
<1>3. PICK q : Joins(q, Encodings(b), Alphabet)
  BY <1>1, JoinsExist
<1> DEFINE x == p[Len(a)]
<1>4. x = q[Len(b)]
  <2>1. FlattenSeq(Encodings(a)) = p[Len(a)]
    BY <1>1, <1>2, FlattenDef
  <2>2. FlattenSeq(Encodings(b)) = q[Len(b)]
    BY <1>1, <1>3, FlattenDef
  <2> QED  BY <2>1, <2>2
<1>5. /\ \A i \in 0..Len(a) : Begins(p[i], x)
      /\ \A i \in 0..Len(b) : Begins(q[i], x)
  <2>1. \A i \in 0..Len(a) : Begins(p[i], p[Len(a)])
    BY <1>1, <1>2, JoinsGrow
  <2>2. \A i \in 0..Len(b) : Begins(q[i], q[Len(b)])
    BY <1>1, <1>3, JoinsGrow
  <2> QED  BY <1>4, <2>1, <2>2
<1> HIDE DEF x
<1>6. /\ \A i \in Nat : p[i] \in Seq(Alphabet) /\ q[i] \in Seq(Alphabet)
      /\ p[0] = q[0]
      /\ \A i \in 1..Len(a) : p[i] = p[i - 1] \o Encoded(a[i])
      /\ \A i \in 1..Len(b) : q[i] = q[i - 1] \o Encoded(b[i])
  BY <1>1, <1>2, <1>3 DEF Joins
<1> DEFINE T == {i \in Nat : i <= Len(a) => /\ i <= Len(b) /\ p[i] = q[i]
                                            /\ \A j \in 1..i : a[j] = b[j]}
<1>7. 0 \in T
  BY <1>1, <1>6
<1>8. ASSUME NEW i \in Nat, i \in T PROVE i + 1 \in T
  <2> SUFFICES ASSUME i + 1 <= Len(a)
               PROVE  /\ i + 1 <= Len(b) /\ p[i + 1] = q[i + 1]
                      /\ \A j \in 1..i + 1 : a[j] = b[j]
    OBVIOUS
  <2>1. /\ i <= Len(b) /\ p[i] = q[i] /\ \A j \in 1..i : a[j] = b[j]
        /\ i + 1 \in 1..Len(a) /\ i + 1 \in 0..Len(a) /\ (i + 1) - 1 = i
    BY <1>1, <1>8
  <2> DEFINE u == p[i]
             s == a[i + 1]
             t == b[i + 1]
             e == Encoded(s)
             f == Encoded(t)
  <2>2. /\ u \in Seq(Alphabet) /\ e \in Seq(Alphabet) /\ s \in Seq(Characters)
        /\ p[i + 1] = u \o e
        /\ Len(e) \in Nat /\ Len(e) >= 1
    <3>1. s \in Seq(Characters) /\ p[i + 1] = u \o e /\ u \in Seq(Alphabet)
      BY <1>1, <1>6, <2>1
    <3> HIDE DEF s
    <3>2. e \in Seq(Alphabet) /\ Len(e) = Len(Itoa[Len(s)]) + 1 + Len(s)
      BY <3>1, EncodedProperties
    <3>3. Len(Itoa[Len(s)]) \in Nat /\ Len(s) \in Nat
      BY <3>1, EncodedProperties
    <3>4. Len(e) \in Nat /\ Len(e) >= 1
      BY <3>2, <3>3
    <3> QED  BY <3>1, <3>2, <3>4
  <2>3. Begins(u \o e, x)
    BY <1>5, <2>1, <2>2
  <2>4. i + 1 <= Len(b)
    <3> SUFFICES ASSUME i = Len(b) PROVE FALSE
      BY <1>1, <2>1
    <3>1. u = x
      BY <1>4, <2>1
    <3> HIDE DEF u, e
    <3>2. Len(u \o e) = Len(u) + Len(e) /\ Len(u) \in Nat
      BY <2>2, Joined
    <3>3. Len(u \o e) <= Len(u)
      BY <2>3, <3>1 DEF Begins
    <3> QED  BY <2>2, <3>2, <3>3
  <2>5. /\ f \in Seq(Alphabet) /\ t \in Seq(Characters) /\ q[i + 1] = u \o f
        /\ Len(f) \in Nat
    <3>1. i + 1 \in 1..Len(b)
      BY <1>1, <2>4
    <3>2. t \in Seq(Characters) /\ q[i + 1] = u \o f
      BY <1>1, <1>6, <2>1, <3>1
    <3> HIDE DEF t
    <3> QED  BY <3>2, EncodedProperties
  <2>6. Begins(u \o f, x)
    <3>1. i + 1 \in 0..Len(b)
      BY <1>1, <2>4
    <3> QED  BY <1>5, <2>5, <3>1
  <2>7. s = t
    <3> HIDE DEF u, s, t
    <3>1. /\ Len(u) \in Nat /\ Len(u \o e) = Len(u) + Len(e)
          /\ \A k \in 1..Len(e) : (u \o e)[Len(u) + k] = e[k]
      <4> HIDE DEF e
      <4> QED  BY <2>2, Joined
    <3>2. /\ Len(u \o f) = Len(u) + Len(f)
          /\ \A k \in 1..Len(f) : (u \o f)[Len(u) + k] = f[k]
      <4> HIDE DEF f
      <4> QED  BY <2>2, <2>5, Joined
    <3>3. ASSUME NEW k \in 1..Len(e), k <= Len(f) PROVE e[k] = f[k]
      <4> HIDE DEF e, f
      <4>1. /\ k \in 1..Len(f) /\ Len(u) + k \in 1..Len(u \o e)
            /\ Len(u) + k \in 1..Len(u \o f)
        BY <2>2, <2>5, <3>1, <3>2, <3>3
      <4>2. x[Len(u) + k] = e[k] /\ x[Len(u) + k] = f[k]
        BY <2>3, <2>6, <3>1, <3>2, <4>1 DEF Begins
      <4> QED  BY <4>2
    <3>4. \A k \in 1..Len(Encoded(s)) : k <= Len(Encoded(t)) => Encoded(s)[k] = Encoded(t)[k]
      BY <3>3
    <3> QED  BY <2>2, <2>5, <3>4, EncodedPrefixFree
  <2>8. p[i + 1] = q[i + 1]
    BY <2>2, <2>5, <2>7
  <2>9. ASSUME NEW j \in 1..i + 1 PROVE a[j] = b[j]
    <3>1. j \in 1..i \/ j = i + 1
      OBVIOUS
    <3> QED  BY <2>1, <2>7, <3>1
  <2> QED  BY <2>4, <2>8, <2>9
<1>9. \A i \in Nat : i \in T
  <2> HIDE DEF T
  <2> QED  BY <1>7, <1>8, Induction
<1> QED  BY <1>1, <1>9

(* The encoding of a list tells which list it is (cache.go:152).           *)
LEMMA EncodedListDistinct ==
  ASSUME NEW a \in Seq(Seq(Characters)), NEW b \in Seq(Seq(Characters)),
         FlattenSeq(Encodings(a)) = FlattenSeq(Encodings(b))
  PROVE  a = b
<1>1. /\ Len(a) <= Len(b) /\ \A i \in 1..Len(a) : a[i] = b[i]
      /\ Len(b) <= Len(a) /\ Len(a) \in Nat /\ Len(b) \in Nat
  BY EncodedListIncluded, LenProperties
<1> QED  BY <1>1, SeqEqual

(* Whatever clients may ask for, no two requests have one key.             *)
LEMMA SpelledDistinguished == Distinguished(Spelled)
<1> SUFFICES ASSUME NEW r \in Spelled, NEW s \in Spelled,
                    newAccountCacheKey(r) = newAccountCacheKey(s)
             PROVE  r = s
  BY DEF Distinguished
<1>1. /\ r = [identifier |-> r.identifier, collections |-> r.collections]
      /\ s = [identifier |-> s.identifier, collections |-> s.collections]
      /\ r.collections \in Seq(Seq(Characters)) /\ s.collections \in Seq(Seq(Characters))
  BY KeysAssumption
<1>2. /\ r.identifier = s.identifier
      /\ FlattenSeq(Encodings(r.collections)) = FlattenSeq(Encodings(s.collections))
  BY DEF newAccountCacheKey, Encodings
<1>3. r.collections = s.collections
  BY <1>1, <1>2, EncodedListDistinct
<1> QED  BY <1>1, <1>2, <1>3

(* newAccountCacheKey keeps requests apart: of names of any length, in any *)
(* number, in any base of two or more.  An encoded name tells where it     *)
(* ends, so a key splits in one way only, digits and colons in the names   *)
(* notwithstanding.                                                        *)
THEOREM KeysStayDistinct == KeyedSpec => []KeysDistinguish
<1>1. KeysDistinguish
  BY SpelledDistinguished DEF KeysDistinguish
<1>2. KeyedInit => KeysDistinguish
  BY <1>1
<1>3. KeysDistinguish /\ [KeyedNext]_keyedVars => KeysDistinguish'
  BY SpelledDistinguished DEF KeysDistinguish
<1> QED  BY <1>2, <1>3, PTL DEF KeyedSpec

(* ... the requests the cache is used with among them.                     *)
LEMMA RequestsDistinguished == Distinguished(Requests)
  BY SpelledDistinguished, KeysAssumption DEF Distinguished

----------------------------------------------------------------------------
(* Under get and put *)

(* Whatever is asked, the cache takes steps of its own only: every theorem *)
(* about CacheSpec holds whichever requests get and put are called with.   *)
THEOREM RequestsUseCache == KeyedSpec => CacheSpec
<1>1. KeyedInit => CacheInit
  BY DEF KeyedInit
<1>2. [KeyedNext]_keyedVars => [CacheNext]_cacheVars
  BY KeysAssumption DEF KeyedNext, KeyedTick, Get, Put, PutLocked, CacheNext, keyedVars
<1> QED  BY <1>1, <1>2, PTL DEF KeyedSpec, CacheSpec

(* Each call of put in progress was made for a request with its key. *)
Asked ==
  /\ DOMAIN asking = DOMAIN putting
  /\ \A w \in DOMAIN putting :
       asking[w] \in Requests /\ putting[w].key = Key[asking[w]]

LEMMA AskedStep == Asked /\ [KeyedNext]_keyedVars => Asked'
<1> SUFFICES ASSUME Asked, [KeyedNext]_keyedVars PROVE Asked'
  OBVIOUS
<1>1. ASSUME UNCHANGED <<asking, putting>> PROVE Asked'
  BY <1>1 DEF Asked
<1>2. ASSUME NEW request \in Requests, Get(request) PROVE Asked'
  BY <1>1, <1>2 DEF Get, Hit, Expire, Miss, cacheVars
<1>3. ASSUME NEW w \in Workers, NEW request \in Requests, NEW result \in Results,
             Put(w, request, result)
      PROVE  Asked'
  BY <1>3 DEF Put, Stamp, Bind, Asked
<1>4. ASSUME NEW w \in DOMAIN putting, PutLocked(w) PROVE Asked'
  <2>1. putting' = Unbind(putting, w) /\ asking' = Unbind(asking, w)
    BY <1>4 DEF PutLocked, Store, Replace, Insert, InsertEvicting, Stored
  <2> QED  BY <2>1 DEF Unbind, Asked
<1> QED  BY <1>1, <1>2, <1>3, <1>4 DEF KeyedNext, KeyedTick, Tick, keyedVars, cacheVars

LEMMA AlwaysAsked == KeyedSpec => []Asked
<1>1. KeyedInit => Asked
  BY DEF KeyedInit, CacheInit, Asked
<1> QED  BY <1>1, AskedStep, PTL DEF KeyedSpec

----------------------------------------------------------------------------
(* The cache implements ResultStore. *)

PutOf(w) == [key |-> asking[w], entry |-> putting[w].entry]

Offered == {PutOf(w) : w \in DOMAIN putting}

Kept == {[key |-> r, entry |-> entries[Key[r]]] : r \in Answerable}

LEMMA StoreIs == InStore!store = <<clock, Offered, Kept>>
  BY DEF InStore!store, Offered, Kept, PutOf, Key, Answerable

LEMMA StoredMap ==
  ASSUME NEW w \in DOMAIN putting, Asked,
         putting' = Unbind(putting, w), asking' = Unbind(asking, w)
  PROVE  Offered' \in {Offered, Offered \ {PutOf(w)}}
<1>1. \A v \in DOMAIN putting' : v \in DOMAIN putting /\ PutOf(v)' = PutOf(v)
  BY DEF Unbind, PutOf, Asked
<1>2. \A v \in DOMAIN putting \ {w} : v \in DOMAIN putting' /\ PutOf(v)' = PutOf(v)
  BY DEF Unbind, PutOf, Asked
<1>3. Offered' \subseteq Offered
  BY <1>1 DEF Offered
<1>4. Offered \ {PutOf(w)} \subseteq Offered'
  BY <1>2 DEF Offered
<1> QED  BY <1>3, <1>4

(* A store that keeps the entries of f, some of those there were.  That it *)
(* displaces no other request's result takes keys that tell them apart     *)
(* (RequestsDistinguished).                                                *)
LEMMA KeepStep ==
  ASSUME Asked, NEW w \in DOMAIN putting, Stored(w),
         asking' = Unbind(asking, w), NEW f,
         DOMAIN f \subseteq DOMAIN entries, \A k \in DOMAIN f : f[k] = entries[k],
         entries' = Bind(f, putting[w].key, putting[w].entry)
  PROVE  InStore!Keep(PutOf(w))
<1> DEFINE request == asking[w]
<1>1. request \in Requests /\ putting[w].key = Key[request]
  BY DEF Asked
<1>2. \A r \in Requests : Key[r] = Key[request] => r = request
  BY <1>1, RequestsDistinguished DEF Key, Distinguished
<1>3. /\ DOMAIN entries' = DOMAIN f \cup {Key[request]}
      /\ \A k \in DOMAIN entries' :
           entries'[k] = IF k = Key[request] THEN putting[w].entry ELSE entries[k]
  BY <1>1 DEF Bind
<1>4. Key' = Key
  BY DEF Key
<1>5. PutOf(w) \in Kept'
  <2>1. request \in Answerable' /\ entries'[Key[request]] = putting[w].entry
    BY <1>1, <1>3, <1>4 DEF Answerable
  <2>2. PutOf(w) = [key |-> request, entry |-> entries'[Key'[request]]]
    BY <1>4, <2>1 DEF PutOf
  <2> QED  BY <2>1, <2>2 DEF Kept
<1>6. ASSUME NEW other \in Kept'
      PROVE  (other \in Kept /\ other.key # asking[w]) \/ other = PutOf(w)
  <2>1. PICK r \in Answerable' : other = [key |-> r, entry |-> entries'[Key[r]]]
    BY <1>4, <1>6 DEF Kept
  <2>2. r \in Requests /\ Key[r] \in DOMAIN entries'
    BY <1>4, <2>1 DEF Answerable
  <2>3. CASE r = request
    BY <1>3, <2>1, <2>2, <2>3 DEF PutOf
  <2>4. CASE r # request
    <3>1. Key[r] # Key[request]
      BY <1>2, <2>2, <2>4
    <3>2. Key[r] \in DOMAIN entries /\ entries'[Key[r]] = entries[Key[r]]
      BY <1>3, <2>2, <3>1
    <3>3. r \in Answerable
      BY <2>2, <3>2 DEF Answerable
    <3> QED  BY <2>1, <2>4, <3>2, <3>3 DEF Kept
  <2> QED  BY <2>3, <2>4
<1>7. PutOf(w).key = asking[w]
  BY DEF PutOf
<1>8. Kept' \subseteq {other \in Kept : other.key # PutOf(w).key} \cup {PutOf(w)}
  BY <1>6, <1>7
<1>9. UNCHANGED clock /\ Offered' \in {Offered, Offered \ {PutOf(w)}}
  BY StoredMap DEF Stored
<1> QED  BY <1>5, <1>8, <1>9 DEF InStore!Keep, Offered, Kept, PutOf, Key, Answerable

LEMMA StoreStep ==
  ASSUME Asked, [KeyedNext]_keyedVars
  PROVE  [InStore!Next]_InStore!store
<1>1. ASSUME UNCHANGED <<entries, putting, asking>>
      PROVE  UNCHANGED <<Offered, Kept>>
  BY <1>1 DEF Offered, PutOf, Kept, Key, Answerable
<1>2. CASE KeyedTick
  <2>1. clock' = clock + 1
    BY <1>2 DEF KeyedTick, Tick
  <2>2. UNCHANGED <<Offered, Kept>>
    BY <1>1, <1>2 DEF KeyedTick, Tick
  <2>3. InStore!Advance
    BY <2>1, <2>2 DEF InStore!Advance, Offered, PutOf, Kept
  <2> QED  BY <2>3 DEF InStore!Next
<1>3. ASSUME NEW r \in Requests, Get(r), Hit(Key[r]) \/ Miss(Key[r])
      PROVE  UNCHANGED InStore!store
  BY <1>1, <1>3, StoreIs DEF Get, Hit, Miss, cacheVars, InStore!store, Offered, PutOf, Kept
<1>4. ASSUME NEW r \in Requests, Get(r), Expire(Key[r]) PROVE InStore!Next
  <2>1. /\ \A k \in DOMAIN entries' : k \in DOMAIN entries /\ entries'[k] = entries[k]
        /\ UNCHANGED <<clock, putting, asking>>
    BY <1>4 DEF Get, Expire, Unbind
  <2>2. Kept' \subseteq Kept
    BY <2>1 DEF Kept, Answerable, Key
  <2>3. UNCHANGED <<clock, Offered>>
    BY <2>1 DEF Offered, PutOf
  <2>4. InStore!Forget
    BY <2>2, <2>3 DEF InStore!Forget, Kept, Offered, PutOf
  <2> QED  BY <2>4 DEF InStore!Next
<1>5. ASSUME NEW w \in Workers, NEW r \in Requests, NEW result \in Results,
             Put(w, r, result)
      PROVE  InStore!Next
  <2> DEFINE entry == [result |-> result, expiresAt |-> clock + Ttl(result),
                      stampedAt |-> clock]
  <2>1. /\ w \notin DOMAIN putting
        /\ putting' = Bind(putting, w, [key |-> Key[r], entry |-> entry])
        /\ asking' = Bind(asking, w, r)
        /\ UNCHANGED <<clock, entries>>
    BY <1>5 DEF Put, Stamp
  <2> HIDE DEF entry
  <2>2. /\ DOMAIN putting' = DOMAIN putting \cup {w}
        /\ PutOf(w)' = [key |-> r, entry |-> entry]
        /\ \A v \in DOMAIN putting : PutOf(v)' = PutOf(v)
    BY <2>1 DEF Bind, PutOf, Asked
  <2>3. Offered' = Offered \cup {[key |-> r, entry |-> entry]}
    BY <2>2 DEF Offered
  <2>4. Kept' = Kept
    BY <2>1 DEF Kept, Key, Answerable
  <2>5. [x \in Results |-> Ttl(x)][result] = Ttl(result)
    OBVIOUS
  <2>6. InStore!Offer(r, result)
    BY <2>1, <2>3, <2>4, <2>5 DEF InStore!Offer, Offered, Kept, PutOf, entry
  <2> QED  BY <2>6 DEF InStore!Next
<1>6. ASSUME NEW w \in DOMAIN putting, PutLocked(w) PROVE InStore!Next
  <2>1. asking' = Unbind(asking, w)
    BY <1>6 DEF PutLocked
  <2>2. ASSUME Replace(w) \/ Insert(w) PROVE InStore!Keep(PutOf(w))
    <3>1. Stored(w) /\ entries' = Bind(entries, putting[w].key, putting[w].entry)
      BY <2>2 DEF Replace, Insert
    <3> QED  BY <2>1, <3>1, KeepStep
  <2>3. ASSUME InsertEvicting(w) PROVE InStore!Keep(PutOf(w))
    <3> DEFINE f == Unbind(entries, Victim)
    <3>1. DOMAIN f \subseteq DOMAIN entries /\ \A k \in DOMAIN f : f[k] = entries[k]
      BY DEF Unbind
    <3>2. Stored(w) /\ entries' = Bind(f, putting[w].key, putting[w].entry)
      BY <2>3 DEF InsertEvicting
    <3> HIDE DEF f
    <3> QED  BY <2>1, <3>1, <3>2, KeepStep
  <2>4. InStore!Keep(PutOf(w))
    BY <1>6, <2>2, <2>3 DEF PutLocked, Store
  <2>5. PutOf(w) \in Offered
    BY DEF Offered
  <2> QED  BY <2>4, <2>5 DEF InStore!Next, InStore!Keep, Offered, PutOf
<1>7. CASE UNCHANGED keyedVars
  BY <1>1, <1>7, StoreIs DEF keyedVars, cacheVars, InStore!store, Offered, PutOf, Kept
<1> QED
  BY <1>2, <1>3, <1>4, <1>5, <1>6, <1>7 DEF KeyedNext, Get

(* get answers a request only with what was put for the same identifier    *)
(* and list, and no longer than its own put allows, whatever is hit,       *)
(* replaced or evicted meanwhile and however names are spelled.            *)
THEOREM CacheImplementsStore == KeyedSpec => ImplementsStore
<1>1. KeyedInit => InStore!Init
  BY DEF KeyedInit, CacheInit, InStore!Init, Answerable
<1>2. Asked /\ [KeyedNext]_keyedVars => [InStore!Next]_InStore!store
  BY StoreStep
<1> QED  BY <1>1, <1>2, AlwaysAsked, PTL DEF KeyedSpec, ImplementsStore, InStore!Spec

============================================================================
