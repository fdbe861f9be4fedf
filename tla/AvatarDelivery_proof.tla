------------------------ MODULE AvatarDelivery_proof ------------------------
(***************************************************************************)
(* Proofs about the age of avatars, for any durations, any images and any  *)
(* number of requests.                                                     *)
(***************************************************************************)
EXTENDS AvatarDelivery, TLAPS

(* a was the avatar at most age before the time at.                        *)
Within(a, at, age) ==
  /\ a \in Avatars
  /\ lastCurrent[a] \in Nat
  /\ at - lastCurrent[a] <= age

(* Strictly less than age before.                                          *)
Less(a, at, age) ==
  /\ a \in Avatars
  /\ lastCurrent[a] \in Nat
  /\ at - lastCurrent[a] < age

RequestInv(r) ==
  /\ pending[r].phase # "idle" =>
       clock <= pending[r].due /\ pending[r].due <= clock + LookupTimeout
  /\ pending[r].phase = "read" /\ pending[r].result \in Avatars =>
       Within(pending[r].result, pending[r].due, LookupTimeout)
  /\ pending[r].phase \in {"looked up", "fetching"} /\ pending[r].result \in Avatars =>
       Less(pending[r].result, pending[r].due, 2 * LookupTimeout + Ttl)
  /\ pending[r].phase = "fetching" => pending[r].result \in Avatars

(* What the cache holds is at most a lookup and a TTL old when it expires, *)
(* what is being fetched at most two lookups and a TTL at its deadline.    *)
Inv ==
  /\ TypeOK
  /\ avatar \in Avatars => lastCurrent[avatar] = clock
  /\ \A b \in Avatars : lastCurrent[b] <= clock
  /\ cached.result \in Avatars => Within(cached.result, cached.until, LookupTimeout + Ttl)
  /\ \A r \in Requests : RequestInv(r)
  /\ copy # Nothing =>
       /\ copy.image \notin Misdeclared
       /\ Less(copy.image, copy.until, 2 * LookupTimeout + Ttl + MaxAge)

----------------------------------------------------------------------------
LEMMA InitInv == Init => Inv
<1> SUFFICES ASSUME Init PROVE Inv
  OBVIOUS
<1>1. TypeOK
  BY DeliveryAssumption DEF Init, TypeOK, Idle, Nothing, NotCached, Result, Never
<1>2. ASSUME avatar \in Avatars PROVE lastCurrent[avatar] = clock
  BY <1>2 DEF Init
<1>3. cached.result \notin Avatars
  BY DeliveryAssumption DEF Init, NotCached
<1>4. \A r \in Requests : RequestInv(r)
  BY DEF Init, Idle, RequestInv
<1>5. copy = Nothing
  BY DEF Init
<1>6. \A b \in Avatars : lastCurrent[b] <= clock
  BY DEF Init, Never
<1> QED  BY <1>1, <1>2, <1>3, <1>4, <1>5, <1>6 DEF Inv

(* As long as the clock stands still and nothing is forgotten, a request   *)
(* that does not move keeps its invariant.                                 *)
LEMMA OthersKept ==
  ASSUME Inv, NEW r \in Requests, pending'[r] = pending[r],
         UNCHANGED <<clock, lastCurrent>>
  PROVE  RequestInv(r)'
BY DEF Inv, RequestInv, Within, Less

(* A step of one request, from its effect on that request, the cache and   *)
(* the copy.                                                               *)
LEMMA RequestStep ==
  ASSUME Inv, NEW r \in Requests,
         NEW q, q \in [phase : {"idle", "reading", "read", "looked up", "fetching"},
                       due : Nat, result : Result],
         pending' = [pending EXCEPT ![r] = q],
         UNCHANGED <<clock, avatar, lastCurrent>>,
         RequestInv(r)',
         cached' \in [result : Result, until : Nat],
         cached'.result \in Avatars => Within(cached'.result, cached'.until, LookupTimeout + Ttl),
         copy' \in [image : Avatars \cup {NoAvatar, Garbage}, until : Nat],
         copy' # Nothing =>
           /\ copy'.image \notin Misdeclared
           /\ Less(copy'.image, copy'.until, 2 * LookupTimeout + Ttl + MaxAge)
  PROVE  Inv'
<1>1. TypeOK'
  BY DEF Inv, TypeOK
<1>2. \A s \in Requests : RequestInv(s)'
  <2> TAKE s \in Requests
  <2>1. CASE s = r
    BY <2>1
  <2>2. CASE s # r
    <3>1. pending'[s] = pending[s]
      BY <2>2 DEF Inv, TypeOK
    <3> QED  BY <3>1, OthersKept
  <2> QED  BY <2>1, <2>2
<1>3. (avatar \in Avatars => lastCurrent[avatar] = clock)'
  BY DEF Inv
<1>4. (cached.result \in Avatars => Within(cached.result, cached.until, LookupTimeout + Ttl))'
  BY DEF Within
<1>5. (copy # Nothing =>
         /\ copy.image \notin Misdeclared
         /\ Less(copy.image, copy.until, 2 * LookupTimeout + Ttl + MaxAge))'
  BY DEF Less, Nothing
<1> QED  BY <1>1, <1>2, <1>3, <1>4, <1>5 DEF Inv

LEMMA Types ==
  ASSUME TypeOK
  PROVE  /\ clock \in Nat /\ clock <= MaxClock /\ MaxClock \in Nat
         /\ cached.until \in Nat /\ copy.until \in Nat
         /\ cached.result \in Result
         /\ \A r \in Requests : pending[r].due \in Nat /\ pending[r].result \in Result
         /\ \A b \in Avatars : lastCurrent[b] \in Int /\ lastCurrent[b] <= MaxClock
         /\ LookupTimeout \in Nat /\ Ttl \in Nat /\ Ttl > 0 /\ ErrorTtl \in Nat /\ MaxAge \in Nat
<1>1. clock \in Nat /\ clock <= MaxClock /\ MaxClock \in Nat
  <2>1. clock \in 0..MaxClock /\ MaxClock \in Nat
    BY DeliveryAssumption DEF TypeOK
  <2> QED  BY ONLY <2>1
<1>2. cached.until \in Nat /\ copy.until \in Nat /\ cached.result \in Result
  BY DEF TypeOK
<1>3. \A r \in Requests : pending[r].due \in Nat /\ pending[r].result \in Result
  BY DEF TypeOK
<1>4. ASSUME NEW b \in Avatars PROVE lastCurrent[b] \in Int /\ lastCurrent[b] <= MaxClock
  <2>1. lastCurrent[b] \in {Never} \cup 0..MaxClock
    BY DEF TypeOK
  <2> QED  BY <1>1, <2>1 DEF Never
<1> QED  BY <1>1, <1>2, <1>3, <1>4, DeliveryAssumption

(* The clock and the account change, and with them the history.            *)
LEMMA HistoryStep ==
  ASSUME Inv,
         clock' \in 0..MaxClock, clock' >= clock,
         avatar' \in Avatars \cup {NoAvatar},
         lastCurrent' \in [Avatars -> {Never} \cup 0..MaxClock],
         avatar' \in Avatars => lastCurrent'[avatar'] = clock',
         \A b \in Avatars : lastCurrent[b] \in Nat =>
           lastCurrent'[b] \in Nat /\ lastCurrent'[b] >= lastCurrent[b],
         \A b \in Avatars : lastCurrent'[b] <= clock',
         \A r \in Requests : pending[r].phase # "idle" => clock' <= pending[r].due,
         UNCHANGED <<cached, pending, copy>>
  PROVE  Inv'
<1> USE Types
<1>0. TypeOK
  BY DEF Inv
<1>1. TypeOK'
  BY <1>0 DEF TypeOK
<1>2. clock' \in Nat
  BY <1>0
<1>3. ASSUME NEW a \in Avatars, NEW at \in Int, NEW age \in Int, lastCurrent[a] \in Nat
      PROVE  /\ lastCurrent'[a] \in Nat
             /\ at - lastCurrent[a] <= age => at - lastCurrent'[a] <= age
             /\ at - lastCurrent[a] < age => at - lastCurrent'[a] < age
  <2>1. lastCurrent'[a] \in Nat /\ lastCurrent'[a] >= lastCurrent[a]
    BY <1>3
  <2> DEFINE x == lastCurrent[a]
             y == lastCurrent'[a]
  <2> HIDE DEF x, y
  <2>2. x \in Nat /\ y \in Nat /\ y >= x
    BY <1>3, <2>1 DEF x, y
  <2>3. (at - x <= age => at - y <= age) /\ (at - x < age => at - y < age)
    BY ONLY <2>2, at \in Int, age \in Int
  <2> QED  BY <2>2, <2>3 DEF x, y
<1>4. (cached.result \in Avatars => Within(cached.result, cached.until, LookupTimeout + Ttl))'
  <2> SUFFICES ASSUME cached.result \in Avatars
               PROVE  Within(cached.result, cached.until, LookupTimeout + Ttl)'
    OBVIOUS
  <2>1. cached.until \in Int /\ LookupTimeout + Ttl \in Int
    BY <1>0
  <2> QED  BY <1>3, <2>1 DEF Inv, Within
<1>5. (copy # Nothing =>
         /\ copy.image \notin Misdeclared
         /\ Less(copy.image, copy.until, 2 * LookupTimeout + Ttl + MaxAge))'
  <2> SUFFICES ASSUME copy # Nothing
               PROVE  /\ copy.image \notin Misdeclared
                      /\ Less(copy.image, copy.until, 2 * LookupTimeout + Ttl + MaxAge)'
    BY DEF Nothing
  <2>1. copy.until \in Int /\ 2 * LookupTimeout + Ttl + MaxAge \in Int
    BY <1>0
  <2> QED  BY <1>3, <2>1 DEF Inv, Less
<1>6. ASSUME NEW r \in Requests PROVE RequestInv(r)'
  <2>0. RequestInv(r) /\ pending' = pending
    BY DEF Inv
  <2>1. /\ pending[r].due \in Int /\ LookupTimeout \in Int
        /\ 2 * LookupTimeout + Ttl \in Int
    BY <1>0
  <2>2. ASSUME pending[r].phase # "idle"
        PROVE  clock' <= pending[r].due /\ pending[r].due <= clock' + LookupTimeout
    <3>1. clock' <= pending[r].due /\ pending[r].due <= clock + LookupTimeout
      BY <2>0, <2>2 DEF RequestInv
    <3> QED  BY <1>0, <1>2, <2>1, <3>1
  <2>3. ASSUME pending[r].phase = "read", pending[r].result \in Avatars
        PROVE  Within(pending[r].result, pending[r].due, LookupTimeout)'
    BY <1>3, <2>0, <2>1, <2>3 DEF RequestInv, Within
  <2>4. ASSUME pending[r].phase \in {"looked up", "fetching"}, pending[r].result \in Avatars
        PROVE  Less(pending[r].result, pending[r].due, 2 * LookupTimeout + Ttl)'
    BY <1>3, <2>0, <2>1, <2>4 DEF RequestInv, Less
  <2> QED  BY <2>0, <2>2, <2>3, <2>4 DEF RequestInv
<1> QED  BY <1>1, <1>4, <1>5, <1>6 DEF Inv

LEMMA PublishInv == ASSUME Inv, NEW a \in Avatars \cup {NoAvatar}, Publish(a) PROVE Inv'
<1>0. TypeOK
  BY DEF Inv
<1>1. clock \in Nat /\ clock <= MaxClock /\ MaxClock \in Nat
  BY <1>0, Types
<1>2. /\ avatar' = a
      /\ lastCurrent' = [b \in Avatars |-> IF b \in {a, avatar} THEN clock ELSE lastCurrent[b]]
      /\ UNCHANGED <<clock, cached, pending, copy>>
  BY DEF Publish
<1>3. lastCurrent' \in [Avatars -> {Never} \cup 0..MaxClock]
  <2>1. ASSUME NEW b \in Avatars
        PROVE  (IF b \in {a, avatar} THEN clock ELSE lastCurrent[b]) \in {Never} \cup 0..MaxClock
    BY <1>0, <1>1 DEF TypeOK
  <2> QED  BY <1>2, <2>1
<1>4. ASSUME NEW b \in Avatars, lastCurrent[b] \in Nat
      PROVE  lastCurrent'[b] \in Nat /\ lastCurrent'[b] >= lastCurrent[b]
  <2>1. lastCurrent[b] <= clock
    BY <1>0, <1>4 DEF Inv
  <2> QED  BY <1>1, <1>2, <1>4, <2>1
<1>5. \A r \in Requests : pending[r].phase # "idle" => clock <= pending[r].due
  BY DEF Inv, RequestInv
<1>6. clock' \in 0..MaxClock /\ clock' >= clock /\ (avatar' \in Avatars => lastCurrent'[avatar'] = clock')
  BY <1>1, <1>2
<1>7. avatar' \in Avatars \cup {NoAvatar}
  BY <1>2
<1>8. \A b \in Avatars : lastCurrent'[b] <= clock'
  BY <1>1, <1>2 DEF Inv
<1> QED  BY <1>2, <1>3, <1>4, <1>5, <1>6, <1>7, <1>8, HistoryStep

LEMMA TickInv == Inv /\ Tick => Inv'
<1> SUFFICES ASSUME Inv, Tick PROVE Inv'
  OBVIOUS
<1>0. TypeOK
  BY DEF Inv
<1>1. clock \in Nat /\ clock <= MaxClock /\ MaxClock \in Nat /\ clock < MaxClock
  BY <1>0, Types DEF Tick
<1>2. /\ clock' = clock + 1
      /\ lastCurrent' = [b \in Avatars |-> IF b = avatar THEN clock + 1 ELSE lastCurrent[b]]
      /\ UNCHANGED <<avatar, cached, pending, copy>>
      /\ \A r \in Requests : pending[r].phase # "idle" => clock < pending[r].due
  BY DEF Tick
<1>3. lastCurrent' \in [Avatars -> {Never} \cup 0..MaxClock]
  <2>1. ASSUME NEW b \in Avatars
        PROVE  (IF b = avatar THEN clock + 1 ELSE lastCurrent[b]) \in {Never} \cup 0..MaxClock
    <3>1. clock + 1 \in 0..MaxClock
      BY <1>1
    <3>2. lastCurrent[b] \in {Never} \cup 0..MaxClock
      BY <1>0 DEF TypeOK
    <3> QED  BY <3>1, <3>2
  <2> QED  BY <1>2, <2>1
<1>4. ASSUME NEW b \in Avatars, lastCurrent[b] \in Nat
      PROVE  lastCurrent'[b] \in Nat /\ lastCurrent'[b] >= lastCurrent[b]
  <2>1. lastCurrent[b] <= clock
    BY <1>0, <1>4 DEF Inv
  <2> QED  BY <1>1, <1>2, <1>4, <2>1
<1>5. \A r \in Requests : pending[r].phase # "idle" => clock' <= pending[r].due
  BY <1>0, <1>1, <1>2, Types
<1>6. clock' \in 0..MaxClock /\ clock' >= clock /\ (avatar' \in Avatars => lastCurrent'[avatar'] = clock')
  BY <1>1, <1>2
<1>7. avatar' \in Avatars \cup {NoAvatar}
  BY <1>0, <1>2 DEF TypeOK
<1>8. \A b \in Avatars : lastCurrent'[b] <= clock'
  <2>1. \A b \in Avatars : lastCurrent[b] \in Int /\ lastCurrent[b] <= clock
    BY <1>0, Types DEF Inv
  <2> QED  BY <1>1, <1>2, <2>1
<1> QED  BY <1>2, <1>3, <1>4, <1>5, <1>6, <1>7, <1>8, HistoryStep

----------------------------------------------------------------------------
(* The entry was stored at most a lookup and a TTL before it is used up,   *)
(* and the request has a lookup's time from now.                           *)
LEMMA HitInv == ASSUME Inv, NEW r \in Requests, Hit(r) PROVE Inv'
<1> DEFINE q == [phase |-> "looked up", due |-> clock + LookupTimeout, result |-> cached.result]
<1>0. TypeOK
  BY DEF Inv
<1>1. /\ clock < cached.until /\ pending' = [pending EXCEPT ![r] = q]
      /\ UNCHANGED <<clock, avatar, cached, copy, lastCurrent>>
  BY DEF Hit
<1>2. q \in [phase : {"idle", "reading", "read", "looked up", "fetching"}, due : Nat, result : Result]
  BY <1>0, Types
<1>3. q.phase = "looked up" /\ q.due = clock + LookupTimeout /\ q.result = cached.result
  OBVIOUS
<1>4. pending'[r] = q
  BY <1>0, <1>1 DEF TypeOK
<1> HIDE DEF q
<1>5. ASSUME cached.result \in Avatars
      PROVE  Less(cached.result, clock + LookupTimeout, 2 * LookupTimeout + Ttl)
  <2> DEFINE x == lastCurrent[cached.result]
             u == cached.until
  <2>1. x \in Nat /\ u - x <= LookupTimeout + Ttl /\ clock < u
    BY <1>1, <1>5 DEF Inv, Within
  <2>2. clock \in Nat /\ u \in Nat /\ LookupTimeout \in Nat /\ Ttl \in Nat
    BY <1>0, Types
  <2> HIDE DEF x, u
  <2>3. (clock + LookupTimeout) - x < 2 * LookupTimeout + Ttl
    BY ONLY <2>1, <2>2
  <2>4. /\ lastCurrent[cached.result] \in Nat
        /\ (clock + LookupTimeout) - lastCurrent[cached.result] < 2 * LookupTimeout + Ttl
    BY ONLY <2>1, <2>3 DEF x
  <2> QED  BY ONLY <1>5, <2>4 DEF Less
<1>6. clock' <= q.due /\ q.due <= clock' + LookupTimeout
  <2>1. clock \in Nat /\ LookupTimeout \in Nat
    BY <1>0, Types
  <2>2. clock <= clock + LookupTimeout
    BY ONLY <2>1
  <2>3. clock' = clock /\ q.due = clock + LookupTimeout
    BY <1>1, <1>3
  <2> QED  BY ONLY <2>1, <2>2, <2>3
<1>7. RequestInv(r)'
  BY <1>1, <1>3, <1>4, <1>5, <1>6 DEF RequestInv, Less
<1> QED  BY <1>0, <1>1, <1>2, <1>7, RequestStep DEF Inv, TypeOK

LEMMA MissInv == ASSUME Inv, NEW r \in Requests, Miss(r) PROVE Inv'
<1> DEFINE q == [phase |-> "reading", due |-> clock + LookupTimeout, result |-> NoAvatar]
<1>0. TypeOK
  BY DEF Inv
<1>1. /\ pending' = [pending EXCEPT ![r] = q]
      /\ UNCHANGED <<clock, avatar, cached, copy, lastCurrent>>
  BY DEF Miss
<1>2. q \in [phase : {"idle", "reading", "read", "looked up", "fetching"}, due : Nat, result : Result]
  BY <1>0, Types DEF Result
<1>3. q.phase = "reading" /\ q.due = clock + LookupTimeout
  OBVIOUS
<1>4. pending'[r] = q
  BY <1>0, <1>1 DEF TypeOK
<1> HIDE DEF q
<1>5. clock' <= q.due /\ q.due <= clock' + LookupTimeout
  BY <1>0, <1>1, <1>3, Types
<1>6. RequestInv(r)'
  BY <1>3, <1>4, <1>5 DEF RequestInv
<1> QED  BY <1>0, <1>1, <1>2, <1>6, RequestStep DEF Inv, TypeOK

(* What is read now is current now, within a lookup of the deadline.       *)
LEMMA ReadInv == ASSUME Inv, NEW r \in Requests, Read(r) PROVE Inv'
<1>0. TypeOK
  BY DEF Inv
<1>1. PICK result \in {avatar, Failed} : Step(r, "read", result)
  BY DEF Read
<1> DEFINE q == [phase |-> "read", due |-> pending[r].due, result |-> result]
<1>2. /\ pending[r].phase = "reading" /\ pending' = [pending EXCEPT ![r] = q]
      /\ UNCHANGED <<clock, avatar, cached, copy, lastCurrent>>
  BY <1>0, <1>1 DEF Read, Step, TypeOK
<1>3. q \in [phase : {"idle", "reading", "read", "looked up", "fetching"}, due : Nat, result : Result]
  <2>1. result \in Result
    BY <1>0 DEF Result, TypeOK
  <2> QED  BY <1>0, <2>1, Types
<1>4. q.phase = "read" /\ q.due = pending[r].due /\ q.result = result
  OBVIOUS
<1>5. pending'[r] = q
  BY <1>0, <1>2 DEF TypeOK
<1> HIDE DEF q
<1>6. clock <= pending[r].due /\ pending[r].due <= clock + LookupTimeout
  BY <1>2 DEF Inv, RequestInv
<1>7. ASSUME result \in Avatars PROVE Within(result, pending[r].due, LookupTimeout)
  <2>1. result = avatar /\ lastCurrent[avatar] = clock
    BY <1>7, DeliveryAssumption DEF Inv
  <2>2. clock \in Nat /\ pending[r].due \in Nat /\ LookupTimeout \in Nat
    BY <1>0, Types
  <2>3. pending[r].due - clock <= LookupTimeout
    BY <1>6, <2>2
  <2> QED  BY <1>7, <2>1, <2>2, <2>3 DEF Within
<1>8. RequestInv(r)'
  BY <1>2, <1>4, <1>5, <1>6, <1>7 DEF RequestInv, Within
<1> QED  BY <1>0, <1>2, <1>3, <1>8, RequestStep DEF Inv, TypeOK

(* It is stored by the deadline and lives for a TTL from there.            *)
LEMMA PutInv == ASSUME Inv, NEW r \in Requests, Put(r) PROVE Inv'
<1> DEFINE q == [phase |-> "looked up", due |-> pending[r].due, result |-> pending[r].result]
           d == pending[r].due
           a == pending[r].result
<1>0. TypeOK
  BY DEF Inv
<1>1. /\ pending[r].phase = "read" /\ pending' = [pending EXCEPT ![r] = q]
      /\ cached' = [result |-> a, until |-> clock + IF a = Failed THEN ErrorTtl ELSE Ttl]
      /\ UNCHANGED <<clock, avatar, copy, lastCurrent>>
  BY <1>0 DEF Put, Step, TypeOK
<1>2. q \in [phase : {"idle", "reading", "read", "looked up", "fetching"}, due : Nat, result : Result]
  BY <1>0, Types
<1>3. q.phase = "looked up" /\ q.due = d /\ q.result = a
  OBVIOUS
<1>4. pending'[r] = q
  BY <1>0, <1>1 DEF TypeOK
<1>5. /\ clock \in Nat /\ d \in Nat /\ LookupTimeout \in Nat /\ Ttl \in Nat /\ Ttl > 0
      /\ ErrorTtl \in Nat /\ a \in Result
  BY <1>0, Types
<1>6. clock <= d /\ d <= clock + LookupTimeout
  BY <1>1 DEF Inv, RequestInv
<1> HIDE DEF q
<1>7. cached' \in [result : Result, until : Nat]
  BY <1>1, <1>5
<1>8. ASSUME a \in Avatars
      PROVE  /\ Within(a, clock + Ttl, LookupTimeout + Ttl)
             /\ Less(a, d, 2 * LookupTimeout + Ttl)
             /\ a # Failed
  <2> DEFINE x == lastCurrent[a]
  <2>1. x \in Nat /\ d - x <= LookupTimeout
    BY <1>1, <1>8 DEF Inv, RequestInv, Within
  <2> HIDE DEF x, d, a
  <2>2. (clock + Ttl) - x <= LookupTimeout + Ttl /\ d - x < 2 * LookupTimeout + Ttl
    BY ONLY <1>5, <1>6, <2>1
  <2>3. /\ lastCurrent[a] \in Nat
        /\ (clock + Ttl) - lastCurrent[a] <= LookupTimeout + Ttl
        /\ d - lastCurrent[a] < 2 * LookupTimeout + Ttl
    BY ONLY <2>1, <2>2 DEF x
  <2>4. a # Failed
    BY <1>8, DeliveryAssumption
  <2> QED  BY ONLY <1>8, <2>3, <2>4 DEF Within, Less
<1> HIDE DEF d, a
<1>9. cached'.result \in Avatars => Within(cached'.result, cached'.until, LookupTimeout + Ttl)
  BY <1>1, <1>8
<1>10. RequestInv(r)'
  BY <1>1, <1>3, <1>4, <1>6, <1>8 DEF RequestInv, Less
<1> QED  BY <1>0, <1>1, <1>2, <1>7, <1>9, <1>10, RequestStep DEF Inv, TypeOK

(* The request is over, and nothing else is touched.                       *)
LEMMA EndInv ==
  ASSUME Inv, NEW r \in Requests, End(r), UNCHANGED <<clock, avatar, lastCurrent, cached>>,
         copy' \in [image : Avatars \cup {NoAvatar, Garbage}, until : Nat],
         copy' # Nothing =>
           /\ copy'.image \notin Misdeclared
           /\ Less(copy'.image, copy'.until, 2 * LookupTimeout + Ttl + MaxAge)
  PROVE  Inv'
<1>0. TypeOK
  BY DEF Inv
<1>1. pending' = [pending EXCEPT ![r] = Idle]
  BY DEF End
<1>2. Idle \in [phase : {"idle", "reading", "read", "looked up", "fetching"}, due : Nat, result : Result]
  BY DEF Idle, Result
<1>3. pending'[r] = Idle
  BY <1>0, <1>1 DEF TypeOK
<1>4. RequestInv(r)'
  BY <1>3 DEF RequestInv, Idle
<1> QED  BY <1>0, <1>1, <1>2, <1>4, RequestStep DEF Inv, TypeOK

LEMMA FetchInv == ASSUME Inv, NEW r \in Requests, Fetch(r) PROVE Inv'
<1> DEFINE q == [phase |-> "fetching", due |-> pending[r].due, result |-> pending[r].result]
<1>0. TypeOK
  BY DEF Inv
<1>1. /\ pending[r].phase = "looked up" /\ pending[r].result \in Avatars
      /\ pending' = [pending EXCEPT ![r] = q]
      /\ UNCHANGED <<clock, avatar, cached, copy, lastCurrent>>
  BY <1>0 DEF Fetch, Step, TypeOK
<1>2. q \in [phase : {"idle", "reading", "read", "looked up", "fetching"}, due : Nat, result : Result]
  BY <1>0, Types
<1>3. q.phase = "fetching" /\ q.due = pending[r].due /\ q.result = pending[r].result
  OBVIOUS
<1>4. pending'[r] = q
  BY <1>0, <1>1 DEF TypeOK
<1> HIDE DEF q
<1>5. RequestInv(r)
  BY DEF Inv
<1>6. RequestInv(r)'
  BY <1>1, <1>3, <1>4, <1>5 DEF RequestInv, Less
<1> QED  BY <1>0, <1>1, <1>2, <1>6, RequestStep DEF Inv, TypeOK

(* It is delivered by the deadline and kept for max-age from there.        *)
LEMMA DeliverInv ==
  ASSUME Inv, NEW r \in Requests, NEW body \in Avatars \cup {Garbage}, Deliver(r, body)
  PROVE  Inv'
<1> DEFINE d == pending[r].due
<1>0. TypeOK
  BY DEF Inv
<1>1. /\ pending[r].phase = "fetching" /\ body = pending[r].result /\ body \notin Misdeclared
      /\ copy' = [image |-> body, until |-> clock + MaxAge]
      /\ End(r) /\ UNCHANGED <<clock, avatar, cached, lastCurrent>>
  BY DEF Deliver, Verified
<1>2. /\ clock \in Nat /\ d \in Nat /\ LookupTimeout \in Nat /\ Ttl \in Nat /\ MaxAge \in Nat
  BY <1>0, Types
<1>3. /\ body \in Avatars /\ clock <= d
      /\ lastCurrent[body] \in Nat /\ d - lastCurrent[body] < 2 * LookupTimeout + Ttl
  BY <1>1 DEF Inv, RequestInv, Less
<1> DEFINE x == lastCurrent[body]
<1> HIDE DEF d, x
<1>4. x \in Nat /\ d - x < 2 * LookupTimeout + Ttl /\ clock <= d
  BY <1>3 DEF x, d
<1>5. clock + MaxAge - x < 2 * LookupTimeout + Ttl + MaxAge
  BY ONLY <1>2, <1>4
<1>6. Less(copy'.image, copy'.until, 2 * LookupTimeout + Ttl + MaxAge) /\ copy'.image \notin Misdeclared
  <2>1. (clock + MaxAge) - lastCurrent[body] < 2 * LookupTimeout + Ttl + MaxAge
    BY ONLY <1>2, <1>3, <1>5 DEF x
  <2>2. Less(body, clock + MaxAge, 2 * LookupTimeout + Ttl + MaxAge)
    BY ONLY <1>3, <2>1 DEF Less
  <2> QED  BY <1>1, <2>2
<1>7. copy' \in [image : Avatars \cup {NoAvatar, Garbage}, until : Nat]
  BY <1>1, <1>2, <1>3
<1> QED  BY <1>1, <1>6, <1>7, EndInv

LEMMA EndUncopiedInv ==
  ASSUME Inv, NEW r \in Requests, End(r), UNCHANGED <<clock, avatar, lastCurrent, cached, copy>>
  PROVE  Inv'
BY EndInv DEF Inv, TypeOK

LEMMA EvictInv == Inv /\ Evict => Inv'
<1> SUFFICES ASSUME Inv, Evict PROVE Inv'
  OBVIOUS
<1>1. cached' = NotCached /\ UNCHANGED <<clock, avatar, pending, copy, lastCurrent>>
  BY DEF Evict
<1>2. NotCached \in [result : Result, until : Nat] /\ NotCached.result \notin Avatars
  BY DeliveryAssumption DEF NotCached, Result
<1> QED  BY <1>1, <1>2 DEF Inv, TypeOK, RequestInv, Within, Less, Nothing

LEMMA NextInv == Inv /\ [Next]_vars => Inv'
<1> SUFFICES ASSUME Inv, [Next]_vars PROVE Inv'
  OBVIOUS
<1>1. CASE Tick \/ Evict
  BY <1>1, TickInv, EvictInv
<1>2. CASE \E a \in Avatars \cup {NoAvatar} : Publish(a)
  BY <1>2, PublishInv
<1>3. ASSUME NEW r \in Requests, Hit(r) \/ Miss(r) \/ Read(r) \/ Put(r) \/ Fetch(r) PROVE Inv'
  BY <1>3, HitInv, MissInv, ReadInv, PutInv, FetchInv
<1>4. ASSUME NEW r \in Requests, Interrupt(r) \/ AnswerNoAvatar(r) \/ FetchFails(r) PROVE Inv'
  BY <1>4, EndUncopiedInv DEF Interrupt, AnswerNoAvatar, FetchFails
<1>5. ASSUME NEW r \in Requests, NEW body \in Avatars \cup {Garbage},
             Deliver(r, body) \/ RejectBody(r, body)
      PROVE  Inv'
  BY <1>5, DeliverInv, EndUncopiedInv DEF RejectBody
<1>6. CASE UNCHANGED vars
  BY <1>6 DEF vars, Inv, TypeOK, RequestInv, Within, Less, Nothing
<1> QED  BY <1>1, <1>2, <1>3, <1>4, <1>5, <1>6 DEF Next

(* The ages hold at every step, however many requests overlap.             *)
THEOREM Invariance == Spec => []Inv
BY InitInv, NextInv, PTL DEF Spec

(* The cache entry, the requests and the copy are always well typed; in    *)
(* particular nothing but the result of a lookup is ever cached.           *)
THEOREM TypeCorrect == Spec => []TypeOK
<1>1. Inv => TypeOK
  BY DEF Inv
<1> QED  BY <1>1, Invariance, PTL

(* handleAvatar never delivers anything but an avatar the account has had, *)
(* whatever the PDS answers.                                               *)
THEOREM OnlyOwnersAvatarsShown == Spec => []OnlyOwnersAvatars
<1>1. Inv => OnlyOwnersAvatars
  <2> SUFFICES ASSUME Inv, Shown
               PROVE  copy.image \in Avatars \ Misdeclared /\ lastCurrent[copy.image] # Never
    BY DEF OnlyOwnersAvatars
  <2>1. copy # Nothing
    <3>1. ~(clock < 0)
      BY Types DEF Inv
    <3> QED  BY <3>1 DEF Shown, Nothing
  <2> QED  BY <2>1 DEF Inv, Less, Never
<1> QED  BY <1>1, Invariance, PTL

(* A request fetches a blob that was referenced less than two lookups and  *)
(* a TTL ago.                                                              *)
THEOREM RefsStayRecent == Spec => []RefsAreRecent
<1>1. Inv => RefsAreRecent
  <2> SUFFICES ASSUME Inv, NEW r \in Requests, pending[r].phase = "fetching"
               PROVE  clock - lastCurrent[pending[r].result] < 2 * LookupTimeout + Ttl
    BY DEF RefsAreRecent
  <2> DEFINE d == pending[r].due
             x == lastCurrent[pending[r].result]
  <2>1. clock <= d /\ x \in Nat /\ d - x < 2 * LookupTimeout + Ttl
    BY DEF Inv, RequestInv, Less
  <2>2. clock \in Nat /\ d \in Nat /\ LookupTimeout \in Nat /\ Ttl \in Nat
    BY Types DEF Inv
  <2> HIDE DEF d, x
  <2>3. clock - x < 2 * LookupTimeout + Ttl
    BY ONLY <2>1, <2>2
  <2> QED  BY <2>3 DEF x
<1> QED  BY <1>1, Invariance, PTL

(* What is shown was the avatar no longer ago than the account cache, the  *)
(* browser's or CDN's copy and two lookups account for.                    *)
THEOREM AvatarsStayFresh == Spec => []AvatarFresh
<1>1. Inv => AvatarFresh
  <2> SUFFICES ASSUME Inv, Shown
               PROVE  clock - lastCurrent[copy.image] < 2 * LookupTimeout + Ttl + MaxAge
    BY DEF AvatarFresh
  <2> DEFINE u == copy.until
             x == lastCurrent[copy.image]
  <2>1. /\ clock \in Nat /\ u \in Nat /\ LookupTimeout \in Nat /\ Ttl \in Nat /\ MaxAge \in Nat
        /\ clock < u
    BY Types DEF Inv, Shown
  <2>2. copy # Nothing
    BY <2>1 DEF Nothing
  <2>3. x \in Nat /\ u - x < 2 * LookupTimeout + Ttl + MaxAge
    BY <2>2 DEF Inv, Less
  <2> HIDE DEF u, x
  <2>4. clock - x < 2 * LookupTimeout + Ttl + MaxAge
    BY ONLY <2>1, <2>3
  <2> QED  BY <2>4 DEF x
<1> QED  BY <1>1, Invariance, PTL

=============================================================================
