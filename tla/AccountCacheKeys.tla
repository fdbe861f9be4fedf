-------------------------- MODULE AccountCacheKeys --------------------------
(***************************************************************************)
(* The account cache as Service.Lookup calls it: get and put take an       *)
(* identifier and a list of collection names, which a client may spell in  *)
(* any way it likes, and newAccountCacheKey makes a key of them.           *)
(*                                                                         *)
(* Names are sequences of characters here, since what keeps two lists      *)
(* apart is how their characters are put together.                         *)
(***************************************************************************)
EXTENDS AccountCache

CONSTANTS
  Spelled,     \* what clients may ask for: [identifier, collections]
  Requests,    \* what is looked up of it
  Characters,  \* what names are made of
  Digit        \* the digits of Itoa, in order: "0" to "9" in the code

VARIABLE asking  \* the requests that call put, parallel to putting

keyedVars == <<cacheVars, asking>>

(* Seeded faults *)

WithoutLengths(request) ==
  [identifier |-> request.identifier, collections |-> FlattenSeq(request.collections)]

SeparatorOnly(request) ==
  [identifier |-> request.identifier,
   collections |-> FlattenSeq([i \in DOMAIN request.collections |->
                                 request.collections[i] \o <<":">>])]

----------------------------------------------------------------------------
Itoa[n \in Nat] ==
  LET last == <<Digit[(n % Len(Digit)) + 1]>>
  IN  IF n < Len(Digit) THEN last ELSE Itoa[n \div Len(Digit)] \o last

Encoded(name) == Itoa[Len(name)] \o <<":">> \o name

newAccountCacheKey(request) ==
  [identifier |-> request.identifier,
   collections |-> FlattenSeq([i \in DOMAIN request.collections |->
                                 Encoded(request.collections[i])])]

Key == [request \in Requests |-> newAccountCacheKey(request)]

ASSUME DigitAssumption ==
  /\ Digit \in Seq(Characters)
  /\ Len(Digit) >= 2
  /\ IsInjective(Digit)
  /\ ":" \notin Range(Digit)

(* Names are any strings of bytes: Lookup asks the cache before it has     *)
(* looked at them.                                                         *)
ASSUME KeysAssumption ==
  /\ Requests \subseteq Spelled
  /\ \A r \in Spelled :
       /\ r = [identifier |-> r.identifier, collections |-> r.collections]
       /\ r.collections \in Seq(Seq(Characters))
  /\ Key \in [Requests -> Keys]

----------------------------------------------------------------------------
KeyedInit == CacheInit /\ asking = [w \in {} |-> 0]

KeyedTick == Tick /\ UNCHANGED asking

Get(request) ==
  /\ Hit(Key[request]) \/ Expire(Key[request]) \/ Miss(Key[request])
  /\ UNCHANGED asking

Put(w, request, result) ==
  /\ Stamp(w, Key[request], result)
  /\ asking' = Bind(asking, w, request)

PutLocked(w) ==
  /\ Store(w)
  /\ asking' = Unbind(asking, w)

KeyedNext ==
  \/ KeyedTick
  \/ \E request \in Requests : Get(request)
  \/ \E w \in Workers, request \in Requests, result \in Results : Put(w, request, result)
  \/ \E w \in DOMAIN putting : PutLocked(w)

KeyedSpec == KeyedInit /\ [][KeyedNext]_keyedVars

----------------------------------------------------------------------------
(* Properties *)

(* No two of these requests have one key. *)
Distinguished(requests) ==
  \A r, s \in requests : newAccountCacheKey(r) = newAccountCacheKey(s) => r = s

(* newAccountCacheKey keeps requests apart (cache.go:152): lists that      *)
(* differ in how their characters are split into names, digits and colons  *)
(* among them, have different keys.  Once, as no step changes them.        *)
KeysDistinguish == KeyedInit => Distinguished(Spelled)

Answerable == {r \in Requests : Key[r] \in DOMAIN entries}

(* What a caller relies on (ResultStore): whatever is hit, expired or      *)
(* evicted and however the calls of put overlap, get answers a request     *)
(* only with what was put for the same identifier and list, and with the   *)
(* expiry of its own put: a hit never prolongs it, and no request gets     *)
(* another's answer.                                                       *)
InStore == INSTANCE ResultStore
  WITH Keys <- Requests,
       now <- clock,
       Lifetime <- [result \in Results |-> Ttl(result)],
       offered <- {[key |-> asking[w], entry |-> putting[w].entry] : w \in DOMAIN putting},
       kept <- {[key |-> r, entry |-> entries[Key[r]]] : r \in Answerable}

ImplementsStore == InStore!Spec

============================================================================
