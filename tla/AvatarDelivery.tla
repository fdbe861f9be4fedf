--------------------------- MODULE AvatarDelivery ---------------------------
(***************************************************************************)
(* How old an avatar can be that someone sees.  Between the owner's change *)
(* and the viewer are the account cache, whose entry holds the reference   *)
(* to the avatar (Service.Avatar), the blob fetch from the account's PDS   *)
(* (atprotoRecordReader.GetBlob), and a browser or CDN that keeps what     *)
(* handleAvatar answered for as long as its max-age says.                  *)
(*                                                                         *)
(* The cache is AccountCache's, reduced to the entry of one account's      *)
(* default key, stored in one step.  An avatar stands for its bytes, so    *)
(* for their CID; what the PDS answers may be any bytes whatever.          *)
(***************************************************************************)
EXTENDS Integers

CONSTANTS
  Avatars,        \* images the owner may publish
  Misdeclared,    \* those whose size or type the profile record states wrongly
  Requests,       \* requests for the avatar in progress at a time
  Ttl,            \* CacheConfig.TTL
  ErrorTtl,       \* CacheConfig.ErrorTTL
  LookupTimeout,  \* lookupTimeout
  MaxAge,         \* max-age of an avatar response
  MaxClock,       \* bound on the clock
  NoAvatar,       \* no (usable) avatar in the default profile
  Failed,         \* a lookup that ended in an error
  Garbage         \* bytes that are no avatar of this account

ASSUME DeliveryAssumption ==
  /\ Misdeclared \subseteq Avatars
  /\ Avatars \cap {NoAvatar, Failed, Garbage} = {}
  /\ NoAvatar # Failed
  /\ Ttl \in Nat \ {0}
  /\ ErrorTtl \in Nat \ {0}
  /\ LookupTimeout \in Nat \ {0}
  /\ MaxAge \in Nat
  /\ MaxClock \in Nat

VARIABLES
  clock,       \* time.Now
  avatar,      \* the account's avatar at present
  cached,      \* the account's cache entry
  pending,     \* the requests in progress
  copy,        \* the copy a browser or CDN keeps, and until when
  lastCurrent  \* history: when each image was last the account's avatar

vars == <<clock, avatar, cached, pending, copy, lastCurrent>>

Result == Avatars \cup {NoAvatar, Failed}

Never == -1

NotCached == [result |-> NoAvatar, until |-> 0]

Nothing == [image |-> NoAvatar, until |-> 0]

Idle == [phase |-> "idle", due |-> 0, result |-> NoAvatar]

Step(r, phase, result) ==
  pending' = [pending EXCEPT ![r] = [phase |-> phase, due |-> @.due, result |-> result]]

End(r) == pending' = [pending EXCEPT ![r] = Idle]

----------------------------------------------------------------------------
(* Seeded faults. *)

(* The bytes are not compared with the CID. *)
UnverifiedBody(body, ref) == ref \notin Misdeclared

(* A hit prolongs the entry's life. *)
HitProlonging(r) ==
  /\ pending[r].phase = "idle"
  /\ clock < cached.until
  /\ cached' = [cached EXCEPT !.until = clock + Ttl]
  /\ pending' = [pending EXCEPT ![r] =
       [phase |-> "looked up", due |-> clock + LookupTimeout, result |-> cached.result]]
  /\ UNCHANGED <<clock, avatar, copy, lastCurrent>>

(* The blob fetch has a timeout of its own. *)
FetchWithTimeoutOfItsOwn(r) ==
  /\ pending[r].phase = "looked up"
  /\ pending[r].result \in Avatars
  /\ pending' = [pending EXCEPT ![r].phase = "fetching", ![r].due = clock + LookupTimeout]
  /\ UNCHANGED <<clock, avatar, cached, copy, lastCurrent>>

----------------------------------------------------------------------------
Init ==
  /\ clock = 0
  /\ avatar \in Avatars \cup {NoAvatar}
  /\ cached = NotCached
  /\ pending = [r \in Requests |-> Idle]
  /\ copy = Nothing
  /\ lastCurrent = [a \in Avatars |-> IF a = avatar THEN 0 ELSE Never]

(* The owner's doing. *)
Publish(a) ==
  /\ avatar' = a
  /\ lastCurrent' = [b \in Avatars |-> IF b \in {a, avatar} THEN clock ELSE lastCurrent[b]]
  /\ UNCHANGED <<clock, cached, pending, copy>>

(* Every request ends at its deadline at the latest. *)
Tick ==
  /\ clock < MaxClock
  /\ \A r \in Requests : pending[r].phase # "idle" => clock < pending[r].due
  /\ clock' = clock + 1
  /\ lastCurrent' = [b \in Avatars |-> IF b = avatar THEN clock + 1 ELSE lastCurrent[b]]
  /\ UNCHANGED <<avatar, cached, pending, copy>>

----------------------------------------------------------------------------
(* Service.Avatar: Lookup, with the account cache *)

Hit(r) ==
  /\ pending[r].phase = "idle"
  /\ clock < cached.until
  /\ pending' = [pending EXCEPT ![r] =
       [phase |-> "looked up", due |-> clock + LookupTimeout, result |-> cached.result]]
  /\ UNCHANGED <<clock, avatar, cached, copy, lastCurrent>>

Miss(r) ==
  /\ pending[r].phase = "idle"
  /\ clock >= cached.until
  /\ pending' = [pending EXCEPT ![r] =
       [phase |-> "reading", due |-> clock + LookupTimeout, result |-> NoAvatar]]
  /\ UNCHANGED <<clock, avatar, cached, copy, lastCurrent>>

Read(r) ==
  /\ pending[r].phase = "reading"
  /\ \E result \in {avatar, Failed} : Step(r, "read", result)
  /\ UNCHANGED <<clock, avatar, cached, copy, lastCurrent>>

Put(r) ==
  /\ pending[r].phase = "read"
  /\ cached' = [result |-> pending[r].result,
                until |-> clock + IF pending[r].result = Failed THEN ErrorTtl ELSE Ttl]
  /\ Step(r, "looked up", pending[r].result)
  /\ UNCHANGED <<clock, avatar, copy, lastCurrent>>

(* Lookups of other accounts push the entry out. *)
Evict ==
  /\ cached' = NotCached
  /\ UNCHANGED <<clock, avatar, pending, copy, lastCurrent>>

(* While it waits: its client left, or lookupTimeout has passed.  Nothing  *)
(* is stored.                                                              *)
Interrupt(r) ==
  /\ pending[r].phase \in {"reading", "fetching"}
  /\ End(r)
  /\ UNCHANGED <<clock, avatar, cached, copy, lastCurrent>>

----------------------------------------------------------------------------
(* Service.Avatar: GetBlob of the avatar looked up; handleAvatar *)

(* 404 without an avatar, 502 after a failed lookup: neither is kept. *)
AnswerNoAvatar(r) ==
  /\ pending[r].phase = "looked up"
  /\ pending[r].result \notin Avatars
  /\ End(r)
  /\ UNCHANGED <<clock, avatar, cached, copy, lastCurrent>>

Fetch(r) ==
  /\ pending[r].phase = "looked up"
  /\ pending[r].result \in Avatars
  /\ Step(r, "fetching", pending[r].result)
  /\ UNCHANGED <<clock, avatar, cached, copy, lastCurrent>>

(* Size and type as declared, and the CID that was asked for. *)
Verified(body, ref) == body = ref /\ ref \notin Misdeclared

(* 200, with max-age; a revalidation's 304 renews the copy just so. *)
Deliver(r, body) ==
  /\ pending[r].phase = "fetching"
  /\ Verified(body, pending[r].result)
  /\ copy' = [image |-> body, until |-> clock + MaxAge]
  /\ End(r)
  /\ UNCHANGED <<clock, avatar, cached, lastCurrent>>

(* 502, no-store: the cached account stays as it is. *)
RejectBody(r, body) ==
  /\ pending[r].phase = "fetching"
  /\ ~Verified(body, pending[r].result)
  /\ End(r)
  /\ UNCHANGED <<clock, avatar, cached, copy, lastCurrent>>

FetchFails(r) ==
  /\ pending[r].phase = "fetching"
  /\ End(r)
  /\ UNCHANGED <<clock, avatar, cached, copy, lastCurrent>>

----------------------------------------------------------------------------
Next ==
  \/ Tick \/ Evict
  \/ \E a \in Avatars \cup {NoAvatar} : Publish(a)
  \/ \E r \in Requests :
       \/ Hit(r) \/ Miss(r) \/ Read(r) \/ Put(r) \/ Interrupt(r)
       \/ AnswerNoAvatar(r) \/ Fetch(r) \/ FetchFails(r)
       \/ \E body \in Avatars \cup {Garbage} : Deliver(r, body) \/ RejectBody(r, body)

Spec == Init /\ [][Next]_vars

----------------------------------------------------------------------------
(* Properties *)

TypeOK ==
  /\ clock \in 0..MaxClock
  /\ avatar \in Avatars \cup {NoAvatar}
  /\ cached \in [result : Result, until : Nat]
  /\ pending \in [Requests -> [phase : {"idle", "reading", "read", "looked up", "fetching"},
                               due : Nat, result : Result]]
  /\ copy \in [image : Avatars \cup {NoAvatar, Garbage}, until : Nat]
  /\ lastCurrent \in [Avatars -> {Never} \cup 0..MaxClock]

Shown == clock < copy.until

(* Whatever bytes a PDS answers with, the only image anyone is shown under *)
(* an account's name is one that the account has had as its avatar.        *)
OnlyOwnersAvatars ==
  Shown => copy.image \in Avatars \ Misdeclared /\ lastCurrent[copy.image] # Never

(* The blob fetched is one that was the avatar less than two lookups and a *)
(* TTL ago: a request that fails because the PDS has dropped a replaced    *)
(* blob fails for no longer than that, with nothing to invalidate.         *)
RefsAreRecent ==
  \A r \in Requests :
    pending[r].phase = "fetching" =>
      clock - lastCurrent[pending[r].result] < 2 * LookupTimeout + Ttl

(* "publicly cacheable for five minutes" (README.md:68): what is shown was *)
(* the avatar no longer ago than the two caches and two lookups allow; the *)
(* copies do not feed on one another.                                      *)
AvatarFresh ==
  Shown => clock - lastCurrent[copy.image] < 2 * LookupTimeout + Ttl + MaxAge

============================================================================
