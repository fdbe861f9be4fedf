------------------------ MODULE AccountLookup_proof ------------------------
(***************************************************************************)
(* Proofs about Service.Lookup over the account cache, for any requests,   *)
(* any selection of collections, any number of goroutines and any cache    *)
(* configuration.                                                          *)
(***************************************************************************)
EXTENDS AccountLookup, SequenceTheorems, TLAPS

(* What the collections of an account held, over a lookup.                 *)
Histories == [Collections -> SUBSET Nat]

Resolving == [phase : {"resolving"}, key : Requests]

ReadingRecords == [phase : {"reading"}, key : Requests, found : Snapshots,
                   rest : Seq(Collections)]

Concluded == [phase : {"finishing", "storing", "answered"}, key : Requests,
              outcome : Accounts \cup Errors]

(* A history of a lookup under way includes the present.                   *)
Covers(h, r) == h \in Histories /\ \A c \in Collections : r[c] \in h[c]

(* What has been read so far was held, and every selected collection is    *)
(* found, seen empty, or still to be read.                                 *)
Progress(cl, h) ==
  /\ DOMAIN cl.found \subseteq SelectedSet(cl.key)
  /\ \A i \in 1..Len(cl.rest) : cl.rest[i] \in SelectedSet(cl.key)
  /\ \A c \in DOMAIN cl.found : cl.found[c] \in h[c]
  /\ \A c \in SelectedSet(cl.key) :
       \/ c \in DOMAIN cl.found
       \/ 0 \in h[c]
       \/ \E i \in 1..Len(cl.rest) : cl.rest[i] = c

Complete(key, outcome, h) ==
  outcome.error = "none" =>
    /\ DOMAIN outcome.profiles \subseteq SelectedSet(key)
    /\ \A c \in SelectedSet(key) : Value(outcome, c) \in h[c]

GoodCall(cl, h, r) ==
  \/ cl = Idle
  \/ cl \in Resolving /\ Covers(h, r)
  \/ cl \in ReadingRecords /\ Covers(h, r) /\ Progress(cl, h)
  \/ /\ cl \in Concluded
     /\ h \in Histories
     /\ cl.phase # "answered" => Covers(h, r)
     /\ Complete(cl.key, cl.outcome, h)

GoodResult(key, result, h) ==
  /\ result \in Accounts \cup Errors
  /\ result.error # "interrupted"
  /\ h \in Histories
  /\ Complete(key, result, h)

UpstreamOK == repo \in [Collections -> 0..MaxVersion] /\ version \in 0..MaxVersion

CallsOK ==
  /\ DOMAIN call = Workers
  /\ DOMAIN held = Workers
  /\ \A w \in Workers : GoodCall(call[w], held[w], repo)

CacheOK ==
  /\ DOMAIN entries \subseteq Requests
  /\ DOMAIN witness = DOMAIN entries
  /\ \A key \in DOMAIN entries : GoodResult(key, entries[key].result, witness[key])

PutsOK ==
  /\ DOMAIN putting = {w \in Workers : call[w].phase = "storing"}
  /\ \A w \in DOMAIN putting :
       /\ putting[w].key = call[w].key
       /\ putting[w].entry.result = call[w].outcome
       /\ putting[w].entry.result.error # "interrupted"

(* The inductive invariant.                                                *)
Inv == UpstreamOK /\ CallsOK /\ CacheOK /\ PutsOK

----------------------------------------------------------------------------
(* Data *)

LEMMA SnapshotEmpty == NoRecords \in Snapshots /\ DOMAIN NoRecords = {}
<1>1. NoRecords \in [{} -> 1..MaxVersion]
  BY DEF NoRecords
<1> QED  BY <1>1 DEF Snapshots, NoRecords

LEMMA SnapshotType ==
  ASSUME NEW found \in Snapshots
  PROVE  DOMAIN found \subseteq Collections /\ found \in [DOMAIN found -> 1..MaxVersion]
  BY DEF Snapshots

LEMMA SnapshotBind ==
  ASSUME NEW found \in Snapshots, NEW c \in Collections, NEW v \in 1..MaxVersion
  PROVE  /\ Cache!Bind(found, c, v) \in Snapshots
         /\ DOMAIN Cache!Bind(found, c, v) = DOMAIN found \cup {c}
         /\ \A d \in DOMAIN found \cup {c} :
              Cache!Bind(found, c, v)[d] = IF d = c THEN v ELSE found[d]
<1> DEFINE g == Cache!Bind(found, c, v)
<1>1. /\ DOMAIN g = DOMAIN found \cup {c}
      /\ \A d \in DOMAIN found \cup {c} : g[d] = IF d = c THEN v ELSE found[d]
  BY DEF Cache!Bind
<1>2. DOMAIN g \subseteq Collections
  BY <1>1, SnapshotType
<1>3. g \in [DOMAIN g -> 1..MaxVersion]
  BY <1>1, SnapshotType DEF Cache!Bind
<1> QED  BY <1>1, <1>2, <1>3 DEF Snapshots

LEMMA OutcomeTypes ==
  /\ \A error \in CachedErrors \cup {"interrupted"} :
       Failure(error) \in Errors /\ Failure(error).error = error /\ error # "none"
  /\ \A found \in Snapshots :
       /\ Success(found) \in Accounts
       /\ Success(found).error = "none"
       /\ Success(found).profiles = found
  BY DEF Errors, Accounts, Failure, Success, CachedErrors

LEMMA FailureComplete ==
  ASSUME NEW key, NEW h, NEW error \in CachedErrors \cup {"interrupted"}
  PROVE  Complete(key, Failure(error), h)
  BY OutcomeTypes DEF Complete

(* A lookup sees an upstream write: its history grows.                     *)
LEMMA GoodCallSeen ==
  ASSUME NEW cl, NEW h, NEW r, NEW c \in Collections, NEW v \in Nat,
         GoodCall(cl, h, r), cl # Idle, cl.phase # "answered",
         r \in [Collections -> 0..MaxVersion]
  PROVE  GoodCall(cl, [h EXCEPT ![c] = @ \cup {v}], [r EXCEPT ![c] = v])
<1> DEFINE g == [h EXCEPT ![c] = @ \cup {v}]
           q == [r EXCEPT ![c] = v]
<1>1. Covers(h, r)
  BY DEF GoodCall
<1>2. Covers(g, q) /\ \A d \in Collections : h[d] \subseteq g[d]
  BY <1>1 DEF Covers, Histories
<1>3. ASSUME NEW key \in Requests
      PROVE  SelectedSet(key) \subseteq Collections
  BY LookupAssumption DEF SelectedSet
<1> HIDE DEF g, q
<1>4. ASSUME cl \in Resolving PROVE GoodCall(cl, g, q)
  BY <1>2, <1>4 DEF GoodCall
<1>5. ASSUME cl \in ReadingRecords PROVE GoodCall(cl, g, q)
  <2>1. Progress(cl, h) /\ cl.key \in Requests /\ DOMAIN cl.found \subseteq Collections
    BY <1>5, SnapshotType DEF GoodCall, ReadingRecords, Resolving, Concluded, Idle
  <2>2. Progress(cl, g)
    BY <1>2, <1>3, <2>1 DEF Progress
  <2> QED  BY <1>2, <1>5, <2>2 DEF GoodCall
<1>6. ASSUME cl \in Concluded PROVE GoodCall(cl, g, q)
  <2>1. Complete(cl.key, cl.outcome, h) /\ cl.key \in Requests
    BY <1>6 DEF GoodCall, ReadingRecords, Resolving, Concluded, Idle
  <2>2. Complete(cl.key, cl.outcome, g)
    BY <1>2, <1>3, <2>1 DEF Complete
  <2> QED  BY <1>2, <1>6, <2>2 DEF GoodCall, Covers
<1>7. GoodCall(cl, g, q)
  BY <1>4, <1>5, <1>6 DEF GoodCall
<1> QED  BY <1>7 DEF g, q

----------------------------------------------------------------------------
(* Steps *)

(* What is known of a call in each phase.                                  *)
LEMMA CallPhases ==
  ASSUME Inv, NEW w \in Workers
  PROVE  /\ GoodCall(call[w], held[w], repo)
         /\ call[w].phase \in {"idle", "resolving", "reading", "finishing", "storing",
                               "answered"}
         /\ call[w].phase = "resolving" =>
              call[w] \in Resolving /\ Covers(held[w], repo)
         /\ call[w].phase = "reading" =>
              call[w] \in ReadingRecords /\ Covers(held[w], repo) /\ Progress(call[w], held[w])
         /\ call[w].phase \in {"finishing", "storing", "answered"} =>
              /\ call[w] \in Concluded
              /\ held[w] \in Histories
              /\ call[w].phase # "answered" => Covers(held[w], repo)
              /\ Complete(call[w].key, call[w].outcome, held[w])
  BY DEF Inv, CallsOK, GoodCall, Idle, Resolving, ReadingRecords, Concluded

(* A step of w that neither starts nor ends a put.                         *)
LEMMA CallStep ==
  ASSUME Inv, NEW w \in Workers, NEW cl,
         call' = [call EXCEPT ![w] = cl],
         call[w].phase # "storing", cl.phase # "storing",
         DOMAIN held' = Workers,
         \A v \in Workers \ {w} : held'[v] = held[v],
         GoodCall(cl, held'[w], repo),
         UNCHANGED <<upstream, putting>>,
         CacheOK'
  PROVE  Inv'
<1>1. UpstreamOK'
  BY DEF Inv, UpstreamOK, upstream
<1>2. DOMAIN call' = Workers /\ \A v \in Workers : call'[v] = IF v = w THEN cl ELSE call[v]
  BY DEF Inv, CallsOK
<1>3. CallsOK'
  BY <1>2 DEF Inv, CallsOK, upstream
<1>4. {v \in Workers : call'[v].phase = "storing"} = {v \in Workers : call[v].phase = "storing"}
  BY <1>2
<1>5. PutsOK'
  BY <1>2, <1>4 DEF Inv, PutsOK, upstream
<1> QED  BY <1>1, <1>3, <1>5 DEF Inv

LEMMA CacheUnchanged ==
  ASSUME Inv, UNCHANGED <<entries, witness>>
  PROVE  CacheOK'
  BY DEF Inv, CacheOK

(* A lookup under way that concludes.                                      *)
LEMMA FinishInv ==
  ASSUME Inv, NEW w \in Workers, NEW outcome \in Accounts \cup Errors,
         call[w].phase \in {"resolving", "reading"},
         Complete(call[w].key, outcome, held[w]), Finish(w, outcome)
  PROVE  Inv'
<1> DEFINE cl == [phase |-> "finishing", key |-> call[w].key, outcome |-> outcome]
<1>1. call[w].key \in Requests /\ Covers(held[w], repo)
  BY CallPhases DEF Resolving, ReadingRecords
<1>2. cl \in Concluded /\ cl.phase = "finishing" /\ cl.key = call[w].key /\ cl.outcome = outcome
  BY <1>1 DEF Concluded
<1>3. /\ call' = [call EXCEPT ![w] = cl]
      /\ UNCHANGED <<upstream, putting, held, entries, witness>>
  BY DEF Finish, cacheVars, history
<1> HIDE DEF cl
<1>4. GoodCall(cl, held[w], repo)
  BY <1>1, <1>2 DEF GoodCall, Covers
<1>5. DOMAIN held = Workers
  BY DEF Inv, CallsOK
<1>6. CacheOK'
  BY <1>3, CacheUnchanged
<1> QED  BY <1>2, <1>3, <1>4, <1>5, <1>6, CallStep

LEMMA FailureInv ==
  ASSUME Inv, NEW w \in Workers, NEW error \in CachedErrors \cup {"interrupted"},
         call[w].phase \in {"resolving", "reading"}, Finish(w, Failure(error))
  PROVE  Inv'
  BY FinishInv, FailureComplete, OutcomeTypes

LEMMA ReadAllInv ==
  ASSUME Inv, NEW w \in Workers, ReadAll(w)
  PROVE  Inv'
<1>1. /\ call[w].phase = "reading" /\ call[w].rest = <<>>
      /\ Finish(w, Success(call[w].found))
  BY DEF ReadAll
<1>2. call[w] \in ReadingRecords /\ Progress(call[w], held[w])
  BY <1>1, CallPhases
<1> DEFINE outcome == Success(call[w].found)
<1>3. outcome \in Accounts /\ outcome.profiles = call[w].found
  BY <1>2, OutcomeTypes DEF ReadingRecords
<1>4. \A c \in SelectedSet(call[w].key) :
        c \in DOMAIN call[w].found \/ 0 \in held[w][c]
  BY <1>1, <1>2 DEF Progress
<1> HIDE DEF outcome
<1>5. Complete(call[w].key, outcome, held[w])
  BY <1>2, <1>3, <1>4 DEF Complete, Value, Progress
<1> QED  BY <1>1, <1>3, <1>5, FinishInv DEF outcome

LEMMA ResolveInv ==
  ASSUME Inv, NEW w \in Workers, Resolve(w)
  PROVE  Inv'
<1> DEFINE key == call[w].key
           cl == [phase |-> "reading", key |-> key, found |-> NoRecords,
                  rest |-> Selection[key]]
<1>1. key \in Requests /\ Covers(held[w], repo) /\ call[w].phase = "resolving"
  BY CallPhases DEF Resolve, Resolving
<1>2. /\ call' = [call EXCEPT ![w] = cl]
      /\ UNCHANGED <<upstream, putting, held, entries, witness>>
  BY DEF Resolve, cacheVars, history
<1>3. /\ cl \in ReadingRecords /\ cl.phase = "reading" /\ cl.key = key
      /\ cl.rest = Selection[key] /\ cl.found = NoRecords
  BY <1>1, SnapshotEmpty, LookupAssumption DEF ReadingRecords
<1> HIDE DEF cl, key
<1>4. Progress(cl, held[w])
  BY <1>3, SnapshotEmpty DEF Progress, SelectedSet
<1>5. GoodCall(cl, held[w], repo)
  BY <1>1, <1>3, <1>4 DEF GoodCall
<1>6. DOMAIN held = Workers
  BY DEF Inv, CallsOK
<1>7. CacheOK'
  BY <1>2, CacheUnchanged
<1> QED  BY <1>1, <1>2, <1>3, <1>5, <1>6, <1>7, CallStep

(* One record read: what is left to read is the tail.                      *)
LEMMA RestTail ==
  ASSUME NEW rest \in Seq(Collections), rest # <<>>
  PROVE  /\ Head(rest) \in Collections
         /\ Head(rest) = rest[1] /\ 1 \in 1..Len(rest)
         /\ Tail(rest) \in Seq(Collections)
         /\ \A i \in 1..Len(rest) :
              rest[i] = Head(rest) \/ \E j \in 1..Len(Tail(rest)) : Tail(rest)[j] = rest[i]
         /\ \A j \in 1..Len(Tail(rest)) : \E i \in 1..Len(rest) : Tail(rest)[j] = rest[i]
<1>1. /\ Head(rest) \in Collections /\ Tail(rest) \in Seq(Collections)
      /\ Len(Tail(rest)) = Len(rest) - 1
      /\ \A i \in 1..Len(Tail(rest)) : Tail(rest)[i] = rest[i + 1]
  BY HeadTailProperties
<1>2. Head(rest) = rest[1] /\ Len(rest) \in Nat /\ Len(rest) > 0
  BY EmptySeq, LenProperties
<1>3. ASSUME NEW i \in 1..Len(rest)
      PROVE  rest[i] = Head(rest) \/ \E j \in 1..Len(Tail(rest)) : Tail(rest)[j] = rest[i]
  <2>1. CASE i = 1
    BY <1>2, <2>1
  <2>2. CASE i # 1
    <3>1. i - 1 \in 1..Len(Tail(rest)) /\ (i - 1) + 1 = i
      BY <1>1, <1>2, <2>2
    <3> QED  BY <1>1, <3>1
  <2> QED  BY <2>1, <2>2
<1>4. ASSUME NEW j \in 1..Len(Tail(rest))
      PROVE  \E i \in 1..Len(rest) : Tail(rest)[j] = rest[i]
  <2>1. j + 1 \in 1..Len(rest)
    BY <1>1, <1>2
  <2> QED  BY <1>1, <2>1
<1> QED  BY <1>1, <1>2, <1>3, <1>4

LEMMA ReadFoundInv ==
  ASSUME Inv, NEW w \in Workers, ReadFound(w)
  PROVE  Inv'
<1> DEFINE c == Head(call[w].rest)
           g == Cache!Bind(call[w].found, c, repo[c])
           cl == [call[w] EXCEPT !.found = g, !.rest = Tail(call[w].rest)]
<1>1. /\ call[w] \in ReadingRecords /\ call[w].rest # <<>> /\ repo[c] # 0
      /\ Covers(held[w], repo) /\ Progress(call[w], held[w])
  BY CallPhases DEF ReadFound, Reading
<1>2. /\ call' = [call EXCEPT ![w] = cl]
      /\ UNCHANGED <<upstream, putting, held, entries, witness>>
  BY DEF ReadFound, cacheVars, history, Inv, CallsOK
<1>3. c \in Collections /\ Tail(call[w].rest) \in Seq(Collections)
  BY <1>1, RestTail DEF ReadingRecords
<1>4. repo[c] \in 1..MaxVersion /\ repo[c] \in held[w][c]
  BY <1>1, <1>3, LookupAssumption DEF Inv, UpstreamOK, Covers
<1>5. /\ g \in Snapshots /\ DOMAIN g = DOMAIN call[w].found \cup {c}
      /\ \A d \in DOMAIN g : g[d] = IF d = c THEN repo[c] ELSE call[w].found[d]
  <2>1. call[w].found \in Snapshots
    BY <1>1 DEF ReadingRecords
  <2> HIDE DEF c
  <2>2. /\ DOMAIN g = DOMAIN call[w].found \cup {c}
        /\ \A d \in DOMAIN g : g[d] = IF d = c THEN repo[c] ELSE call[w].found[d]
    BY DEF Cache!Bind
  <2>3. g \in Snapshots
    BY <1>3, <1>4, <2>1, SnapshotBind
  <2> QED  BY <2>2, <2>3
<1> HIDE DEF g
<1>6. /\ cl \in ReadingRecords /\ cl.phase = "reading" /\ cl.key = call[w].key
      /\ cl.found = g /\ cl.rest = Tail(call[w].rest)
  BY <1>1, <1>3, <1>5 DEF ReadingRecords
<1> HIDE DEF cl
<1>7. Progress(cl, held[w])
  <2>1. c \in SelectedSet(call[w].key) /\ call[w].rest \in Seq(Collections)
    BY <1>1, RestTail DEF Progress, ReadingRecords
  <2>2. DOMAIN g \subseteq SelectedSet(call[w].key)
    BY <1>1, <1>5, <2>1 DEF Progress
  <2>3. \A i \in 1..Len(cl.rest) : cl.rest[i] \in SelectedSet(call[w].key)
    BY <1>1, <1>6, <2>1, RestTail DEF Progress
  <2>4. \A d \in DOMAIN g : g[d] \in held[w][d]
    BY <1>1, <1>4, <1>5 DEF Progress
  <2>5. ASSUME NEW d \in SelectedSet(call[w].key)
        PROVE  \/ d \in DOMAIN g
               \/ 0 \in held[w][d]
               \/ \E i \in 1..Len(cl.rest) : cl.rest[i] = d
    <3>1. CASE d \in DOMAIN call[w].found \/ 0 \in held[w][d]
      BY <1>5, <3>1
    <3>2. CASE \E i \in 1..Len(call[w].rest) : call[w].rest[i] = d
      <4>1. d = c \/ \E j \in 1..Len(Tail(call[w].rest)) : Tail(call[w].rest)[j] = d
        BY <1>1, <2>1, <3>2, RestTail
      <4> QED  BY <1>5, <1>6, <4>1
    <3> QED  BY <1>1, <3>1, <3>2 DEF Progress
  <2> QED  BY <1>6, <2>2, <2>3, <2>4, <2>5 DEF Progress
<1>8. GoodCall(cl, held[w], repo)
  BY <1>1, <1>6, <1>7 DEF GoodCall
<1>9. DOMAIN held = Workers
  BY DEF Inv, CallsOK
<1>10. CacheOK'
  BY <1>2, CacheUnchanged
<1>11. call[w].phase = "reading"
  BY <1>1 DEF ReadingRecords
<1> QED  BY <1>2, <1>6, <1>8, <1>9, <1>10, <1>11, CallStep

LEMMA ReadAbsentInv ==
  ASSUME Inv, NEW w \in Workers, ReadAbsent(w)
  PROVE  Inv'
<1> DEFINE c == Head(call[w].rest)
           cl == [call[w] EXCEPT !.rest = Tail(call[w].rest)]
<1>1. /\ call[w] \in ReadingRecords /\ call[w].rest # <<>> /\ repo[c] = 0
      /\ Covers(held[w], repo) /\ Progress(call[w], held[w])
  BY CallPhases DEF ReadAbsent, Reading
<1>2. /\ call' = [call EXCEPT ![w] = cl]
      /\ UNCHANGED <<upstream, putting, held, entries, witness>>
  BY DEF ReadAbsent, cacheVars, history, Inv, CallsOK
<1>3. c \in Collections /\ Tail(call[w].rest) \in Seq(Collections)
      /\ call[w].rest \in Seq(Collections)
  BY <1>1, RestTail DEF ReadingRecords
<1>4. 0 \in held[w][c]
  BY <1>1, <1>3 DEF Covers
<1>5. /\ cl \in ReadingRecords /\ cl.phase = "reading" /\ cl.key = call[w].key
      /\ cl.found = call[w].found /\ cl.rest = Tail(call[w].rest)
  BY <1>1, <1>3 DEF ReadingRecords
<1> HIDE DEF cl
<1>6. Progress(cl, held[w])
  <2>1. \A i \in 1..Len(cl.rest) : cl.rest[i] \in SelectedSet(call[w].key)
    BY <1>1, <1>3, <1>5, RestTail DEF Progress
  <2>2. \A d \in SelectedSet(call[w].key) :
          \/ d \in DOMAIN call[w].found
          \/ 0 \in held[w][d]
          \/ \E i \in 1..Len(cl.rest) : cl.rest[i] = d
    BY <1>1, <1>3, <1>4, <1>5, RestTail DEF Progress
  <2> QED  BY <1>1, <1>5, <2>1, <2>2 DEF Progress
<1>7. GoodCall(cl, held[w], repo)
  BY <1>1, <1>5, <1>6 DEF GoodCall
<1>8. DOMAIN held = Workers
  BY DEF Inv, CallsOK
<1>9. CacheOK'
  BY <1>2, CacheUnchanged
<1>10. call[w].phase = "reading"
  BY <1>1 DEF ReadingRecords
<1> QED  BY <1>2, <1>5, <1>7, <1>8, <1>9, <1>10, CallStep

----------------------------------------------------------------------------
(* Steps that touch the cache *)

LEMMA InitInv == Init => Inv
<1> SUFFICES ASSUME Init PROVE Inv
  OBVIOUS
<1>1. \A w \in Workers : call[w] = Idle /\ call[w].phase = "idle"
  BY DEF Init, Idle
<1>2. DOMAIN entries = {} /\ DOMAIN putting = {} /\ DOMAIN witness = {}
  BY DEF Init, Cache!CacheInit, NoRecords
<1>3. {w \in Workers : call[w].phase = "storing"} = {}
  BY <1>1
<1>4. UpstreamOK
  BY LookupAssumption DEF Init, UpstreamOK
<1>5. CallsOK
  BY <1>1 DEF Init, CallsOK, GoodCall
<1> QED  BY <1>2, <1>3, <1>4, <1>5 DEF Inv, CacheOK, PutsOK

LEMMA AskCachedInv ==
  ASSUME Inv, NEW w \in Workers, NEW key \in Requests, AskCached(w, key)
  PROVE  Inv'
<1> DEFINE cl == [phase |-> "answered", key |-> key, outcome |-> entries[key].result]
<1>1. /\ key \in DOMAIN entries /\ call[w].phase = "idle"
      /\ call' = [call EXCEPT ![w] = cl]
      /\ held' = [held EXCEPT ![w] = witness[key]]
      /\ UNCHANGED <<upstream, putting, entries, witness>>
  BY DEF AskCached, Cache!Hit
<1>2. GoodResult(key, entries[key].result, witness[key])
  BY <1>1 DEF Inv, CacheOK
<1>3. /\ cl \in Concluded /\ cl.phase = "answered" /\ cl.key = key
      /\ cl.outcome = entries[key].result
  BY <1>2 DEF Concluded, GoodResult
<1>4. /\ DOMAIN held' = Workers /\ held'[w] = witness[key]
      /\ \A v \in Workers \ {w} : held'[v] = held[v]
  BY <1>1 DEF Inv, CallsOK
<1> HIDE DEF cl
<1>5. GoodCall(cl, held'[w], repo)
  BY <1>2, <1>3, <1>4 DEF GoodCall, GoodResult
<1>6. CacheOK'
  BY <1>1, CacheUnchanged
<1> QED  BY <1>1, <1>3, <1>4, <1>5, <1>6, CallStep

LEMMA AskUpstreamInv ==
  ASSUME Inv, NEW w \in Workers, NEW key \in Requests, AskUpstream(w, key)
  PROVE  Inv'
<1> DEFINE cl == [phase |-> "resolving", key |-> key]
           h == [c \in Collections |-> {repo[c]}]
<1>1. /\ call[w].phase = "idle"
      /\ call' = [call EXCEPT ![w] = cl]
      /\ held' = [held EXCEPT ![w] = h]
      /\ witness' = [k \in DOMAIN entries' |-> witness[k]]
      /\ UNCHANGED <<upstream, putting>>
  BY DEF AskUpstream, Cache!Expire, Cache!Miss, Cache!cacheVars
<1>2. cl \in Resolving /\ cl.phase = "resolving"
  BY DEF Resolving
<1>3. Covers(h, repo)
  BY LookupAssumption DEF Inv, UpstreamOK, Covers, Histories
<1>4. /\ DOMAIN held' = Workers /\ held'[w] = h
      /\ \A v \in Workers \ {w} : held'[v] = held[v]
  BY <1>1 DEF Inv, CallsOK
<1> HIDE DEF cl, h
<1>5. GoodCall(cl, held'[w], repo)
  BY <1>2, <1>3, <1>4 DEF GoodCall
<1>6. /\ DOMAIN entries' \subseteq DOMAIN entries
      /\ \A k \in DOMAIN entries' : entries'[k] = entries[k]
  BY DEF AskUpstream, Cache!Expire, Cache!Miss, Cache!cacheVars, Cache!Unbind
<1>7. CacheOK'
  BY <1>1, <1>6 DEF Inv, CacheOK
<1> QED  BY <1>1, <1>2, <1>4, <1>5, <1>7, CallStep

LEMMA AnswerUncachedInv ==
  ASSUME Inv, NEW w \in Workers, AnswerUncached(w)
  PROVE  Inv'
<1> DEFINE cl == [phase |-> "answered", key |-> call[w].key, outcome |-> call[w].outcome]
<1>1. /\ call[w].phase = "finishing"
      /\ call' = [call EXCEPT ![w] = cl]
      /\ UNCHANGED <<upstream, putting, held, entries, witness>>
  BY DEF AnswerUncached, Answered, cacheVars, history
<1>2. /\ call[w] \in Concluded /\ held[w] \in Histories
      /\ Complete(call[w].key, call[w].outcome, held[w])
  BY <1>1, CallPhases
<1>3. /\ cl \in Concluded /\ cl.phase = "answered" /\ cl.key = call[w].key
      /\ cl.outcome = call[w].outcome
  BY <1>2 DEF Concluded
<1> HIDE DEF cl
<1>4. GoodCall(cl, held[w], repo)
  BY <1>2, <1>3 DEF GoodCall
<1>5. DOMAIN held = Workers
  BY DEF Inv, CallsOK
<1>6. CacheOK'
  BY <1>1, CacheUnchanged
<1> QED  BY <1>1, <1>3, <1>4, <1>5, <1>6, CallStep

LEMMA ReturnInv ==
  ASSUME Inv, NEW w \in Workers, Return(w)
  PROVE  Inv'
<1>1. /\ call[w].phase = "answered"
      /\ call' = [call EXCEPT ![w] = Idle]
      /\ held' = [held EXCEPT ![w] = NoRecords]
      /\ UNCHANGED <<upstream, putting, entries, witness>>
  BY DEF Return, cacheVars
<1>2. Idle.phase # "storing" /\ GoodCall(Idle, held'[w], repo)
  BY DEF Idle, GoodCall
<1>3. DOMAIN held' = Workers /\ \A v \in Workers \ {w} : held'[v] = held[v]
  BY <1>1 DEF Inv, CallsOK
<1>4. CacheOK'
  BY <1>1, CacheUnchanged
<1> QED  BY <1>1, <1>2, <1>3, <1>4, CallStep

LEMMA PutStampInv ==
  ASSUME Inv, NEW w \in Workers, PutStamp(w)
  PROVE  Inv'
<1> DEFINE cl == [call[w] EXCEPT !.phase = "storing"]
<1>1. /\ call[w].phase = "finishing" /\ call[w].outcome.error # "interrupted"
      /\ w \notin DOMAIN putting
      /\ UNCHANGED <<upstream, held, entries, witness>>
  BY DEF PutStamp, Cacheable, Cache!Stamp, history
<1>2. call' = [call EXCEPT ![w] = cl]
  BY DEF PutStamp
<1>3. /\ call[w] \in Concluded /\ held[w] \in Histories /\ Covers(held[w], repo)
      /\ Complete(call[w].key, call[w].outcome, held[w])
  BY <1>1, CallPhases
<1>4. /\ cl \in Concluded /\ cl.phase = "storing" /\ cl.key = call[w].key
      /\ cl.outcome = call[w].outcome
  BY <1>3 DEF Concluded
<1> HIDE DEF cl
<1>5. GoodCall(cl, held[w], repo)
  BY <1>3, <1>4 DEF GoodCall
<1>6. DOMAIN call' = Workers /\ \A v \in Workers : call'[v] = IF v = w THEN cl ELSE call[v]
  BY <1>2 DEF Inv, CallsOK
<1>7. UpstreamOK' /\ CallsOK' /\ CacheOK'
  BY <1>1, <1>5, <1>6, CacheUnchanged DEF Inv, UpstreamOK, CallsOK, upstream
<1>8. /\ DOMAIN putting' = DOMAIN putting \cup {w}
      /\ putting'[w].key = call[w].key
      /\ putting'[w].entry.result = call[w].outcome
      /\ \A v \in DOMAIN putting : putting'[v] = putting[v]
  BY <1>1 DEF PutStamp, Cache!Stamp, Cache!Bind
<1>9. PutsOK'
  BY <1>1, <1>4, <1>6, <1>8 DEF Inv, PutsOK
<1> QED  BY <1>7, <1>9 DEF Inv

(* What a store does to the cache: the key gets the result, an entry may   *)
(* go, and the others stay.                                                *)
LEMMA StoreEffect ==
  ASSUME NEW w, Cache!Store(w)
  PROVE  /\ putting[w].key \in DOMAIN entries'
         /\ entries'[putting[w].key] = putting[w].entry
         /\ \A k \in DOMAIN entries' \ {putting[w].key} :
              k \in DOMAIN entries /\ entries'[k] = entries[k]
         /\ putting' = Cache!Unbind(putting, w)
<1>1. /\ putting' = Cache!Unbind(putting, w)
      /\ \/ entries' = Cache!Bind(entries, putting[w].key, putting[w].entry)
         \/ entries' = Cache!Bind(Cache!Unbind(entries, Cache!Victim),
                                  putting[w].key, putting[w].entry)
  BY DEF Cache!Store, Cache!Replace, Cache!Insert, Cache!InsertEvicting, Cache!Stored
<1> QED  BY <1>1 DEF Cache!Bind, Cache!Unbind

LEMMA PutStoreInv ==
  ASSUME Inv, NEW w \in Workers, PutStore(w)
  PROVE  Inv'
<1> DEFINE key == call[w].key
           cl == [phase |-> "answered", key |-> key, outcome |-> call[w].outcome]
<1>1. /\ call[w].phase = "storing" /\ Cache!Store(w)
      /\ call' = [call EXCEPT ![w] = cl]
      /\ witness' = [k \in DOMAIN entries' |-> IF k = key THEN held[w] ELSE witness[k]]
      /\ UNCHANGED <<upstream, held>>
  BY DEF PutStore, Answered
<1>2. /\ call[w] \in Concluded /\ held[w] \in Histories
      /\ Complete(key, call[w].outcome, held[w])
  BY <1>1, CallPhases
<1>3. /\ w \in DOMAIN putting /\ putting[w].key = key
      /\ putting[w].entry.result = call[w].outcome
      /\ putting[w].entry.result.error # "interrupted"
  BY <1>1 DEF Inv, PutsOK
<1>4. /\ cl \in Concluded /\ cl.phase = "answered" /\ cl.key = key
      /\ cl.outcome = call[w].outcome /\ key \in Requests
      /\ call[w].outcome \in Accounts \cup Errors
  BY <1>2 DEF Concluded
<1> HIDE DEF key, cl
<1>5. GoodCall(cl, held[w], repo)
  BY <1>2, <1>4 DEF GoodCall
<1>6. DOMAIN call' = Workers /\ \A v \in Workers : call'[v] = IF v = w THEN cl ELSE call[v]
  BY <1>1 DEF Inv, CallsOK
<1>7. UpstreamOK' /\ CallsOK'
  BY <1>1, <1>5, <1>6 DEF Inv, UpstreamOK, CallsOK, upstream
<1>8. /\ key \in DOMAIN entries' /\ entries'[key] = putting[w].entry
      /\ \A k \in DOMAIN entries' \ {key} : k \in DOMAIN entries /\ entries'[k] = entries[k]
      /\ putting' = Cache!Unbind(putting, w)
  BY <1>1, <1>3, StoreEffect
<1>9. CacheOK'
  <2>1. GoodResult(key, entries'[key].result, witness'[key])
    BY <1>1, <1>2, <1>3, <1>4, <1>8 DEF GoodResult
  <2>2. \A k \in DOMAIN entries' \ {key} : GoodResult(k, entries'[k].result, witness'[k])
    BY <1>1, <1>8 DEF Inv, CacheOK
  <2>3. DOMAIN entries' \subseteq Requests
    BY <1>4, <1>8 DEF Inv, CacheOK
  <2> QED  BY <1>1, <2>1, <2>2, <2>3 DEF CacheOK
<1>10. DOMAIN putting' = DOMAIN putting \ {w} /\ \A v \in DOMAIN putting' : putting'[v] = putting[v]
  BY <1>8 DEF Cache!Unbind
<1>11. PutsOK'
  BY <1>4, <1>6, <1>10 DEF Inv, PutsOK
<1> QED  BY <1>7, <1>9, <1>11 DEF Inv

LEMMA UpstreamInv ==
  ASSUME Inv, NEW c \in Collections, NEW value \in 0..MaxVersion,
         repo' = [repo EXCEPT ![c] = value], version' \in 0..MaxVersion,
         Seen(c, value), UNCHANGED <<cacheVars, call, witness>>
  PROVE  Inv'
<1>1. UpstreamOK'
  BY DEF Inv, UpstreamOK
<1>2. DOMAIN held' = Workers
  BY DEF Seen
<1>3. ASSUME NEW w \in Workers PROVE GoodCall(call[w], held'[w], repo')
  <2>1. GoodCall(call[w], held[w], repo) /\ repo \in [Collections -> 0..MaxVersion]
    BY DEF Inv, CallsOK, UpstreamOK
  <2>2. CASE InFlight(w)
    <3>1. held'[w] = [held[w] EXCEPT ![c] = @ \cup {value}]
      BY <2>2 DEF Seen
    <3>2. call[w] # Idle /\ call[w].phase # "answered"
      BY <2>2 DEF InFlight, Idle
    <3>3. value \in Nat
      BY LookupAssumption
    <3>4. GoodCall(call[w], [held[w] EXCEPT ![c] = @ \cup {value}], [repo EXCEPT ![c] = value])
      BY ONLY <2>1, <3>2, <3>3, c \in Collections, GoodCallSeen
    <3> QED  BY <3>1, <3>4
  <2>3. CASE ~InFlight(w)
    <3>1. held'[w] = held[w]
      BY <2>3 DEF Seen
    <3>2. call[w] = Idle \/ call[w].phase = "answered"
      BY <2>1, <2>3 DEF InFlight, GoodCall, Resolving, ReadingRecords, Concluded
    <3> QED  BY <2>1, <3>1, <3>2 DEF GoodCall, Resolving, ReadingRecords
  <2> QED  BY <2>2, <2>3
<1>4. CallsOK'
  BY <1>2, <1>3 DEF Inv, CallsOK
<1>5. CacheOK' /\ PutsOK'
  BY DEF Inv, CacheOK, PutsOK, cacheVars
<1> QED  BY <1>1, <1>4, <1>5 DEF Inv

LEMMA WorkerInv ==
  ASSUME Inv, NEW w \in Workers, Upstream(w) \/ Interrupted(w) \/ Local(w)
  PROVE  Inv'
<1>1. CASE Resolve(w)
  BY <1>1, ResolveInv
<1>2. CASE RefuseCollection(w) \/ ResolveWithoutPDS(w) \/ ResolveUnknown(w)
           \/ ResolveFailed(w) \/ ReadFailed(w) \/ Interrupted(w)
  <2>1. {"unsupported", "noPDS", "identityNotFound", "failed", "interrupted"}
           \subseteq CachedErrors \cup {"interrupted"}
    BY DEF CachedErrors
  <2>2. \E error \in CachedErrors \cup {"interrupted"} : Finish(w, Failure(error))
    BY <1>2, <2>1
    DEF RefuseCollection, ResolveWithoutPDS, ResolveUnknown, ResolveFailed, ReadFailed,
        Interrupted
  <2>3. call[w].phase \in {"resolving", "reading"}
    BY <1>2 DEF RefuseCollection, ResolveWithoutPDS, ResolveUnknown, ResolveFailed,
                ReadFailed, Interrupted, Reading
  <2> QED  BY <2>2, <2>3, FailureInv
<1>3. CASE ReadFound(w) \/ ReadAbsent(w) \/ ReadAll(w)
  BY <1>3, ReadFoundInv, ReadAbsentInv, ReadAllInv
<1>4. CASE AnswerUncached(w) \/ PutStamp(w) \/ PutStore(w) \/ Return(w)
  BY <1>4, AnswerUncachedInv, PutStampInv, PutStoreInv, ReturnInv
<1> QED  BY <1>1, <1>2, <1>3, <1>4 DEF Upstream, Local

LEMMA NextInv == Inv /\ [Next]_vars => Inv'
<1> SUFFICES ASSUME Inv, [Next]_vars PROVE Inv'
  OBVIOUS
<1>1. ASSUME NEW c \in Collections, Publish(c) PROVE Inv'
  <2>1. version + 1 \in 0..MaxVersion
    BY <1>1, LookupAssumption DEF Publish, Inv, UpstreamOK
  <2> QED  BY <1>1, <2>1, UpstreamInv DEF Publish
<1>2. ASSUME NEW c \in Collections, Delete(c) PROVE Inv'
  <2>1. 0 \in 0..MaxVersion /\ version \in 0..MaxVersion
    BY LookupAssumption DEF Inv, UpstreamOK
  <2> QED  BY <1>2, <2>1, UpstreamInv DEF Delete
<1>3. CASE PassTime
  BY <1>3 DEF PassTime, Cache!Tick, Inv, UpstreamOK, CallsOK, CacheOK, PutsOK,
              upstream, history
<1>4. ASSUME NEW w \in Workers, NEW key \in Requests,
             AskCached(w, key) \/ AskUpstream(w, key)
      PROVE  Inv'
  BY <1>4, AskCachedInv, AskUpstreamInv
<1>5. ASSUME NEW w \in Workers, Upstream(w) \/ Interrupted(w) \/ Local(w) PROVE Inv'
  BY <1>5, WorkerInv
<1>6. CASE UNCHANGED vars
  BY <1>6 DEF vars, Inv, UpstreamOK, CallsOK, CacheOK, PutsOK, upstream, history, cacheVars
<1> QED  BY <1>1, <1>2, <1>3, <1>4, <1>5, <1>6 DEF Next

THEOREM Invariance == Spec => []Inv
  BY InitInv, NextInv, PTL DEF Spec

----------------------------------------------------------------------------
(* Theorems *)

(* The state of the lookups is always well typed, and a goroutine is       *)
(* inside put exactly while its lookup is storing.                         *)
THEOREM TypeCorrect == Spec => []TypeOK
<1>1. Inv => TypeOK
  BY DEF Inv, UpstreamOK, CallsOK, PutsOK, GoodCall, TypeOK, Resolving, ReadingRecords,
         Concluded
<1> QED  BY <1>1, Invariance, PTL

(* No source that failed to be read passes for an absent profile, and no   *)
(* request is answered with another's collections.                         *)
THEOREM AnswersStayComplete == Spec => []AnswersAreComplete
<1>1. Inv => AnswersAreComplete
  <2> SUFFICES ASSUME Inv, NEW w \in Workers, call[w].phase = "answered",
                      call[w].outcome.error = "none"
               PROVE  /\ DOMAIN call[w].outcome.profiles \subseteq SelectedSet(call[w].key)
                      /\ \A c \in SelectedSet(call[w].key) :
                           Value(call[w].outcome, c) \in held[w][c]
    BY DEF AnswersAreComplete
  <2> QED  BY CallPhases DEF Complete
<1> QED  BY <1>1, Invariance, PTL

(* No request's interruption reaches the cache.                            *)
THEOREM InterruptionsAreNotCached == Spec => []InterruptionsStayPrivate
<1>1. Inv => InterruptionsStayPrivate
  BY DEF Inv, CacheOK, PutsOK, GoodResult, InterruptionsStayPrivate
<1> QED  BY <1>1, Invariance, PTL

(* Every step of the lookups is a step of the cache or leaves it alone.    *)
THEOREM LookupsUseCache == Spec => Cache!CacheSpec
<1>1. Init => Cache!CacheInit
  BY DEF Init
<1>2. ASSUME Inv, [Next]_vars
      PROVE  [Cache!CacheNext]_(Cache!cacheVars)
  <2>1. ASSUME NEW w \in Workers, PutStamp(w) PROVE Cache!CacheNext
    <3>1. call[w] \in Concluded
      BY <1>2, <2>1, CallPhases DEF PutStamp
    <3>2. call[w].key \in Requests /\ call[w].outcome \in Cache!Results
      BY <3>1 DEF Concluded, Cache!Results
    <3> QED  BY <2>1, <3>2 DEF PutStamp, Cache!CacheNext
  <2>2. ASSUME NEW w \in Workers, PutStore(w) PROVE Cache!CacheNext
    <3>1. w \in DOMAIN putting
      BY <1>2, <2>2 DEF PutStore, Inv, PutsOK
    <3> QED  BY <2>2, <3>1 DEF PutStore, Cache!CacheNext
  <2>3. ASSUME NEW w \in Workers, NEW key \in Requests,
               AskCached(w, key) \/ AskUpstream(w, key)
        PROVE  Cache!CacheNext
    BY <2>3 DEF AskCached, AskUpstream, Cache!CacheNext
  <2>4. CASE PassTime
    BY <2>4 DEF PassTime, Cache!CacheNext
  <2>5. ASSUME NEW w \in Workers,
               Upstream(w) \/ Interrupted(w) \/ ReadAll(w) \/ AnswerUncached(w) \/ Return(w)
        PROVE  UNCHANGED Cache!cacheVars
    BY <2>5
    DEF Upstream, Resolve, RefuseCollection, ResolveWithoutPDS, ResolveUnknown,
        ResolveFailed, ReadFound, ReadAbsent, ReadFailed, Interrupted, ReadAll,
        AnswerUncached, Return, Finish, cacheVars, Cache!cacheVars
  <2>6. CASE \E c \in Collections : Publish(c) \/ Delete(c)
    BY <2>6 DEF Publish, Delete, cacheVars, Cache!cacheVars
  <2>7. CASE UNCHANGED vars
    BY <2>7 DEF vars, cacheVars, Cache!cacheVars
  <2> QED  BY <1>2, <2>1, <2>2, <2>3, <2>4, <2>5, <2>6, <2>7 DEF Next, Local
<1> QED  BY <1>1, <1>2, Invariance, PTL DEF Spec, Cache!CacheSpec

(* A lookup under way whose key is resident has been crossed.              *)
Crossed == \A w \in Workers :
  InFlight(w) /\ w \notin crossed => call[w].key \notin DOMAIN entries

LEMMA CrossedInvariant == Spec => []Crossed
<1>1. Init => Crossed
  BY DEF Init, Crossed, InFlight, Idle
<1>2. ASSUME Inv, Crossed, [Next]_vars PROVE Crossed'
  <2> SUFFICES ASSUME NEW v \in Workers, InFlight(v)', v \notin crossed'
               PROVE  call'[v].key \notin DOMAIN entries'
    BY DEF Crossed
  <2>0. DOMAIN call = Workers
    BY <1>2 DEF Inv, CallsOK
  <2>1. ASSUME NEW w \in Workers, NEW key \in Requests, AskCached(w, key)
        PROVE  call'[v].key \notin DOMAIN entries'
    BY <1>2, <2>0, <2>1 DEF AskCached, Cache!Hit, Crossed, InFlight
  <2>2. ASSUME NEW w \in Workers, NEW key \in Requests, AskUpstream(w, key)
        PROVE  call'[v].key \notin DOMAIN entries'
    <3>1. key \notin DOMAIN entries' /\ DOMAIN entries' \subseteq DOMAIN entries
      BY <2>2 DEF AskUpstream, Cache!Expire, Cache!Miss, Cache!cacheVars, Cache!Unbind
    <3>2. crossed' = crossed
          /\ call' = [call EXCEPT ![w] = [phase |-> "resolving", key |-> key]]
      BY <2>2 DEF AskUpstream
    <3> QED  BY <1>2, <2>0, <3>1, <3>2 DEF Crossed, InFlight
  <2>3. ASSUME NEW w \in Workers, PutStore(w)
        PROVE  call'[v].key \notin DOMAIN entries'
    <3>1. putting[w].key = call[w].key
      BY <1>2, <2>3 DEF PutStore, Inv, PutsOK
    <3>2. \A k \in DOMAIN entries' : k = call[w].key \/ k \in DOMAIN entries
      BY <2>3, <3>1, StoreEffect DEF PutStore
    <3>3. v # w /\ call'[v] = call[v]
      BY <2>0, <2>3 DEF PutStore, Answered, InFlight
    <3>4. InFlight(v) /\ call[v].key # call[w].key /\ v \notin crossed
      BY <2>3, <3>3 DEF PutStore, InFlight
    <3> QED  BY <1>2, <3>2, <3>3, <3>4 DEF Crossed
  <2>4. ASSUME NEW w \in Workers, PutStamp(w)
        PROVE  call'[v].key \notin DOMAIN entries'
    <3>1. /\ call[w].phase = "finishing" /\ UNCHANGED <<entries, crossed>>
          /\ call' = [call EXCEPT ![w].phase = "storing"]
      BY <2>4 DEF PutStamp, Cache!Stamp, history
    <3>2. call[w] \in Concluded
      BY <1>2, <3>1, CallPhases
    <3>3. call'[v].key = call[v].key /\ InFlight(v)
      BY <2>0, <3>1, <3>2 DEF InFlight, Concluded
    <3> QED  BY <1>2, <3>1, <3>3 DEF Crossed
  <2>5. ASSUME NEW w \in Workers, ReadFound(w) \/ ReadAbsent(w)
        PROVE  call'[v].key \notin DOMAIN entries'
    <3>1. call[w] \in ReadingRecords /\ call[w].phase = "reading"
      BY <1>2, <2>5, CallPhases DEF ReadFound, ReadAbsent, Reading
    <3>2. UNCHANGED <<entries, crossed>>
      BY <2>5 DEF ReadFound, ReadAbsent, cacheVars, history
    <3>3. call'[v].key = call[v].key /\ InFlight(v)
      BY <2>0, <2>5, <3>1 DEF ReadFound, ReadAbsent, InFlight, ReadingRecords
    <3> QED  BY <1>2, <3>2, <3>3 DEF Crossed
  <2>6. ASSUME NEW w \in Workers, Resolve(w)
        PROVE  call'[v].key \notin DOMAIN entries'
    BY <1>2, <2>0, <2>6 DEF Resolve, InFlight, Crossed, cacheVars, history
  <2>7. ASSUME NEW w \in Workers, NEW outcome, Finish(w, outcome),
               call[w].phase \in {"resolving", "reading"}
        PROVE  call'[v].key \notin DOMAIN entries'
    BY <1>2, <2>0, <2>7 DEF Finish, InFlight, Crossed, cacheVars, history
  <2>8. ASSUME NEW w \in Workers, AnswerUncached(w)
        PROVE  call'[v].key \notin DOMAIN entries'
    BY <1>2, <2>0, <2>8 DEF AnswerUncached, Answered, InFlight, Crossed, cacheVars, history
  <2>9. ASSUME NEW w \in Workers, Return(w)
        PROVE  call'[v].key \notin DOMAIN entries'
    BY <1>2, <2>0, <2>9 DEF Return, InFlight, Idle, Crossed, cacheVars
  <2>10. CASE UNCHANGED <<call, entries, crossed>>
    BY <1>2, <2>10 DEF Crossed, InFlight
  <2>11. ASSUME NEW w \in Workers, Upstream(w) \/ Interrupted(w) \/ Local(w)
         PROVE  call'[v].key \notin DOMAIN entries'
    BY <2>3, <2>4, <2>5, <2>6, <2>7, <2>8, <2>9, <2>11
    DEF Upstream, RefuseCollection, ResolveWithoutPDS, ResolveUnknown, ResolveFailed,
        ReadFailed, Interrupted, Local, ReadAll, Reading
  <2>12. CASE PassTime \/ \E c \in Collections : Publish(c) \/ Delete(c)
    BY <2>10, <2>12 DEF PassTime, Publish, Delete, Cache!Tick, cacheVars, history
  <2> QED
    BY <1>2, <2>1, <2>2, <2>10, <2>11, <2>12 DEF Next, vars, cacheVars, history
<1> QED  BY <1>1, <1>2, Invariance, PTL DEF Spec

(* A live entry is displaced only by a lookup that was under way when the  *)
(* entry was stored.                                                       *)
THEOREM OnlyCrossingLookupsReplace == Spec => ReplacedOnlyByCrossingLookup
<1> DEFINE Replaces(w) == /\ call[w].phase = "storing" /\ call'[w].phase = "answered"
                          /\ call[w].key \in DOMAIN entries
                          /\ clock < entries[call[w].key].expiresAt
<1>1. ASSUME Crossed, NEW w \in Workers, Replaces(w) PROVE w \in crossed
  BY <1>1 DEF Crossed, InFlight
<1>2. Crossed => \A w \in Workers : Replaces(w) => w \in crossed
  BY <1>1
<1>3. Crossed /\ [Next]_vars => [\A w \in Workers : Replaces(w) => w \in crossed]_vars
  BY <1>2
<1> QED  BY <1>3, CrossedInvariant, PTL DEF Spec, ReplacedOnlyByCrossingLookup

----------------------------------------------------------------------------
(* Why a lookup ends *)

(* The steps a lookup has ahead of it at most.                             *)
Remaining(cl) ==
  CASE cl.phase = "idle" -> 0
    [] cl.phase = "answered" -> 1
    [] cl.phase = "storing" -> 2
    [] cl.phase = "finishing" -> 3
    [] cl.phase = "reading" -> 4 + Len(cl.rest)
    [] cl.phase = "resolving" -> 5 + Len(Selection[cl.key])

LEMMA RemainingType ==
  ASSUME Inv, NEW w \in Workers
  PROVE  /\ Remaining(call[w]) \in Nat
         /\ call[w].phase \in {"resolving", "reading"} => Remaining(call[w]) > 3
<1>1. call[w].phase = "reading" => Len(call[w].rest) \in Nat
  BY CallPhases, LenProperties DEF ReadingRecords
<1>2. call[w].phase = "resolving" => Len(Selection[call[w].key]) \in Nat
  BY CallPhases, LenProperties, LookupAssumption DEF Resolving
<1> QED  BY <1>1, <1>2, CallPhases DEF Remaining

(* Every step of a lookup, whichever way the upstream answers, is one that *)
(* brings it nearer to its end; there is no step back and no retry.        *)
LEMMA WorkerApproachesEnd ==
  ASSUME Inv, NEW w \in Workers, Upstream(w) \/ Interrupted(w) \/ Local(w)
  PROVE  /\ Remaining(call'[w]) < Remaining(call[w])
         /\ \A v \in Workers \ {w} : call'[v] = call[v]
<1>1. DOMAIN call = Workers
  BY DEF Inv, CallsOK
<1>2. /\ Remaining(call[w]) \in Nat
      /\ call[w].phase \in {"resolving", "reading"} => Remaining(call[w]) > 3
  BY RemainingType
<1>3. ASSUME NEW outcome, Finish(w, outcome), call[w].phase \in {"resolving", "reading"}
      PROVE  Remaining(call'[w]) < Remaining(call[w]) /\ \A v \in Workers \ {w} : call'[v] = call[v]
  <2>1. call'[w].phase = "finishing" /\ \A v \in Workers \ {w} : call'[v] = call[v]
    BY <1>1, <1>3 DEF Finish
  <2> QED  BY <1>2, <1>3, <2>1 DEF Remaining
<1>4. CASE RefuseCollection(w) \/ ResolveWithoutPDS(w) \/ ResolveUnknown(w)
           \/ ResolveFailed(w) \/ ReadFailed(w) \/ Interrupted(w) \/ ReadAll(w)
  BY <1>3, <1>4
  DEF RefuseCollection, ResolveWithoutPDS, ResolveUnknown, ResolveFailed, ReadFailed,
      Interrupted, ReadAll, Reading
<1>5. CASE Resolve(w)
  <2>1. /\ call[w].phase = "resolving" /\ call'[w].phase = "reading"
        /\ call'[w].rest = Selection[call[w].key]
        /\ \A v \in Workers \ {w} : call'[v] = call[v]
    BY <1>1, <1>5 DEF Resolve
  <2>2. Len(Selection[call[w].key]) \in Nat
    BY <2>1, CallPhases, LenProperties, LookupAssumption DEF Resolving
  <2> QED  BY <2>1, <2>2 DEF Remaining
<1>6. CASE ReadFound(w) \/ ReadAbsent(w)
  <2>1. /\ call[w] \in ReadingRecords /\ call[w].phase = "reading" /\ call[w].rest # <<>>
    BY <1>6, CallPhases DEF ReadFound, ReadAbsent, Reading
  <2>2. /\ call'[w].phase = "reading" /\ call'[w].rest = Tail(call[w].rest)
        /\ \A v \in Workers \ {w} : call'[v] = call[v]
    BY <1>1, <1>6, <2>1 DEF ReadFound, ReadAbsent, ReadingRecords
  <2>3. Len(call[w].rest) \in Nat /\ Len(Tail(call[w].rest)) = Len(call[w].rest) - 1
    BY <2>1, HeadTailProperties, LenProperties DEF ReadingRecords
  <2> QED  BY <2>1, <2>2, <2>3 DEF Remaining
<1>7. CASE AnswerUncached(w) \/ PutStore(w)
  <2>1. /\ call[w].phase \in {"finishing", "storing"} /\ call'[w].phase = "answered"
        /\ \A v \in Workers \ {w} : call'[v] = call[v]
    BY <1>1, <1>7 DEF AnswerUncached, PutStore, Answered
  <2> QED  BY <2>1 DEF Remaining
<1>8. CASE PutStamp(w)
  <2>1. /\ call[w].phase = "finishing" /\ call'[w].phase = "storing"
        /\ \A v \in Workers \ {w} : call'[v] = call[v]
    BY <1>1, <1>8, CallPhases DEF PutStamp, Concluded
  <2> QED  BY <2>1 DEF Remaining
<1>9. CASE Return(w)
  <2>1. /\ call[w].phase = "answered" /\ call'[w].phase = "idle"
        /\ \A v \in Workers \ {w} : call'[v] = call[v]
    BY <1>1, <1>9 DEF Return, Idle
  <2> QED  BY <2>1 DEF Remaining
<1> QED  BY <1>4, <1>5, <1>6, <1>7, <1>8, <1>9 DEF Upstream, Local

(* A lookup that has begun goes only forward: each of its steps, and no    *)
(* other lookup, upstream write or tick of the clock sets it back, so that *)
(* it ends after 5 steps and one per selected collection.                  *)
THEOREM LookupsOnlyAdvance ==
  Spec => /\ [](\A w \in Workers : Remaining(call[w]) \in Nat)
          /\ [][\A w \in Workers :
                  call[w].phase # "idle" /\ call'[w] # call[w] =>
                    Remaining(call'[w]) < Remaining(call[w])]_vars
<1> DEFINE Advance == \A w \in Workers :
             call[w].phase # "idle" /\ call'[w] # call[w] =>
               Remaining(call'[w]) < Remaining(call[w])
<1>1. Inv => \A w \in Workers : Remaining(call[w]) \in Nat
  BY RemainingType
<1>2. ASSUME Inv, Next PROVE Advance
  <2>1. CASE UNCHANGED call
    BY <2>1
  <2>2. ASSUME NEW w \in Workers, NEW key \in Requests,
               AskCached(w, key) \/ AskUpstream(w, key)
        PROVE  Advance
    <3>1. call[w].phase = "idle" /\ \A v \in Workers \ {w} : call'[v] = call[v]
      BY <1>2, <2>2 DEF AskCached, AskUpstream, Inv, CallsOK
    <3> QED  BY <3>1
  <2>3. ASSUME NEW w \in Workers, Upstream(w) \/ Interrupted(w) \/ Local(w) PROVE Advance
    BY <1>2, <2>3, WorkerApproachesEnd
  <2>4. (\E c \in Collections : Publish(c) \/ Delete(c)) \/ PassTime => UNCHANGED call
    BY DEF Publish, Delete, PassTime
  <2> QED  BY <1>2, <2>1, <2>2, <2>3, <2>4 DEF Next
<1>3. Inv /\ [Next]_vars => [Advance]_vars
  BY <1>2
<1> QED  BY <1>1, <1>3, Invariance, PTL DEF Spec

----------------------------------------------------------------------------
(* The cache's own theorems, for the lookups as its caller.  They hold for *)
(* any caller, so that of how AccountCacheKeys calls it nothing is asked:  *)
(* no request and two digits will do.                                      *)
CacheProofs == INSTANCE AccountCache_proof
  WITH Keys <- Requests, Spelled <- {}, Requests <- {},
       Characters <- {"0", "1"}, Digit <- <<"0", "1">>, asking <- call

LEMMA CacheProofsApply ==
  /\ CacheProofs!CacheAssumption
  /\ CacheProofs!DigitAssumption
  /\ CacheProofs!KeysAssumption
<1>1. CacheProofs!CacheAssumption
  BY CacheConfigured DEF CacheProofs!CacheAssumption, Cache!CacheAssumption
<1>2. CacheProofs!DigitAssumption
  BY DEF CacheProofs!DigitAssumption, CacheProofs!IsInjective, CacheProofs!Range
<1>3. CacheProofs!KeysAssumption
  BY DEF CacheProofs!KeysAssumption, CacheProofs!Key
<1> QED  BY <1>1, <1>2, <1>3

LEMMA SameCache ==
  /\ Cache!CacheInit <=> CacheProofs!CacheInit
  /\ [Cache!CacheNext]_(Cache!cacheVars) <=> [CacheProofs!CacheNext]_(CacheProofs!cacheVars)
  BY DEF Cache!CacheInit, CacheProofs!CacheInit, Cache!CacheNext,
         CacheProofs!CacheNext, Cache!cacheVars, CacheProofs!cacheVars,
         Cache!Tick, CacheProofs!Tick, Cache!Hit, CacheProofs!Hit,
         Cache!Expire, CacheProofs!Expire, Cache!Miss, CacheProofs!Miss,
         Cache!Stamp, CacheProofs!Stamp, Cache!Store, CacheProofs!Store,
         Cache!Replace, CacheProofs!Replace, Cache!Insert, CacheProofs!Insert,
         Cache!InsertEvicting, CacheProofs!InsertEvicting, Cache!Stored,
         CacheProofs!Stored, Cache!Used, CacheProofs!Used, Cache!Victim,
         CacheProofs!Victim, Cache!Full, CacheProofs!Full, Cache!Live,
         CacheProofs!Live, Cache!Ttl, CacheProofs!Ttl, Cache!Bind,
         CacheProofs!Bind, Cache!Unbind, CacheProofs!Unbind, Cache!Results,
         CacheProofs!Results, Cache!MoveToFront, CacheProofs!MoveToFront,
         Cache!PushFront, CacheProofs!PushFront, Cache!Unlink,
         CacheProofs!Unlink, Cache!Back, CacheProofs!Back, Cache!Cons,
         CacheProofs!Cons, Cache!RemoveAt, CacheProofs!RemoveAt, Cache!Last,
         CacheProofs!Last, Cache!Cardinality, CacheProofs!Cardinality

(* The cache's inductive invariant, for the lookups.                       *)
LEMMA CacheInvariance == Spec => []CacheProofs!Inv
<1>1. Cache!CacheSpec => CacheProofs!CacheSpec
  BY SameCache, PTL DEF Cache!CacheSpec, CacheProofs!CacheSpec
<1>2. CacheProofs!CacheSpec => []CacheProofs!Inv
  BY CacheProofs!Invariance, CacheProofsApply, PTL
<1> QED  BY <1>1, <1>2, LookupsUseCache, PTL

(* Under Service.Lookup, whatever its callers and the upstream do: the     *)
(* map and the list of the cache stay in step and in order of use, within  *)
(* MaxEntries.                                                             *)
THEOREM CacheStaysSoundUnderLookups ==
  Spec => [](Cache!CacheCoherent /\ Cache!RecencyIsOrderOfUse)
<1>1. CacheProofs!Inv => Cache!CacheCoherent /\ Cache!RecencyIsOrderOfUse
  BY DEF CacheProofs!Inv, CacheProofs!CacheCoherent, CacheProofs!RecencyIsOrderOfUse,
         Cache!CacheCoherent, Cache!RecencyIsOrderOfUse,
         CacheProofs!Enlists, Cache!Enlists, CacheProofs!Ordered, Cache!Ordered,
         CacheProofs!Cardinality, Cache!Cardinality
<1> QED  BY <1>1, CacheInvariance, PTL

(* A lookup is answered at once only by a hit.                             *)
LEMMA AnsweredAtOnce ==
  ASSUME Inv, [Next]_vars, NEW w \in Workers,
         call[w].phase = "idle", call'[w].phase = "answered"
  PROVE  \E key \in Requests : AskCached(w, key)
<1>1. call'[w] # call[w] /\ DOMAIN call = Workers
  BY DEF Inv, CallsOK
<1>2. ASSUME NEW v \in Workers, Upstream(v) \/ Interrupted(v) \/ Local(v) PROVE FALSE
  <2>1. Remaining(call'[w]) < Remaining(call[w])
    BY <1>1, <1>2, WorkerApproachesEnd
  <2> QED  BY <2>1 DEF Remaining
<1>3. ASSUME NEW v \in Workers, NEW key \in Requests, AskUpstream(v, key) PROVE FALSE
  BY <1>1, <1>3 DEF AskUpstream
<1>4. ASSUME NEW v \in Workers, NEW key \in Requests, AskCached(v, key) PROVE v = w
  BY <1>1, <1>4 DEF AskCached
<1>5. ~UNCHANGED call
  BY <1>1
<1>6. ~PassTime /\ ~(\E c \in Collections : Publish(c) \/ Delete(c))
  BY <1>5 DEF PassTime, Publish, Delete
<1>7. ~UNCHANGED vars
  BY <1>5 DEF vars
<1> QED  BY <1>2, <1>3, <1>4, <1>6, <1>7 DEF Next

(* What a lookup is answered from the cache was put less than its TTL ago. *)
THEOREM CachedAnswersStayFresh == Spec => CachedAnswersFresh
<1> DEFINE Fresh(w) ==
             call[w].phase = "idle" /\ call'[w].phase = "answered" =>
               LET key == call'[w].key
                   outcome == call'[w].outcome
               IN  /\ key \in DOMAIN entries
                   /\ outcome = entries[key].result
                   /\ clock < entries[key].stampedAt + Cache!Ttl(outcome)
<1>1. ASSUME CacheProofs!Inv, NEW key \in DOMAIN entries
      PROVE  entries[key].expiresAt = entries[key].stampedAt + Cache!Ttl(entries[key].result)
  BY <1>1
  DEF CacheProofs!Inv, CacheProofs!EntriesStamped, CacheProofs!StampedRight,
      CacheProofs!Ttl, Cache!Ttl
<1>2. ASSUME Inv, CacheProofs!Inv, [Next]_vars, NEW w \in Workers PROVE Fresh(w)
  <2> SUFFICES ASSUME call[w].phase = "idle", call'[w].phase = "answered"
               PROVE  /\ call'[w].key \in DOMAIN entries
                      /\ call'[w].outcome = entries[call'[w].key].result
                      /\ clock < entries[call'[w].key].stampedAt
                                   + Cache!Ttl(call'[w].outcome)
    OBVIOUS
  <2>1. PICK key \in Requests : AskCached(w, key)
    BY <1>2, AnsweredAtOnce
  <2>2. call'[w].key = key /\ call'[w].outcome = entries[key].result
    BY <1>2, <2>1 DEF AskCached, Inv, CallsOK
  <2>3. key \in DOMAIN entries /\ clock < entries[key].expiresAt
    BY <2>1 DEF AskCached, Cache!Hit, Cache!Live
  <2> QED  BY <1>1, <1>2, <2>2, <2>3
<1>3. Inv /\ CacheProofs!Inv /\ [Next]_vars => [\A w \in Workers : Fresh(w)]_vars
  <2> HIDE DEF Fresh
  <2> QED  BY <1>2
<1> QED  BY <1>3, Invariance, CacheInvariance, PTL DEF Spec, CachedAnswersFresh

(* ... and an answer is evicted before its time only from a full cache     *)
(* in which every other has been used since.                               *)
THEOREM LookupsEvictLeastRecent == Spec => Cache!EvictsLeastRecentlyUsed
<1>1. Cache!CacheSpec => CacheProofs!CacheSpec
  BY SameCache, PTL DEF Cache!CacheSpec, CacheProofs!CacheSpec
<1>2. CacheProofs!CacheSpec => CacheProofs!EvictsLeastRecentlyUsed
  BY CacheProofs!EvictionIsLRU, CacheProofsApply, PTL
<1>3. CacheProofs!EvictsLeastRecentlyUsed <=> Cache!EvictsLeastRecentlyUsed
  BY DEF CacheProofs!EvictsLeastRecentlyUsed, Cache!EvictsLeastRecentlyUsed,
         CacheProofs!Live, Cache!Live, CacheProofs!Full, Cache!Full,
         CacheProofs!cacheVars, Cache!cacheVars,
         CacheProofs!Cardinality, Cache!Cardinality
<1> QED  BY <1>1, <1>2, <1>3, LookupsUseCache, PTL

============================================================================
