----------------------------- MODULE LookupGate -----------------------------
(***************************************************************************)
(* limitLookups of internal/web/rate_limit.go: what stands in front of the *)
(* account and the avatar endpoints.  It attributes a request to a source  *)
(* address (requestSourceIP), asks the limiter, and answers 500 or 429, or *)
(* lets the handler run.                                                   *)
(*                                                                         *)
(* Clients connect themselves or through a trusted proxy, which adds their *)
(* address to whatever X-Forwarded-For they sent, in a line of its own or  *)
(* at the end of the last one.                                             *)
(*                                                                         *)
(* sender, failed and told are history: no guard reads them.               *)
(***************************************************************************)
EXTENDS SourceIPLimiter

CONSTANTS
  TrustedProxies,  \* peers within --trusted-proxy-cidr; no sources themselves
  Supplied         \* X-Forwarded-For headers clients send of their own accord

(* How an address may be written; the last two forms denote none.          *)
Forms == {"address", "mapped", "address:port", "blank", "unparsable"}

Written == [host : Sources \cup TrustedProxies, form : Forms]

(* A header: lines in order of appearance, each split at its commas.       *)
Headers == Seq(Seq(Written) \ {<<>>})

ASSUME GateAssumption ==
  /\ TrustedProxies \cap Sources = {}
  /\ Supplied \subseteq Headers

VARIABLES
  sender,  \* history: worker -> host whose request it serves
  failed,  \* history: hosts answered 500
  told     \* history: source -> its last 429: when to return, and the
           \* number of admissions it had had by then

gateHistory == <<sender, failed, told>>
gateVars == <<vars, gateHistory>>

NotTold == [until |-> 0, before |-> 0]

----------------------------------------------------------------------------
(* The address a header element denotes, if any, IPv4-mapped forms undone. *)
forwardedIP(e) ==
  IF e.form \in {"address", "mapped", "address:port"} THEN {e.host} ELSE {}

(* Seeded faults *)

FirstOfLastLine(peer, lines) ==
  IF peer \notin TrustedProxies THEN {peer}
  ELSE IF lines = <<>> THEN {} ELSE forwardedIP(lines[Len(lines)][1])

TruncatedSeconds(duration) == duration \div Second

----------------------------------------------------------------------------
(* The source of a request, or the empty set for an error: only the last   *)
(* element of the last line is a trusted proxy's own.  The peer is the     *)
(* RemoteAddr net/http takes from a TCP connection, which always parses.   *)
requestSourceIP(peer, lines) ==
  IF peer \notin TrustedProxies THEN {peer}
  ELSE IF lines = <<>> THEN {}
  ELSE LET line == lines[Len(lines)] IN forwardedIP(line[Len(line)])

(* Whole seconds, rounded up and never less than one. *)
retryAfterSeconds(duration) ==
  Later((duration + Second - 1) \div Second, 1)

----------------------------------------------------------------------------
(* The requests of a host as the service sees them. *)

(* A proxy adds what it knows of its client to the header it was given. *)
Forwarded(lines, e) ==
  {Append(lines, <<e>>)} \cup
  IF lines = <<>> THEN {} ELSE {[lines EXCEPT ![Len(lines)] = Append(@, e)]}

ClientElements(h) == [host : {h}, form : {"address", "mapped", "address:port"}]

(* A proxy's own requests, its health checks, carry no client address. *)
OwnHeaders(p) == {<<>>} \cup {<<<<e>>>> : e \in [host : {p}, form : {"blank", "unparsable"}]}

(* The sources a host's requests are attributed to, one set per request. *)
Attributed(h) ==
  IF h \in TrustedProxies
  THEN {requestSourceIP(h, lines) : lines \in OwnHeaders(h)}
  ELSE {requestSourceIP(h, lines) : lines \in Supplied} \cup
       UNION {{requestSourceIP(p, lines) : lines \in Forwarded(given, e)} :
                p \in TrustedProxies, given \in Supplied, e \in ClientElements(h)}

Attributions == [h \in Sources \cup TrustedProxies |-> Attributed(h)]

----------------------------------------------------------------------------
GateInit ==
  /\ Init
  /\ sender = [w \in {} |-> 0]
  /\ failed = {}
  /\ told = [s \in Sources |-> NotTold]

GateTick == Tick /\ UNCHANGED gateHistory

(* The request is attributed to a source, and allow is called. *)
Attribute(w, h) ==
  /\ \E source \in Attributions[h] : \E s \in source : ReadClock(w, s)
  /\ sender' = Bind(sender, w, h)
  /\ UNCHANGED <<failed, told>>

(* 500: the limiter never hears of the request. *)
FailAttribution(h) ==
  /\ {} \in Attributions[h]
  /\ failed' = failed \cup {h}
  /\ UNCHANGED <<vars, sender, told>>

(* The handler runs. *)
LetThrough(w) ==
  /\ AdmitResident(w) \/ AdmitNew(w) \/ AdmitReclaiming(w)
  /\ sender' = Unbind(sender, w)
  /\ UNCHANGED <<failed, told>>

(* 429 with Retry-After.  The client counts from no earlier than its call. *)
TooManyRequests(w) ==
  LET s == pending[w].source
      now == pending[w].now
  IN  /\ Deny(w) \/ RefuseNewSource(w)
      /\ told' = [told EXCEPT ![s] =
           [until |-> now + retryAfterSeconds(retryAt'[s] - now) * Second,
            before |-> Len(admitted[s])]]
      /\ sender' = Unbind(sender, w)
      /\ UNCHANGED failed

GateNext ==
  \/ GateTick
  \/ \E w \in Workers, h \in Sources \cup TrustedProxies : Attribute(w, h)
  \/ \E h \in Sources \cup TrustedProxies : FailAttribution(h)
  \/ \E w \in DOMAIN pending : LetThrough(w) \/ TooManyRequests(w)

GateSpec == GateInit /\ [][GateNext]_gateVars

----------------------------------------------------------------------------
(* Properties *)

(* "only the last element of the last X-Forwarded-For value is trusted"    *)
(* (requestSourceIP, rate_limit.go:195): whatever header a client makes    *)
(* up, in however many lines, and whichever way its address reaches the    *)
(* service, its calls are charged to itself, and it is never turned away   *)
(* as unattributable; only a proxy's own requests are.                     *)
SourceIsSender ==
  /\ \A w \in DOMAIN pending : pending[w].source = sender[w]
  /\ failed \cap Sources = {}

(* Retry-After in whole seconds (retryAfterSeconds) restores the whole     *)
(* burst: a resident source that stays away as long as it was told is let  *)
(* through Rate times before it is denied again.  So an image, which       *)
(* passes the limiter twice (the account endpoint's redirect, then the     *)
(* avatar endpoint), gets through after a wait at every rate above one.    *)
(* Holds when calls are answered in the order of their clock readings.     *)
BurstAfterWait ==
  [][\A s \in DOMAIN entries :
        \A w \in DOMAIN pending \ DOMAIN pending' :
          /\ pending[w].source = s
          /\ admitted'[s] = admitted[s]
          /\ told[s] # NotTold
          /\ pending[w].now >= told[s].until
          => Len(admitted[s]) - told[s].before >= Rate]_gateVars

============================================================================
