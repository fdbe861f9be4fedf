--------------------------- MODULE AccountEndpoint ---------------------------
(***************************************************************************)
(* The handlers of internal/web (routes, handlers.go; handleAccount and    *)
(* handleAvatar, account.go), from a request to the status and the caching *)
(* headers of its answer, and a shared cache between the service and its   *)
(* clients that keeps what HTTP lets it keep.  The account endpoint runs   *)
(* AcceptNegotiation; a lookup or avatar is one of its possible outcomes.  *)
(*                                                                         *)
(* A second request for the same path follows the first: Kept is what the  *)
(* cache could answer it with, chosen what the service would.              *)
(***************************************************************************)
EXTENDS AcceptNegotiation

CONSTANT MaxServed  \* bound on the items of a header that is answered

VARIABLES
  path,    \* of both requests
  answer,  \* {} before it is sent
  kept     \* {} or the first request and its answer

endpointVars == <<vars, path, answer, kept>>

Account == "/{identifier}"
AvatarPaths == {"/avatar/{identifier}", "/avatar/{identifier}/{file}"}
OtherFile == "/avatar/{identifier}/other"
Limited == {Account, OtherFile} \cup AvatarPaths
Unmatched == "unmatched"  \* a path or a method without a route
Paths == Limited \cup {"/", "/lookup", "/healthz", Unmatched}

(* classifyLookupFailure: the sentinels exclude each other. *)
StatusOf ==
  [ErrInvalidIdentifier |-> 400, ErrIdentityNotFound |-> 404, ErrNoPDS |-> 502,
   ErrUnsupportedCollection |-> 400, ErrProfileNotFound |-> 404,
   ErrAvatarNotFound |-> 404, DeadlineExceeded |-> 504, other |-> 502]

AvatarFailures == DOMAIN StatusOf \ {"ErrUnsupportedCollection"}
LookupFailures == DOMAIN StatusOf \ {"ErrProfileNotFound", "ErrAvatarNotFound"}

(* An answer: cache is its Cache-Control, "" if it has none. *)
Answer(status, cache, vary) == [status |-> status, cache |-> cache, vary |-> vary]

(* Seeded faults *)

IndexAlwaysPublic(status) == "public"

VaryOnAccept == {"Accept"}

----------------------------------------------------------------------------
(* Cache-Control of writeIndexHTML. *)
IndexCaching(status) == IF status = 200 THEN "public" ELSE "no-store"

AccountVary == {"Accept", "User-Agent"}

(* What a shared cache may keep (RFC 9111): what says so, and, unless told *)
(* not to, an answer whose status is cacheable by default.  A 304 only     *)
(* renews what is kept, and a 405 answers no GET.                          *)
Storable(a) ==
  \/ a.cache = "public" /\ a.status # 304
  \/ a.cache = "" /\ a.status \in {200, 404}

(* The kept answer is used for requests that agree on what it varies by.   *)
Answers(k) ==
  /\ "Accept" \in k.answer.vary => k.header = header
  /\ "User-Agent" \in k.answer.vary => k.agent = agent

----------------------------------------------------------------------------
EndpointInit ==
  /\ Init
  /\ path \in Paths
  /\ path # Account => header = <<>>
  /\ answer = {}
  /\ kept = {}

(* A request has arrived, and nothing has been done for it. *)
Arrived(paths) == answer = {} /\ path \in paths /\ Fresh

Send(a) == answer' = {a} /\ UNCHANGED <<path, kept>>

(* A template that fails is answered before any Cache-Control is set. *)
WriteIndex(status, vary) ==
  \/ Send(Answer(status, IndexCaching(status), vary))
  \/ Send(Answer(500, "", vary))

(* The mux's own answers: not found, not allowed, or a path to be cleaned. *)
MuxAnswers ==
  /\ Arrived({Unmatched})
  /\ \E status \in {404, 405, 307} : Send(Answer(status, "", {}))
  /\ UNCHANGED vars

HandleRoot == Arrived({"/"}) /\ WriteIndex(200, {}) /\ UNCHANGED vars

HandleHealth == Arrived({"/healthz"}) /\ Send(Answer(200, "", {})) /\ UNCHANGED vars

(* 400 without an identifier, else a redirect to the account. *)
HandleLookup ==
  /\ Arrived({"/lookup"})
  /\ Send(Answer(400, "", {})) \/ Send(Answer(303, "no-store", {}))
  /\ UNCHANGED vars

(* limitLookups answers before the handler runs. *)
Limit ==
  /\ Arrived(Limited)
  /\ \E status \in {429, 500} : Send(Answer(status, "no-store", {}))
  /\ UNCHANGED vars

(* ServeContent answers the request's ranges and preconditions under the   *)
(* headers set before it; only for a range it cannot satisfy (416) does it *)
(* take Cache-Control back.                                                *)
HandleAvatar ==
  /\ Arrived(AvatarPaths)
  /\ \/ \E status \in {200, 206, 304, 412} : Send(Answer(status, "public", {}))
     \/ Send(Answer(416, "", {}))
     \/ \E e \in AvatarFailures : Send(Answer(StatusOf[e], "no-store", {}))
  /\ UNCHANGED vars

(* Any other file name is unknown. *)
HandleOtherFile == Arrived({OtherFile}) /\ Send(Answer(404, "", {})) /\ UNCHANGED vars

Negotiate ==
  /\ answer = {}
  /\ path = Account
  /\ Next
  /\ UNCHANGED <<path, answer, kept>>

Negotiated(choices) ==
  /\ answer = {}
  /\ phase = "done"
  /\ chosen \in choices
  /\ Len(header) <= MaxServed
  /\ UNCHANGED vars

NotAcceptable == Negotiated({"none"}) /\ Send(Answer(406, "no-store", AccountVary))

RedirectToAvatar == Negotiated({"image"}) /\ Send(Answer(307, "public", AccountVary))

(* A lookup that fails, or finds no profile, as the index page or as JSON. *)
FailLookup ==
  /\ Negotiated({"json", "html"})
  /\ \E status \in {StatusOf[e] : e \in LookupFailures} \cup {404} :
       \/ chosen = "html" /\ WriteIndex(status, AccountVary)
       \/ chosen = "json" /\ Send(Answer(status, "no-store", AccountVary))

SendAccount == Negotiated({"json", "html"}) /\ Send(Answer(200, "", AccountVary))

(* The response cannot be built, or (JSON only) cannot be encoded. *)
FailEncoding ==
  /\ Negotiated({"json", "html"})
  /\ \/ Send(Answer(500, "no-store", AccountVary))
     \/ chosen = "json" /\ Send(Answer(500, "", AccountVary))

(* Another request for the path, with the same header or none at all. *)
Repeat ==
  /\ kept = {}
  /\ \E a \in answer :
       /\ Storable(a)
       /\ kept' = {[header |-> header, agent |-> agent, chosen |-> chosen, answer |-> a]}
  /\ answer' = {}
  /\ header' \in {header, <<>>}
  /\ agent' \in Agents
  /\ phase' = "merging"
  /\ next' = 1
  /\ preference' = [r \in Representation |-> Absent]
  /\ best' = Absent
  /\ candidates' = {}
  /\ chosen' = "none"
  /\ UNCHANGED path

EndpointNext ==
  \/ MuxAnswers \/ HandleRoot \/ HandleHealth \/ HandleLookup
  \/ Limit \/ HandleAvatar \/ HandleOtherFile
  \/ Negotiate
  \/ NotAcceptable \/ RedirectToAvatar \/ FailLookup \/ SendAccount \/ FailEncoding
  \/ Repeat

EndpointSpec == EndpointInit /\ [][EndpointNext]_endpointVars

----------------------------------------------------------------------------
(* Properties *)

(* Whatever a shared cache keeps of the account endpoint fits whoever it   *)
(* gives it to: the service would have chosen the same representation, so  *)
(* a link preview's page or an image's redirect never reaches an API       *)
(* client (Vary, account.go:53).                                           *)
SharedCopyFits ==
  phase = "done" => \A k \in kept : Answers(k) => k.chosen = chosen

(* No failure to look an account up outlives its request in a shared       *)
(* cache: not the error page of a lookup, nor the JSON error, nor a        *)
(* client's 429, nor an unattributable request's 500.  What may be kept is *)
(* no such failure: the 404 of a name without a route or a file, which     *)
(* does not depend on any account, and the 412 by which the avatar         *)
(* endpoint refuses a client's own precondition, under the avatar's        *)
(* Cache-Control.                                                          *)
LookupFailuresNotKept ==
  \A a \in answer :
    Storable(a) /\ a.status >= 400 =>
      \/ a.status = 404 /\ path \in {OtherFile, Unmatched}
      \/ a.status = 412 /\ path \in AvatarPaths

============================================================================
