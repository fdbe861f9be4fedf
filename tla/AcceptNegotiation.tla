------------------------- MODULE AcceptNegotiation -------------------------
(***************************************************************************)
(* negotiateAccountRepresentation in internal/web/accept.go: which of its  *)
(* representations the account endpoint answers with, given the items of   *)
(* the Accept header and the kind of client.                               *)
(*                                                                         *)
(* One loop merges the items into a preference for each representation; a  *)
(* second one, over the representations, keeps the best so far and those   *)
(* that tie with it.  An iteration is a step.                              *)
(*                                                                         *)
(* Only the media ranges the code distinguishes are told apart; any image  *)
(* type the header names is "image/png".  Qualities are ranks, 0 for q=0.  *)
(***************************************************************************)
EXTENDS Integers, Sequences, Functions

CONSTANTS
  Qualities,  \* valid values of q
  MaxItems,   \* bound on the items of one header
  Agents      \* user agents, each the set of the lists it matches

ASSUME NegotiationAssumption ==
  /\ Qualities \subseteq Nat
  /\ 0 \in Qualities
  /\ MaxItems \in Nat
  /\ Agents \subseteq SUBSET {"programmatic", "browser", "preview"}

(* In the order in which they are ranked. *)
Representations == <<"json", "html", "image">>
Representation == Range(Representations)

Named == [json |-> "application/json", html |-> "text/html", image |-> "image/png"]
Family == [json |-> "application/*", html |-> "text/*", image |-> "image/*"]
Anything == "*/*"

(* A quality that does not parse or is out of range. *)
Invalid == -1

Item == [range : Range(Named) \cup Range(Family) \cup {Anything, "audio/*"},
         quality : Qualities \cup {Invalid}]

Absent == [quality |-> 0, specificity |-> 0, present |-> FALSE]

Preference == {Absent} \cup [quality : Qualities, specificity : 0..2, present : {TRUE}]

VARIABLES
  header,      \* splitAcceptValues: the items of the Accept header
  agent,       \* the lists the user agent matches, {} also for no agent
  phase,       \* "merging", "ranking" or "done"
  next,        \* the index the running loop has reached
  preference,  \* html, jsonPreference and image
  best,        \* the best preference among those ranked
  candidates,  \* the representations that have it
  chosen       \* what is returned, "none" for representationNotAcceptable

request == <<header, agent>>
vars == <<request, phase, next, preference, best, candidates, chosen>>

(* A programming library's client may well claim to be Mozilla/5.0. *)
contextualAccountRepresentation(a) ==
  IF "programmatic" \notin a /\ a \cap {"browser", "preview"} # {} THEN "html" ELSE "json"

contextual == contextualAccountRepresentation(agent)

Covers(range, r) == range \in {Named[r], Family[r], Anything}

Specificity(range, r) ==
  CASE range = Named[r] -> 2
    [] range = Family[r] -> 1
    [] OTHER -> 0

----------------------------------------------------------------------------
(* Seeded faults. *)

(* Between equally specific ranges the last one wins. *)
LastPreference(current, candidate) ==
  IF candidate.specificity >= current.specificity THEN candidate ELSE current

(* Specificity plays no part in the ranking. *)
BetterByQuality(p) == p.quality > best.quality

(* A tie goes to HTML whatever the client. *)
PickHtml ==
  IF candidates = {} THEN "none"
  ELSE IF "html" \in candidates THEN "html"
  ELSE IF "json" \in candidates THEN "json"
  ELSE "image"

----------------------------------------------------------------------------
Fresh ==
  /\ phase = "merging"
  /\ next = 1
  /\ preference = [r \in Representation |-> Absent]
  /\ best = Absent
  /\ candidates = {}
  /\ chosen = "none"

Init ==
  /\ header \in UNION {[1..n -> Item] : n \in 0..MaxItems}
  /\ agent \in Agents
  /\ Fresh

Return(r) ==
  /\ phase' = "done"
  /\ chosen' = r
  /\ UNCHANGED <<request, next, preference, best, candidates>>

(* Without an Accept header the client decides. *)
ChooseForClient ==
  /\ phase = "merging"
  /\ header = <<>>
  /\ Return(contextual)

----------------------------------------------------------------------------
Usable(item) == item.quality # Invalid

Merging == phase = "merging" /\ next <= Len(header)

SkipItem ==
  /\ Merging
  /\ ~Usable(header[next])
  /\ next' = next + 1
  /\ UNCHANGED <<request, phase, preference, best, candidates, chosen>>

mostSpecificPreference(current, candidate) ==
  IF \/ ~current.present
     \/ candidate.specificity > current.specificity
     \/ /\ candidate.specificity = current.specificity
        /\ candidate.quality > current.quality
  THEN candidate
  ELSE current

Stated(item, r) ==
  [quality |-> item.quality, specificity |-> Specificity(item.range, r), present |-> TRUE]

Merge ==
  /\ Merging
  /\ Usable(header[next])
  /\ preference' = [r \in Representation |->
                      IF Covers(header[next].range, r)
                      THEN mostSpecificPreference(preference[r], Stated(header[next], r))
                      ELSE preference[r]]
  /\ next' = next + 1
  /\ UNCHANGED <<request, phase, best, candidates, chosen>>

StartRanking ==
  /\ phase = "merging"
  /\ header # <<>>
  /\ next > Len(header)
  /\ phase' = "ranking"
  /\ next' = 1
  /\ UNCHANGED <<request, preference, best, candidates, chosen>>

----------------------------------------------------------------------------
Ranked == preference[Representations[next]]

Ranking == phase = "ranking" /\ next <= Len(Representations)

Wanted(p) == p.present /\ p.quality # 0

Better(p) ==
  \/ ~best.present
  \/ p.quality > best.quality
  \/ p.quality = best.quality /\ p.specificity > best.specificity

Tied(p) == p.quality = best.quality /\ p.specificity = best.specificity

RankBetter ==
  /\ Ranking
  /\ Wanted(Ranked)
  /\ Better(Ranked)
  /\ best' = Ranked
  /\ candidates' = {Representations[next]}
  /\ next' = next + 1
  /\ UNCHANGED <<request, phase, preference, chosen>>

RankTied ==
  /\ Ranking
  /\ Wanted(Ranked)
  /\ ~Better(Ranked)
  /\ Tied(Ranked)
  /\ candidates' = candidates \cup {Representations[next]}
  /\ next' = next + 1
  /\ UNCHANGED <<request, phase, preference, best, chosen>>

RankOut ==
  /\ Ranking
  /\ Wanted(Ranked) => ~Better(Ranked) /\ ~Tied(Ranked)
  /\ next' = next + 1
  /\ UNCHANGED <<request, phase, preference, best, candidates, chosen>>

Pick ==
  IF candidates = {} THEN "none"
  ELSE IF contextual \in candidates THEN contextual
  ELSE IF "html" \in candidates THEN "html"
  ELSE IF "json" \in candidates THEN "json"
  ELSE "image"

Choose ==
  /\ phase = "ranking"
  /\ next > Len(Representations)
  /\ Return(Pick)

----------------------------------------------------------------------------
Next ==
  \/ ChooseForClient
  \/ SkipItem \/ Merge \/ StartRanking
  \/ RankBetter \/ RankTied \/ RankOut \/ Choose

Spec == Init /\ [][Next]_vars

----------------------------------------------------------------------------
(* Properties *)

TypeOK ==
  /\ header \in Seq(Item)
  /\ agent \in Agents
  /\ phase \in {"merging", "ranking", "done"}
  /\ next \in Nat \ {0}
  /\ preference \in [Representation -> Preference]
  /\ best \in Preference
  /\ candidates \subseteq Representation
  /\ chosen \in Representation \cup {"none"}

(* What header h says of r, as a set of items: the most specific range     *)
(* that covers r decides, and among equally specific ones the greatest q.  *)
Stating(h, r) ==
  {Stated(item, r) : item \in {i \in Range(h) : Usable(i) /\ Covers(i.range, r)}}

Outranks(p, q) ==
  \/ p.specificity > q.specificity
  \/ p.specificity = q.specificity /\ p.quality >= q.quality

Says(h, r, p) == p \in Stating(h, r) /\ \A q \in Stating(h, r) : Outranks(p, q)

(* Once merged, each preference is what the header says as a set: neither  *)
(* the order of its items nor repeating one makes a difference, and a      *)
(* narrow range overrides a wide one wherever it stands.                   *)
PreferenceOrderFree ==
  phase = "ranking" =>
    \A r \in Representation :
      IF Stating(header, r) = {} THEN preference[r] = Absent
      ELSE Says(header, r, preference[r])

(* The representations the client would have, and the best of them: those  *)
(* with the highest quality, and among them the most specific.             *)
Offered(h) ==
  {r \in Representation : \E p \in Stating(h, r) : Says(h, r, p) /\ p.quality > 0}

Favourite(h, r) ==
  /\ r \in Offered(h)
  /\ \A s \in Offered(h) : \A p \in Stating(h, r), q \in Stating(h, s) :
       Says(h, r, p) /\ Says(h, s, q) =>
         \/ p.quality > q.quality
         \/ p.quality = q.quality /\ p.specificity >= q.specificity

(* "An explicit Accept preference is authoritative" (accept.go:26): with a *)
(* header, the answer is a favourite of the client, never one it refused   *)
(* with q=0 or did not mention, and 406 exactly if it would have nothing.  *)
ChoiceAuthoritative ==
  phase = "done" /\ header # <<>> =>
    IF Offered(header) = {} THEN chosen = "none" ELSE Favourite(header, chosen)

(* "When the header is absent or leaves multiple representations equally   *)
(* preferred, the user agent breaks the tie" (accept.go:26-28).            *)
AgentBreaksTies ==
  phase = "done" /\ (header = <<>> \/ Favourite(header, contextual)) => chosen = contextual

============================================================================
