------------------------ MODULE AccountEndpoint_proof ------------------------
(***************************************************************************)
(* Proofs about content negotiation and the answers it leads to, for any   *)
(* header, any qualities and any user agents.  Each of the two loops has   *)
(* an invariant; together they show that the choice is a function of the   *)
(* header's items and the user agent, which is what lets a shared cache    *)
(* reuse an answer.                                                        *)
(***************************************************************************)
EXTENDS AccountEndpoint, SequenceTheorems, TLAPS

Relevant(i, r) == Usable(header[i]) /\ Covers(header[i].range, r)

(* The first loop: each preference is the highest ranking of what the      *)
(* first n items say of its representation.                                *)
MergedFor(n, r, p) ==
  IF \A i \in 1..n : ~Relevant(i, r)
  THEN p = Absent
  ELSE /\ \E i \in 1..n : Relevant(i, r) /\ p = Stated(header[i], r)
       /\ \A i \in 1..n : Relevant(i, r) => Outranks(p, Stated(header[i], r))

Merged(n) == \A r \in Representation : MergedFor(n, r, preference[r])

Above(p, q) ==
  \/ p.quality > q.quality
  \/ p.quality = q.quality /\ p.specificity >= q.specificity

(* The second loop: the wanted representations among the first n that are  *)
(* above all others of them.                                               *)
Pref(i) == preference[Representations[i]]

Tops(n, p, set) ==
  IF \A i \in 1..n : ~Wanted(Pref(i))
  THEN p = Absent /\ set = {}
  ELSE /\ \E i \in 1..n : Wanted(Pref(i)) /\ p = Pref(i)
       /\ \A i \in 1..n : Wanted(Pref(i)) => Above(p, Pref(i))
       /\ \A r : r \in set <=> \E i \in 1..n : /\ r = Representations[i]
                                               /\ Wanted(Pref(i))
                                               /\ Above(Pref(i), p)

(* What the header and the user agent decide. *)
Favourites(h) == {r \in Representation : Favourite(h, r)}

Decision(h, a) ==
  IF h = <<>> \/ contextualAccountRepresentation(a) \in Favourites(h)
  THEN contextualAccountRepresentation(a)
  ELSE IF Favourites(h) = {} THEN "none"
  ELSE IF "html" \in Favourites(h) THEN "html"
  ELSE IF "json" \in Favourites(h) THEN "json"
  ELSE "image"

NegotiationInv ==
  /\ TypeOK
  /\ phase = "merging" => /\ next <= Len(header) + 1
                          /\ Merged(next - 1)
                          /\ best = Absent
                          /\ candidates = {}
  /\ phase = "ranking" => /\ header # <<>>
                          /\ Merged(Len(header))
                          /\ next <= 4
                          /\ Tops(next - 1, best, candidates)
  /\ phase = "done" =>
       /\ chosen = Decision(header, agent)
       /\ header # <<>> /\ Favourites(header) = {} => Offered(header) = {}

----------------------------------------------------------------------------
LEMMA RepresentationValues ==
  /\ Representation = {"json", "html", "image"}
  /\ Len(Representations) = 3
  /\ \A i \in 1..3 : Representations[i] \in Representation
  /\ \A r \in Representation : \E i \in 1..3 : r = Representations[i]
<1>1. DOMAIN Representations = 1..3 /\ Len(Representations) = 3
  BY DEF Representations
<1>2. /\ Representations[1] = "json"
      /\ Representations[2] = "html"
      /\ Representations[3] = "image"
  BY DEF Representations
<1>3. 1..3 = {1, 2, 3}
  OBVIOUS
<1> QED  BY <1>1, <1>2, <1>3 DEF Representation, Range

LEMMA ContextualValues ==
  \A a : contextualAccountRepresentation(a) \in {"json", "html"}
  BY DEF contextualAccountRepresentation

(* A usable item's statement is a preference, and present. *)
LEMMA StatedType ==
  ASSUME NEW item \in Item, Usable(item), NEW r \in Representation
  PROVE  /\ Stated(item, r) \in Preference
         /\ Stated(item, r).present
         /\ Stated(item, r).quality \in Nat
         /\ Stated(item, r).specificity \in Nat
<1>1. item.quality \in Qualities /\ item.quality \in Nat
  BY NegotiationAssumption DEF Item, Usable
<1>2. Specificity(item.range, r) \in 0..2
  BY DEF Specificity
<1> QED  BY <1>1, <1>2 DEF Stated, Preference

LEMMA PreferenceFields ==
  ASSUME NEW p \in Preference
  PROVE  p.quality \in Nat /\ p.specificity \in Nat /\ p.present \in BOOLEAN
<1>1. CASE p = Absent
  BY <1>1 DEF Absent
<1>2. CASE p \in [quality : Qualities, specificity : 0..2, present : {TRUE}]
  <2>1. p.quality \in Qualities /\ p.specificity \in 0..2
    BY <1>2
  <2>2. p.present = TRUE
    BY <1>2
  <2>3. p.quality \in Nat
    BY <2>1, NegotiationAssumption
  <2>4. p.specificity \in Nat
    BY <2>1
  <2> QED  BY <2>2, <2>3, <2>4
<1> QED  BY <1>1, <1>2 DEF Preference

LEMMA AbsentPresent == Absent \in Preference /\ ~Absent.present
  BY DEF Absent, Preference

(* One more item. *)
LEMMA MergeOne ==
  ASSUME TypeOK, NEW n \in Nat, n + 1 <= Len(header),
         NEW r \in Representation, NEW p \in Preference, MergedFor(n, r, p)
  PROVE  /\ ~Relevant(n + 1, r) => MergedFor(n + 1, r, p)
         /\ Relevant(n + 1, r) =>
              LET q == mostSpecificPreference(p, Stated(header[n + 1], r))
              IN  q \in Preference /\ MergedFor(n + 1, r, q)
<1>1. \A i \in 1..n + 1 : i \in 1..n \/ i = n + 1
  OBVIOUS
<1>2. \A i \in 1..n + 1 : header[i] \in Item
  BY DEF TypeOK
<1>3. ASSUME ~Relevant(n + 1, r) PROVE MergedFor(n + 1, r, p)
  BY <1>1, <1>3 DEF MergedFor
<1>4. ASSUME Relevant(n + 1, r)
      PROVE  LET q == mostSpecificPreference(p, Stated(header[n + 1], r))
             IN  q \in Preference /\ MergedFor(n + 1, r, q)
  <2> DEFINE c == Stated(header[n + 1], r)
             q == mostSpecificPreference(p, c)
  <2> SUFFICES q \in Preference /\ MergedFor(n + 1, r, q)
    OBVIOUS
  <2>1. c \in Preference /\ c.quality \in Nat /\ c.specificity \in Nat /\ c.present
    BY <1>2, <1>4, StatedType DEF Relevant
  <2>2. p.quality \in Nat /\ p.specificity \in Nat
    BY PreferenceFields
  <2>3. q \in Preference /\ q \in {p, c}
    BY <2>1 DEF mostSpecificPreference
  <2>4. n + 1 \in 1..n + 1
    OBVIOUS
  <2>5. CASE \A i \in 1..n : ~Relevant(i, r)
    <3>1. p = Absent
      BY <2>5 DEF MergedFor
    <3>2. q = c
      BY <3>1, AbsentPresent DEF mostSpecificPreference
    <3>3. Outranks(c, c)
      BY <2>1 DEF Outranks
    <3>4. \A i \in 1..n + 1 : Relevant(i, r) => i = n + 1
      BY <1>1, <2>5
    <3> HIDE DEF q
    <3> QED  BY <1>4, <2>3, <2>4, <3>2, <3>3, <3>4 DEF MergedFor
  <2>6. CASE \E i \in 1..n : Relevant(i, r)
    <3>1. PICK k \in 1..n : Relevant(k, r) /\ p = Stated(header[k], r)
      BY <2>6 DEF MergedFor
    <3>2. p.present
      BY <1>2, <3>1, StatedType DEF Relevant
    <3>3. \A i \in 1..n : Relevant(i, r) => Outranks(p, Stated(header[i], r))
      BY <2>6 DEF MergedFor
    <3>4. \A i \in 1..n : Relevant(i, r) =>
            Stated(header[i], r).quality \in Nat /\ Stated(header[i], r).specificity \in Nat
      BY <1>2, StatedType DEF Relevant
    <3>5. CASE q = c /\ q # p
      <4>1. \/ c.specificity > p.specificity
            \/ c.specificity = p.specificity /\ c.quality > p.quality
        BY <3>2, <3>5 DEF mostSpecificPreference
      <4>2. \A i \in 1..n : Relevant(i, r) => Outranks(c, Stated(header[i], r))
        BY <2>1, <2>2, <3>3, <3>4, <4>1 DEF Outranks
      <4>3. Outranks(c, c)
        BY <2>1 DEF Outranks
      <4> HIDE DEF q
      <4> QED  BY <1>1, <1>4, <2>3, <2>4, <3>5, <4>2, <4>3 DEF MergedFor
    <3>6. CASE q = p
      <4>1. Outranks(p, c)
        BY <2>1, <2>2, <3>2, <3>6 DEF mostSpecificPreference, Outranks
      <4>2. \A i \in 1..n + 1 : Relevant(i, r) => Outranks(p, Stated(header[i], r))
        BY <1>1, <3>3, <4>1
      <4>3. k \in 1..n + 1
        OBVIOUS
      <4> HIDE DEF q
      <4> QED  BY <1>4, <2>3, <2>4, <3>1, <3>6, <4>2, <4>3 DEF MergedFor
    <3> QED  BY <2>3, <3>5, <3>6
  <2> QED  BY <2>5, <2>6
<1> QED  BY <1>3, <1>4

(* What the header says of r is the preference once all items are merged.  *)
LEMMA MergedSays ==
  ASSUME TypeOK, NEW r \in Representation, NEW p \in Preference,
         MergedFor(Len(header), r, p)
  PROVE  IF p.present
         THEN \A q : Says(header, r, q) <=> q = p
         ELSE Stating(header, r) = {} /\ p = Absent
<1>1. DOMAIN header = 1..Len(header) /\ \A i \in 1..Len(header) : header[i] \in Item
  BY DEF TypeOK
<1>2. \A q : q \in Stating(header, r) <=>
               \E i \in 1..Len(header) : Relevant(i, r) /\ q = Stated(header[i], r)
  BY <1>1 DEF Stating, Range, Relevant
<1>3. CASE \A i \in 1..Len(header) : ~Relevant(i, r)
  BY <1>2, <1>3, AbsentPresent DEF MergedFor
<1>4. CASE \E i \in 1..Len(header) : Relevant(i, r)
  <2>1. PICK k \in 1..Len(header) : Relevant(k, r) /\ p = Stated(header[k], r)
    BY <1>4 DEF MergedFor
  <2>2. p.present
    BY <1>1, <2>1, StatedType DEF Relevant
  <2>3. p \in Stating(header, r)
    BY <1>2, <2>1
  <2>4. \A q \in Stating(header, r) : Outranks(p, q)
    BY <1>2, <1>4 DEF MergedFor
  <2>5. ASSUME NEW q, Says(header, r, q) PROVE q = p
    <3>1. PICK i \in 1..Len(header) : Relevant(i, r) /\ q = Stated(header[i], r)
      BY <1>2, <2>5 DEF Says
    <3>2. /\ q.quality \in Nat /\ q.specificity \in Nat
          /\ p.quality \in Nat /\ p.specificity \in Nat
      BY <1>1, <2>1, <3>1, StatedType DEF Relevant
    <3>3. Outranks(p, q) /\ Outranks(q, p)
      BY <2>3, <2>4, <2>5 DEF Says
    <3>4. p.quality = q.quality /\ p.specificity = q.specificity
      BY <3>2, <3>3 DEF Outranks
    <3> QED  BY <2>1, <3>1, <3>4 DEF Stated
  <2> QED  BY <2>2, <2>3, <2>4, <2>5 DEF Says
<1> QED  BY <1>3, <1>4

(* The favourites are the wanted representations above all others.         *)
LEMMA FavouritesRanked ==
  ASSUME TypeOK, Merged(Len(header))
  PROVE  \A r \in Representation :
           /\ r \in Offered(header) <=> Wanted(preference[r])
           /\ Favourite(header, r) <=>
                /\ Wanted(preference[r])
                /\ \A s \in Representation :
                     Wanted(preference[s]) => Above(preference[r], preference[s])
<1>1. \A r \in Representation : preference[r] \in Preference
  BY DEF TypeOK
<1>2. \A r \in Representation :
        /\ preference[r].quality \in Nat
        /\ preference[r].present \in BOOLEAN
        /\ preference[r].present => \A q : Says(header, r, q) <=> q = preference[r]
        /\ ~preference[r].present => Stating(header, r) = {}
  BY <1>1, MergedSays, PreferenceFields DEF Merged
<1>3. \A r \in Representation : r \in Offered(header) <=> Wanted(preference[r])
  BY <1>2 DEF Offered, Wanted, Says
<1>4. \A r \in Representation : Wanted(preference[r]) =>
        \A p : p \in Stating(header, r) /\ Says(header, r, p) <=> p = preference[r]
  BY <1>2 DEF Wanted, Says
<1> QED  BY <1>3, <1>4 DEF Favourite, Above, Offered

(* One more representation ranked. *)
LEMMA RankOne ==
  ASSUME NegotiationInv, phase = "ranking", next \in 1..3
  PROVE  /\ Ranked \in Preference
         /\ Representations[next] \in Representation
         /\ Wanted(Ranked) /\ Better(Ranked) => Tops(next, Ranked, {Representations[next]})
         /\ Wanted(Ranked) /\ ~Better(Ranked) /\ Tied(Ranked) =>
              Tops(next, best, candidates \cup {Representations[next]})
         /\ (Wanted(Ranked) => ~Better(Ranked) /\ ~Tied(Ranked)) =>
              Tops(next, best, candidates)
<1>1. \A i \in 1..3 : Pref(i) \in Preference
  BY RepresentationValues DEF NegotiationInv, TypeOK, Pref
<1>2. \A i \in 1..3 : Pref(i).quality \in Nat /\ Pref(i).specificity \in Nat
  BY <1>1, PreferenceFields
<1>3. best.quality \in Nat /\ best.specificity \in Nat
  BY PreferenceFields DEF NegotiationInv, TypeOK
<1>4. Ranked = Pref(next) /\ Ranked \in Preference /\ Representations[next] \in Representation
  BY <1>1, RepresentationValues DEF Ranked, Pref
<1>5. Tops(next - 1, best, candidates)
  BY DEF NegotiationInv
<1>6. PICK n \in 0..2 : n = next - 1 /\ next = n + 1
  OBVIOUS
<1>7. \A i \in 1..n + 1 : (i \in 1..n \/ i = n + 1) /\ i \in 1..3
  OBVIOUS
<1>8. n + 1 \in 1..n + 1 /\ \A i \in 1..n : i \in 1..n + 1 /\ i \in 1..3
  OBVIOUS
<1>9. (\E i \in 1..n : Wanted(Pref(i))) => best.present
  BY <1>5, <1>6 DEF Tops, Wanted
<1>10. ASSUME Wanted(Ranked), Better(Ranked)
       PROVE  Tops(next, Ranked, {Representations[next]})
  <2>1. ASSUME NEW i \in 1..n, Wanted(Pref(i))
        PROVE  Above(Ranked, Pref(i)) /\ ~Above(Pref(i), Ranked)
    <3>1. Above(best, Pref(i)) /\ best.present
      BY <1>5, <1>6, <1>9, <2>1 DEF Tops
    <3>2. Pref(i).quality \in Nat /\ Pref(i).specificity \in Nat
      BY <1>2, <1>8
    <3>3. Ranked.quality \in Nat /\ Ranked.specificity \in Nat
      BY <1>2, <1>4
    <3> QED  BY <1>3, <1>10, <3>1, <3>2, <3>3 DEF Better, Above
  <2>2. Above(Ranked, Ranked)
    BY <1>2, <1>4 DEF Above
  <2> QED  BY <1>4, <1>6, <1>7, <1>8, <1>10, <2>1, <2>2 DEF Tops
<1>11. ASSUME Wanted(Ranked), ~Better(Ranked), Tied(Ranked)
       PROVE  Tops(next, best, candidates \cup {Representations[next]})
  <2>1. best.present
    BY <1>11 DEF Better
  <2>2. \E i \in 1..n : Wanted(Pref(i))
    BY <1>5, <1>6, <2>1, AbsentPresent DEF Tops
  <2>3. Above(best, Ranked) /\ Above(Ranked, best)
    BY <1>2, <1>3, <1>4, <1>11 DEF Tied, Above
  <2> QED  BY <1>4, <1>5, <1>6, <1>7, <1>8, <1>11, <2>2, <2>3 DEF Tops
<1>12. ASSUME Wanted(Ranked) => ~Better(Ranked) /\ ~Tied(Ranked)
       PROVE  Tops(next, best, candidates)
  <2>1. CASE ~Wanted(Ranked)
    BY <1>4, <1>5, <1>6, <1>7, <1>8, <2>1 DEF Tops
  <2>2. CASE Wanted(Ranked)
    <3>1. best.present
      BY <1>12, <2>2 DEF Better
    <3>2. \E i \in 1..n : Wanted(Pref(i))
      BY <1>5, <1>6, <3>1, AbsentPresent DEF Tops
    <3>3. Above(best, Ranked) /\ ~Above(Ranked, best)
      BY <1>2, <1>3, <1>4, <1>12, <2>2, <3>1 DEF Better, Tied, Above
    <3> QED  BY <1>4, <1>5, <1>6, <1>7, <1>8, <3>2, <3>3 DEF Tops
  <2> QED  BY <2>1, <2>2
<1> QED  BY <1>4, <1>10, <1>11, <1>12

(* All of them ranked. *)
LEMMA RankedFavourites ==
  ASSUME NegotiationInv, phase = "ranking", next > 3
  PROVE  /\ candidates = Favourites(header)
         /\ candidates = {} => Offered(header) = {}
<1>1. next - 1 = 3
  BY DEF NegotiationInv, TypeOK
<1>2. Tops(3, best, candidates)
  BY <1>1 DEF NegotiationInv
<1>3. \A r : r \in Favourites(header) <=>
        \E i \in 1..3 : /\ r = Representations[i]
                        /\ Wanted(Pref(i))
                        /\ \A j \in 1..3 : Wanted(Pref(j)) => Above(Pref(i), Pref(j))
  BY FavouritesRanked, RepresentationValues DEF NegotiationInv, Favourites, Pref
<1>4. \A i \in 1..3 : Pref(i).quality \in Nat /\ Pref(i).specificity \in Nat
  BY RepresentationValues, PreferenceFields DEF NegotiationInv, TypeOK, Pref
<1>5. CASE \A i \in 1..3 : ~Wanted(Pref(i))
  <2>1. candidates = {} /\ Favourites(header) = {}
    BY <1>2, <1>3, <1>5 DEF Tops
  <2>2. \A r \in Representation : r \notin Offered(header)
    BY <1>5, FavouritesRanked, RepresentationValues DEF NegotiationInv, Pref
  <2> QED  BY <2>1, <2>2 DEF Offered
<1>6. CASE \E i \in 1..3 : Wanted(Pref(i))
  <2>1. PICK k \in 1..3 : Wanted(Pref(k)) /\ best = Pref(k)
    BY <1>2, <1>6 DEF Tops
  <2>2. \A j \in 1..3 : Wanted(Pref(j)) => Above(best, Pref(j))
    BY <1>2, <1>6 DEF Tops
  <2>3. \A i \in 1..3 : Above(Pref(i), best) <=>
          \A j \in 1..3 : Wanted(Pref(j)) => Above(Pref(i), Pref(j))
    BY <1>4, <2>1, <2>2 DEF Above
  <2>4. \A r : r \in candidates <=> r \in Favourites(header)
    BY <1>2, <1>3, <1>6, <2>3 DEF Tops
  <2>5. Representations[k] \in candidates
    BY <1>2, <1>4, <1>6, <2>1 DEF Tops, Above
  <2> QED  BY <2>4, <2>5
<1> QED  BY <1>5, <1>6

----------------------------------------------------------------------------
LEMMA FreshNegotiation ==
  ASSUME header \in Seq(Item), agent \in Agents, Fresh
  PROVE  NegotiationInv
<1>1. TypeOK
  BY AbsentPresent DEF Fresh, TypeOK
<1>2. \A r \in Representation : MergedFor(0, r, Absent)
  BY DEF MergedFor
<1>3. Merged(0) /\ next <= Len(header) + 1 /\ next - 1 = 0
  BY <1>2 DEF Fresh, Merged
<1> QED  BY <1>1, <1>3 DEF NegotiationInv, Fresh

(* While the items are merged, only the preferences are not yet final.     *)
LEMMA MergeStep ==
  ASSUME NegotiationInv, phase = "merging", next <= Len(header),
         UNCHANGED <<request, phase, best, candidates, chosen>>, next' = next + 1,
         \A r \in Representation : MergedFor(next, r, preference'[r]),
         preference' \in [Representation -> Preference]
  PROVE  NegotiationInv'
<1>1. TypeOK'
  BY DEF NegotiationInv, TypeOK, request
<1>3. Merged(next - 1)'
  BY DEF Merged, MergedFor, Relevant, request, NegotiationInv, TypeOK
<1> QED  BY <1>1, <1>3 DEF NegotiationInv, TypeOK, request

LEMMA NegotiationStep ==
  ASSUME NegotiationInv, Next
  PROVE  NegotiationInv'
<1> USE DEF request
<1>1. CASE ChooseForClient
  BY <1>1, ContextualValues, RepresentationValues
  DEF ChooseForClient, Return, NegotiationInv, TypeOK, contextual, Decision
<1>2. CASE SkipItem
  <2>1. \A r \in Representation : MergedFor(next, r, preference[r])
    <3>1. PICK n \in Nat : n = next - 1 /\ next = n + 1
      BY DEF NegotiationInv, TypeOK
    <3>2. \A r \in Representation : MergedFor(n, r, preference[r]) /\ preference[r] \in Preference
      BY <1>2, <3>1 DEF SkipItem, Merging, NegotiationInv, TypeOK, Merged
    <3>3. \A r : ~Relevant(n + 1, r)
      BY <1>2, <3>1 DEF SkipItem, Relevant
    <3> QED  BY <1>2, <3>1, <3>2, <3>3, MergeOne DEF SkipItem, Merging, NegotiationInv
  <2> QED  BY <1>2, <2>1, MergeStep DEF SkipItem, Merging, NegotiationInv, TypeOK
<1>3. CASE Merge
  <2>1. PICK n \in Nat : n = next - 1 /\ next = n + 1
    BY DEF NegotiationInv, TypeOK
  <2>2. \A r \in Representation : MergedFor(n, r, preference[r]) /\ preference[r] \in Preference
    BY <1>3, <2>1 DEF Merge, Merging, NegotiationInv, TypeOK, Merged
  <2>3. \A r \in Representation :
          Relevant(n + 1, r) <=> Covers(header[next].range, r)
    BY <1>3, <2>1 DEF Merge, Relevant
  <2>4. \A r \in Representation :
          MergedFor(next, r, preference'[r]) /\ preference'[r] \in Preference
    BY <1>3, <2>1, <2>2, <2>3, MergeOne DEF Merge, Merging, NegotiationInv
  <2>5. preference' \in [Representation -> Preference]
    BY <1>3, <2>4 DEF Merge
  <2> QED  BY <1>3, <2>4, <2>5, MergeStep DEF Merge, Merging
<1>4. CASE StartRanking
  <2>1. next - 1 = Len(header)
    BY <1>4 DEF StartRanking, NegotiationInv, TypeOK
  <2>2. Tops(0, best, candidates)
    BY <1>4 DEF StartRanking, NegotiationInv, Tops
  <2>3. Merged(Len(header))
    BY <1>4, <2>1 DEF StartRanking, NegotiationInv
  <2>4. Merged(Len(header))' /\ Tops(next - 1, best, candidates)'
    BY <1>4, <2>2, <2>3 DEF StartRanking, Merged, MergedFor, Relevant, Tops, Pref
  <2> QED  BY <1>4, <2>4 DEF StartRanking, NegotiationInv, TypeOK
<1>5. CASE RankBetter \/ RankTied \/ RankOut
  <2>1. next \in 1..3 /\ phase = "ranking"
    BY <1>5, RepresentationValues
    DEF RankBetter, RankTied, RankOut, Ranking, NegotiationInv, TypeOK
  <2>2. /\ Tops(next, best', candidates')
        /\ best' \in Preference /\ candidates' \subseteq Representation
    BY <1>5, <2>1, RankOne DEF RankBetter, RankTied, RankOut, NegotiationInv, TypeOK
  <2>3. next' = next + 1 /\ UNCHANGED <<request, phase, preference, chosen>>
    BY <1>5 DEF RankBetter, RankTied, RankOut
  <2>4. next' - 1 = next
    BY <2>1, <2>3
  <2>5. Tops(next - 1, best, candidates)'
    BY <2>2, <2>3, <2>4 DEF Tops, Pref
  <2>6. Merged(Len(header))'
    BY <2>1, <2>3 DEF NegotiationInv, Merged, MergedFor, Relevant
  <2> QED  BY <2>1, <2>2, <2>3, <2>5, <2>6 DEF NegotiationInv, TypeOK
<1>6. CASE Choose
  <2>1. phase = "ranking" /\ next > 3 /\ header # <<>>
    BY <1>6, RepresentationValues DEF Choose, NegotiationInv
  <2>2. candidates = Favourites(header) /\ (candidates = {} => Offered(header) = {})
    BY <2>1, RankedFavourites
  <2>3. chosen' = Decision(header, agent)
    BY <1>6, <2>1, <2>2, ContextualValues
    DEF Choose, Return, Pick, Decision, contextual
  <2>4. chosen' \in Representation \cup {"none"}
    BY <1>6, RepresentationValues, ContextualValues DEF Choose, Return, Pick, contextual
  <2> QED  BY <1>6, <2>2, <2>3, <2>4 DEF Choose, Return, NegotiationInv, TypeOK
<1> QED  BY <1>1, <1>2, <1>3, <1>4, <1>5, <1>6 DEF Next

----------------------------------------------------------------------------
(* The answers sent, and those kept, by what may be stored of them. *)
Tolerated(a) ==
  \/ a.status < 400
  \/ a.status = 404 /\ path \in {OtherFile, Unmatched}
  \/ a.status = 412 /\ path \in AvatarPaths

EndpointInv ==
  /\ NegotiationInv
  /\ path \in Paths
  /\ path # Account => phase = "merging"
  /\ \A a \in answer : Storable(a) =>
       /\ a.status \in Nat /\ Tolerated(a)
       /\ path = Account => phase = "done" /\ a.vary = AccountVary
  /\ path = Account =>
       \A k \in kept : /\ k.answer.vary = AccountVary
                       /\ k.chosen = Decision(k.header, k.agent)

LEMMA FailureStatus == \A e \in DOMAIN StatusOf : StatusOf[e] \in {400, 404, 502, 504}
  BY DEF StatusOf

LEMMA PathsDiffer ==
  Account \notin {"/", "/healthz", "/lookup", OtherFile, Unmatched} \cup AvatarPaths
  BY DEF Account, OtherFile, Unmatched, AvatarPaths

LEMMA EndpointStart ==
  ASSUME EndpointInit
  PROVE  EndpointInv
<1>1. header \in Seq(Item)
  <2>1. PICK n \in 0..MaxItems : header \in [1..n -> Item]
    BY DEF EndpointInit, Init
  <2>2. n \in Nat
    BY NegotiationAssumption
  <2> QED  BY <2>1, <2>2, IsASeq
<1>2. NegotiationInv
  BY <1>1, FreshNegotiation DEF EndpointInit, Init
<1> QED  BY <1>2 DEF EndpointInit, EndpointInv, Init, Fresh

LEMMA EndpointStep ==
  ASSUME EndpointInv, [EndpointNext]_endpointVars
  PROVE  EndpointInv'
<1> DEFINE Safe(a) == Storable(a) =>
             /\ a.status \in Nat /\ Tolerated(a)
             /\ path = Account => phase = "done" /\ a.vary = AccountVary
<1>1. ASSUME UNCHANGED vars PROVE NegotiationInv'
  BY <1>1 DEF EndpointInv, NegotiationInv, TypeOK, Merged, MergedFor, Relevant, Tops, Pref,
              vars, request
<1>2. ASSUME NEW a, Send(a), UNCHANGED vars, Safe(a)
      PROVE  EndpointInv'
  BY <1>1, <1>2 DEF EndpointInv, Send, Tolerated, vars
<1>3. ASSUME NEW status, NEW vary, Send(Answer(status, "no-store", vary)), UNCHANGED vars
      PROVE  EndpointInv'
  <2>1. Safe(Answer(status, "no-store", vary))
    BY DEF Answer, Storable
  <2> QED  BY <1>2, <1>3, <2>1
<1>4. CASE HandleRoot \/ HandleHealth \/ HandleLookup
  <2>1. path # Account /\ UNCHANGED vars
    BY <1>4, PathsDiffer DEF HandleRoot, HandleHealth, HandleLookup, Arrived
  <2>2. /\ Safe(Answer(200, "public", {}))
        /\ Safe(Answer(200, "", {}))
        /\ Safe(Answer(400, "", {}))
        /\ Safe(Answer(500, "", {}))
    BY <2>1 DEF Answer, Storable, Tolerated
  <2> HIDE DEF Safe
  <2>3. CASE HandleRoot
    <3>1. Send(Answer(200, "public", {})) \/ Send(Answer(500, "", {}))
      BY <2>3 DEF HandleRoot, WriteIndex, IndexCaching
    <3>2. CASE Send(Answer(200, "public", {}))
      <4>1. Safe(Answer(200, "public", {}))
        BY <2>2
      <4> QED  BY <1>2, <2>1, <3>2, <4>1
    <3>3. CASE Send(Answer(500, "", {}))
      <4>1. Safe(Answer(500, "", {}))
        BY <2>2
      <4> QED  BY <1>2, <2>1, <3>3, <4>1
    <3> QED  BY <3>1, <3>2, <3>3
  <2>4. CASE HandleHealth
    BY <1>2, <2>1, <2>2, <2>4 DEF HandleHealth
  <2>5. CASE HandleLookup
    <3>1. Send(Answer(400, "", {})) \/ Send(Answer(303, "no-store", {}))
      BY <2>5 DEF HandleLookup
    <3>2. CASE Send(Answer(400, "", {}))
      <4>1. Safe(Answer(400, "", {}))
        BY <2>2
      <4> QED  BY <1>2, <2>1, <3>2, <4>1
    <3>3. CASE Send(Answer(303, "no-store", {}))
      BY <1>3, <2>1, <3>3
    <3> QED  BY <3>1, <3>2, <3>3
  <2> QED  BY <1>4, <2>3, <2>4, <2>5
<1>5. CASE Limit
  BY <1>3, <1>5 DEF Limit
<1>6. CASE HandleAvatar
  <2>1. path # Account /\ path \in AvatarPaths /\ UNCHANGED vars
    BY <1>6, PathsDiffer DEF HandleAvatar, Arrived
  <2>2. /\ Safe(Answer(200, "public", {})) /\ Safe(Answer(206, "public", {}))
        /\ Safe(Answer(304, "public", {})) /\ Safe(Answer(412, "public", {}))
    BY <2>1 DEF Answer, Storable, Tolerated
  <2>3. Safe(Answer(416, "", {}))
    BY DEF Answer, Storable, Tolerated
  <2> HIDE DEF Safe
  <2>4. \/ \E status \in {200, 206, 304, 412} : Send(Answer(status, "public", {}))
        \/ Send(Answer(416, "", {}))
        \/ \E e \in AvatarFailures : Send(Answer(StatusOf[e], "no-store", {}))
    BY <1>6 DEF HandleAvatar
  <2>5. CASE \E status \in {200, 206, 304, 412} : Send(Answer(status, "public", {}))
    <3>1. PICK status \in {200, 206, 304, 412} : Send(Answer(status, "public", {}))
      BY <2>5
    <3>2. Safe(Answer(status, "public", {}))
      BY <2>2
    <3> QED  BY <1>2, <2>1, <3>1, <3>2
  <2>6. CASE Send(Answer(416, "", {}))
    BY <1>2, <2>1, <2>3, <2>6
  <2>7. CASE \E e \in AvatarFailures : Send(Answer(StatusOf[e], "no-store", {}))
    BY <1>3, <2>1, <2>7
  <2> QED  BY <2>4, <2>5, <2>6, <2>7
<1>7. CASE HandleOtherFile \/ MuxAnswers
  <2>1. path \in {OtherFile, Unmatched} /\ path # Account /\ UNCHANGED vars
    BY <1>7, PathsDiffer DEF HandleOtherFile, MuxAnswers, Arrived
  <2>2. Safe(Answer(404, "", {})) /\ Safe(Answer(405, "", {})) /\ Safe(Answer(307, "", {}))
    BY <2>1 DEF Answer, Storable, Tolerated
  <2> HIDE DEF Safe
  <2>3. PICK status \in {404, 405, 307} : Send(Answer(status, "", {}))
    BY <1>7 DEF HandleOtherFile, MuxAnswers
  <2>4. Safe(Answer(status, "", {}))
    BY <2>2
  <2> QED  BY <1>2, <2>1, <2>3, <2>4
<1>8. CASE Negotiate
  BY <1>8, NegotiationStep DEF Negotiate, EndpointInv
<1>9. CASE NotAcceptable \/ RedirectToAvatar \/ FailLookup \/ SendAccount \/ FailEncoding
  <2>1. phase = "done" /\ UNCHANGED vars
    BY <1>9
    DEF NotAcceptable, RedirectToAvatar, FailLookup, SendAccount, FailEncoding, Negotiated
  <2>2. /\ Safe(Answer(307, "public", AccountVary))
        /\ Safe(Answer(200, "", AccountVary))
        /\ Safe(Answer(500, "", AccountVary))
    BY <2>1 DEF Answer, Storable, Tolerated
  <2> HIDE DEF Safe
  <2>3. CASE FailLookup
    <3>1. PICK status \in {StatusOf[e] : e \in LookupFailures} \cup {404} :
            \/ WriteIndex(status, AccountVary)
            \/ Send(Answer(status, "no-store", AccountVary))
      BY <2>3 DEF FailLookup
    <3>2. status # 200
      BY FailureStatus DEF LookupFailures
    <3>3. \/ Send(Answer(status, "no-store", AccountVary))
          \/ Send(Answer(500, "", AccountVary))
      BY <3>1, <3>2 DEF WriteIndex, IndexCaching
    <3>4. CASE Send(Answer(status, "no-store", AccountVary))
      BY <1>3, <2>1, <3>4
    <3>5. CASE Send(Answer(500, "", AccountVary))
      <4>1. Safe(Answer(500, "", AccountVary))
        BY <2>2
      <4> QED  BY <1>2, <2>1, <3>5, <4>1
    <3> QED  BY <3>3, <3>4, <3>5
  <2>4. CASE NotAcceptable
    BY <1>3, <2>1, <2>4 DEF NotAcceptable
  <2>5. CASE RedirectToAvatar
    BY <1>2, <2>1, <2>2, <2>5 DEF RedirectToAvatar
  <2>6. CASE SendAccount
    BY <1>2, <2>1, <2>2, <2>6 DEF SendAccount
  <2>7. CASE FailEncoding
    <3>1. \/ Send(Answer(500, "no-store", AccountVary))
          \/ Send(Answer(500, "", AccountVary))
      BY <2>7 DEF FailEncoding
    <3>2. CASE Send(Answer(500, "no-store", AccountVary))
      BY <1>3, <2>1, <3>2
    <3>3. CASE Send(Answer(500, "", AccountVary))
      <4>1. Safe(Answer(500, "", AccountVary))
        BY <2>2
      <4> QED  BY <1>2, <2>1, <3>3, <4>1
    <3> QED  BY <3>1, <3>2, <3>3
  <2> QED  BY <1>9, <2>3, <2>4, <2>5, <2>6, <2>7
<1>10. CASE Repeat
  <2>1. header' \in Seq(Item) /\ agent' \in Agents
    <3>1. header \in Seq(Item) /\ <<>> \in Seq(Item)
      BY DEF EndpointInv, NegotiationInv, TypeOK
    <3> QED  BY <1>10, <3>1 DEF Repeat
  <2>2. TypeOK'
    BY <1>10, <2>1, AbsentPresent DEF Repeat, TypeOK
  <2>3. Merged(next - 1)'
    BY <1>10 DEF Repeat, Merged, MergedFor
  <2>4. NegotiationInv'
    BY <1>10, <2>1, <2>2, <2>3 DEF Repeat, NegotiationInv
  <2>5. PICK a \in answer :
          /\ Storable(a)
          /\ kept' = {[header |-> header, agent |-> agent, chosen |-> chosen, answer |-> a]}
    BY <1>10 DEF Repeat
  <2>6. path = Account => a.vary = AccountVary /\ chosen = Decision(header, agent)
    BY <2>5 DEF EndpointInv, NegotiationInv
  <2>7. path = Account =>
          \A k \in kept' : k.answer.vary = AccountVary /\ k.chosen = Decision(k.header, k.agent)
    BY <2>5, <2>6
  <2> QED  BY <1>10, <2>4, <2>7 DEF Repeat, EndpointInv
<1>11. CASE UNCHANGED endpointVars
  BY <1>1, <1>11 DEF endpointVars, EndpointInv, Tolerated, vars
<1> QED
  BY <1>4, <1>5, <1>6, <1>7, <1>8, <1>9, <1>10, <1>11 DEF EndpointNext

LEMMA EndpointInvariant == EndpointSpec => []EndpointInv
<1>1. EndpointInit => EndpointInv
  BY EndpointStart
<1>2. EndpointInv /\ [EndpointNext]_endpointVars => EndpointInv'
  BY EndpointStep
<1> QED  BY <1>1, <1>2, PTL DEF EndpointSpec

----------------------------------------------------------------------------
(* Type correctness of the negotiation as the account endpoint runs it. *)
THEOREM TypeCorrect == EndpointSpec => []TypeOK
<1>1. EndpointInv => TypeOK
  BY DEF EndpointInv, NegotiationInv
<1> QED  BY <1>1, EndpointInvariant, PTL

(* For a header of any length, each representation's preference is what    *)
(* the header says of it as a set of items.                                *)
THEOREM OrderIsFree == EndpointSpec => []PreferenceOrderFree
<1>1. EndpointInv => PreferenceOrderFree
  <2> SUFFICES ASSUME NegotiationInv, phase = "ranking", NEW r \in Representation
               PROVE  IF Stating(header, r) = {} THEN preference[r] = Absent
                      ELSE Says(header, r, preference[r])
    BY DEF EndpointInv, PreferenceOrderFree
  <2>1. preference[r] \in Preference /\ MergedFor(Len(header), r, preference[r])
    BY DEF NegotiationInv, TypeOK, Merged
  <2>2. CASE preference[r].present
    <3>1. Says(header, r, preference[r])
      BY <2>1, <2>2, MergedSays DEF NegotiationInv
    <3> QED  BY <3>1 DEF Says
  <2>3. CASE ~preference[r].present
    BY <2>1, <2>3, MergedSays DEF NegotiationInv
  <2> QED  BY <2>2, <2>3
<1> QED  BY <1>1, EndpointInvariant, PTL

(* The answer to a header of any length is one of the client's favourites. *)
THEOREM ChoiceIsFavourite == EndpointSpec => []ChoiceAuthoritative
<1>1. EndpointInv => ChoiceAuthoritative
  <2> SUFFICES ASSUME NegotiationInv, phase = "done", header # <<>>
               PROVE  IF Offered(header) = {} THEN chosen = "none" ELSE Favourite(header, chosen)
    BY DEF EndpointInv, ChoiceAuthoritative
  <2>1. chosen = Decision(header, agent)
    BY DEF NegotiationInv
  <2>2. Favourites(header) = {} <=> Offered(header) = {}
    BY DEF NegotiationInv, Favourites, Favourite, Offered
  <2>3. CASE Favourites(header) = {}
    BY <2>1, <2>2, <2>3 DEF Decision
  <2>4. CASE Favourites(header) # {}
    <3>1. chosen \in Favourites(header)
      BY <2>1, <2>4, RepresentationValues DEF Decision, Favourites
    <3> QED  BY <2>2, <2>4, <3>1 DEF Favourites
  <2> QED  BY <2>3, <2>4
<1> QED  BY <1>1, EndpointInvariant, PTL

(* The user agent decides between favourites, and without a header. *)
THEOREM AgentDecides == EndpointSpec => []AgentBreaksTies
<1>1. EndpointInv => AgentBreaksTies
  BY ContextualValues, RepresentationValues
  DEF EndpointInv, NegotiationInv, AgentBreaksTies, Decision, Favourites, contextual
<1> QED  BY <1>1, EndpointInvariant, PTL

(* A shared cache never gives a client what was chosen for another kind. *)
THEOREM SharedCopiesFit == EndpointSpec => []SharedCopyFits
<1>1. EndpointInv => SharedCopyFits
  BY DEF EndpointInv, NegotiationInv, SharedCopyFits, Answers, AccountVary
<1> QED  BY <1>1, EndpointInvariant, PTL

(* No failure to look an account up is ever kept by a shared cache.        *)
THEOREM NoLookupFailureIsKept == EndpointSpec => []LookupFailuresNotKept
<1>1. EndpointInv => LookupFailuresNotKept
  BY DEF EndpointInv, Tolerated, LookupFailuresNotKept
<1> QED  BY <1>1, EndpointInvariant, PTL

============================================================================
