-------------------------- MODULE AccountAssembly --------------------------
(***************************************************************************)
(* How one request for an account is put together, from the collections it *)
(* names to the JSON it is answered with: selectSources, lookup's read     *)
(* loop and selectDefaultProfile in internal/profile/service.go, then      *)
(* handleAccount and newAccountResponse in internal/web/account.go.        *)
(*                                                                         *)
(* The four loops run one after the other, each with its own early exits;  *)
(* an iteration is a step.  Which records exist, and when each says it was *)
(* created, is up to the account.                                          *)
(*                                                                         *)
(* Collection names are numbered in their string order; 0 is the empty     *)
(* name.  createdAt is an instant, or NoTime if it is missing or does not  *)
(* parse.                                                                  *)
(***************************************************************************)
EXTENDS Integers, Sequences, Functions

CONSTANTS
  Order,        \* Service.order: the allowlisted collections
  Unlisted,     \* names a request may use that are not allowlisted
  Times,        \* valid values of createdAt
  MaxRequested  \* bound on the collection parameters of one request

(* NewService refuses an empty name and a name configured twice. *)
ASSUME AssemblyAssumption ==
  /\ Order \in Seq(Nat \ {0})
  /\ IsInjective(Order)
  /\ Unlisted \subseteq Nat
  /\ Range(Order) \cap Unlisted = {}
  /\ Times \subseteq Nat
  /\ MaxRequested \in Nat

Listed == Range(Order)

NoTime == -1

NoName == 0

VARIABLES
  requested,  \* the request's collection parameters
  phase,      \* the loop that is running, or how the request ended
  next,       \* the index the running loop has reached
  selected,   \* selectSources: the sources to read
  profiles,   \* account.Profiles, each with the createdAt of its summary
  chosen,     \* selectDefaultProfile: selected, 0 for none
  default,    \* account.Default
  response    \* newAccountResponse: the collections in the profiles map

request == <<requested, selected, profiles>>
answer == <<chosen, default, response>>
vars == <<phase, next, request, answer>>

(* No parameters stand for every allowlisted collection. *)
Wanted == IF requested = <<>> THEN Order ELSE requested

Ended == {"unsupported", "failed", "notFound", "internalError", "answered"}

----------------------------------------------------------------------------
(* Seeded faults. *)

(* Repeated parameters are not recognised. *)
SeenNothing(collection) == FALSE

(* The first of two profiles of the same age wins. *)
OlderWithoutTieBreak(p, q) == p.createdAt < q.createdAt

----------------------------------------------------------------------------
Init ==
  /\ requested \in UNION {[1..n -> Listed \cup Unlisted] : n \in 0..MaxRequested}
  /\ phase = "selecting"
  /\ next = 1
  /\ selected = <<>>
  /\ profiles = <<>>
  /\ chosen = 0
  /\ default = NoName
  /\ response = {}

Enter(loop) ==
  /\ phase' = loop
  /\ next' = 1

End(outcome) ==
  /\ phase' = outcome
  /\ UNCHANGED <<next, request, answer>>

----------------------------------------------------------------------------
(* selectSources *)

Seen(collection) == collection \in Range(selected)

Selecting == phase = "selecting" /\ next <= Len(Wanted)

SkipRepeated ==
  /\ Selecting
  /\ Seen(Wanted[next])
  /\ next' = next + 1
  /\ UNCHANGED <<phase, request, answer>>

Select ==
  /\ Selecting
  /\ ~Seen(Wanted[next])
  /\ Wanted[next] \in Listed
  /\ selected' = Append(selected, Wanted[next])
  /\ next' = next + 1
  /\ UNCHANGED <<phase, requested, profiles, answer>>

RefuseUnlisted ==
  /\ Selecting
  /\ ~Seen(Wanted[next])
  /\ Wanted[next] \notin Listed
  /\ End("unsupported")

StartReading ==
  /\ phase = "selecting"
  /\ next > Len(Wanted)
  /\ Enter("reading")
  /\ UNCHANGED <<request, answer>>

----------------------------------------------------------------------------
(* lookup: one record per source *)

Reading == phase = "reading" /\ next <= Len(selected)

ReadAbsent ==
  /\ Reading
  /\ next' = next + 1
  /\ UNCHANGED <<phase, request, answer>>

(* Whatever could be extracted of its summary, the record stays. *)
ReadFound(createdAt) ==
  /\ Reading
  /\ profiles' = Append(profiles, [collection |-> selected[next], createdAt |-> createdAt])
  /\ next' = next + 1
  /\ UNCHANGED <<phase, requested, selected, answer>>

ReadFailed ==
  /\ Reading
  /\ End("failed")

AllRead == phase = "reading" /\ next > Len(selected)

(* handleAccount answers 404 for an account without profiles. *)
NoProfile ==
  /\ AllRead
  /\ Len(profiles) = 0
  /\ End("notFound")

----------------------------------------------------------------------------
(* selectDefaultProfile *)

StartResponding == Enter("responding")

(* A single profile is the default whatever its date. *)
OnlyProfile ==
  /\ AllRead
  /\ Len(profiles) = 1
  /\ default' = profiles[1].collection
  /\ StartResponding
  /\ UNCHANGED <<request, chosen, response>>

StartChoosing ==
  /\ AllRead
  /\ Len(profiles) > 1
  /\ Enter("choosing")
  /\ UNCHANGED <<request, answer>>

Choosing == phase = "choosing" /\ next <= Len(profiles)

Older(p, q) ==
  \/ p.createdAt < q.createdAt
  \/ p.createdAt = q.createdAt /\ p.collection < q.collection

PassUndated ==
  /\ Choosing
  /\ profiles[next].createdAt = NoTime
  /\ next' = next + 1
  /\ UNCHANGED <<phase, request, answer>>

Preferred == chosen # 0 => Older(profiles[next], profiles[chosen])

Prefer ==
  /\ Choosing
  /\ profiles[next].createdAt # NoTime
  /\ Preferred
  /\ chosen' = next
  /\ next' = next + 1
  /\ UNCHANGED <<phase, request, default, response>>

PassYounger ==
  /\ Choosing
  /\ profiles[next].createdAt # NoTime
  /\ ~Preferred
  /\ next' = next + 1
  /\ UNCHANGED <<phase, request, answer>>

ChooseDefault ==
  /\ phase = "choosing"
  /\ next > Len(profiles)
  /\ default' = IF chosen = 0 THEN NoName ELSE profiles[chosen].collection
  /\ StartResponding
  /\ UNCHANGED <<request, chosen, response>>

----------------------------------------------------------------------------
(* newAccountResponse *)

Responding == phase = "responding" /\ next <= Len(profiles)

Refused(collection) == collection = NoName \/ collection \in response

(* A nameless or repeated collection: writeAccountJSON answers 500. *)
AddProfile ==
  /\ Responding
  /\ IF Refused(profiles[next].collection)
     THEN End("internalError")
     ELSE /\ response' = response \cup {profiles[next].collection}
          /\ next' = next + 1
          /\ UNCHANGED <<phase, request, chosen, default>>

(* A default that is not among the profiles is answered 500 as well. *)
Answer ==
  /\ phase = "responding"
  /\ next > Len(profiles)
  /\ End(IF default \in response \cup {NoName} THEN "answered" ELSE "internalError")

----------------------------------------------------------------------------
Next ==
  \/ SkipRepeated \/ Select \/ RefuseUnlisted \/ StartReading
  \/ ReadAbsent \/ ReadFailed
  \/ \E createdAt \in Times \cup {NoTime} : ReadFound(createdAt)
  \/ NoProfile \/ OnlyProfile \/ StartChoosing
  \/ PassUndated \/ Prefer \/ PassYounger \/ ChooseDefault
  \/ AddProfile \/ Answer

Spec == Init /\ [][Next]_vars

----------------------------------------------------------------------------
(* Properties *)

TypeOK ==
  /\ requested \in Seq(Listed \cup Unlisted)
  /\ phase \in {"selecting", "reading", "choosing", "responding"} \cup Ended
  /\ next \in Nat \ {0}
  /\ selected \in Seq(Listed)
  /\ profiles \in Seq([collection : Listed, createdAt : Times \cup {NoTime}])
  /\ chosen \in 0..Len(profiles)
  /\ default \in Listed \cup {NoName}
  /\ response \subseteq Listed

(* selectSources: a request is refused only if it names a collection that  *)
(* is not allowlisted, and otherwise reads exactly the collections it      *)
(* names (all of them if it names none), each once, in the order in which  *)
(* they are first named.                                                   *)
SelectionExact ==
  IF phase = "unsupported"
  THEN ~(Range(Wanted) \subseteq Listed)
  ELSE phase # "selecting" =>
         /\ Range(selected) = Range(Wanted)
         /\ IsInjective(selected)
         /\ \A a, b \in DOMAIN selected :
              a < b => \E i \in DOMAIN Wanted :
                         /\ Wanted[i] = selected[a]
                         /\ \A j \in DOMAIN Wanted : Wanted[j] = selected[b] => i < j

Dated == {i \in DOMAIN profiles : profiles[i].createdAt # NoTime}

(* "With multiple records, the default is the oldest profile with a valid  *)
(* createdAt; if none has a usable timestamp, default [is] omitted"        *)
(* (README.md:42), ties going to the smaller name: the choice depends on   *)
(* the set of profiles alone, not on the order in which they were read.    *)
DefaultIsOldest ==
  phase = "answered" =>
    IF Len(profiles) = 1
    THEN default = profiles[1].collection
    ELSE IF Dated = {}
    THEN default = NoName
    ELSE \E i \in Dated :
           /\ default = profiles[i].collection
           /\ \A j \in Dated \ {i} :
                \/ profiles[i].createdAt < profiles[j].createdAt
                \/ /\ profiles[i].createdAt = profiles[j].createdAt
                   /\ profiles[i].collection < profiles[j].collection

(* No account the service assembles is one newAccountResponse refuses: the *)
(* 500 of writeAccountJSON is unreachable, for any request parameters,     *)
(* repeated or not.                                                        *)
ResponseNeverRefused == phase # "internalError"

============================================================================
