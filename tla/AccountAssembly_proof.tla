----------------------- MODULE AccountAssembly_proof -----------------------
(***************************************************************************)
(* Proofs about the assembly of one request, for any configuration, any    *)
(* request and any records.  Each loop has an invariant: what is true of   *)
(* everything before the index it has reached.                             *)
(*                                                                         *)
(* The second part is about AccountPage: what the loops make of the        *)
(* records is a function of the account and the collections read, so two   *)
(* requests that read the same collections show the same avatar.           *)
(***************************************************************************)
EXTENDS AccountPage, SequenceTheorems, TLAPS

Record == [collection : Listed, createdAt : Times \cup {NoTime}]

(* selectSources: each of the first n collections wanted is selected, once *)
(* and in the order in which they first occur.                             *)
SelectedFirst(n) ==
  /\ \A i \in 1..n : Wanted[i] \in Range(selected)
  /\ Range(selected) \subseteq {Wanted[i] : i \in 1..n}
  /\ IsInjective(selected)
  /\ \A a, b \in DOMAIN selected :
       a < b => \E i \in 1..n :
                  /\ Wanted[i] = selected[a]
                  /\ \A j \in 1..n : Wanted[j] = selected[b] => i < j

(* lookup: the profiles are those of some of the first n sources.          *)
ReadFirst(n) ==
  \A a \in DOMAIN profiles : \E i \in 1..n : profiles[a].collection = selected[i]

(* Profile i is the default among the first n rather than j.               *)
Beats(i, j) ==
  \/ profiles[i].createdAt < profiles[j].createdAt
  \/ /\ profiles[i].createdAt = profiles[j].createdAt
     /\ profiles[i].collection < profiles[j].collection

(* selectDefaultProfile: chosen is the oldest of the first n.              *)
ChosenFirst(n) ==
  IF chosen = 0
  THEN \A j \in 1..n : profiles[j].createdAt = NoTime
  ELSE /\ chosen \in 1..n
       /\ profiles[chosen].createdAt # NoTime
       /\ \A j \in 1..n : profiles[j].createdAt # NoTime /\ j # chosen => Beats(chosen, j)

DefaultRight ==
  IF Len(profiles) = 1
  THEN default = profiles[1].collection
  ELSE IF Dated = {}
  THEN default = NoName
  ELSE \E i \in Dated : /\ default = profiles[i].collection
                        /\ \A j \in Dated \ {i} : Beats(i, j)

(* newAccountResponse: the first n profiles are in the response.           *)
AddedFirst(n) == response = {profiles[i].collection : i \in 1..n}

Distinct == \A a, b \in DOMAIN profiles :
              a # b => profiles[a].collection # profiles[b].collection

Inv ==
  /\ TypeOK
  /\ phase = "selecting" =>
       /\ next <= Len(Wanted) + 1
       /\ SelectedFirst(next - 1)
       /\ profiles = <<>>
  /\ phase = "unsupported" => ~(Range(Wanted) \subseteq Listed)
  /\ phase \notin {"selecting", "unsupported"} => SelectedFirst(Len(Wanted)) /\ Distinct
  /\ phase = "reading" =>
       /\ next <= Len(selected) + 1
       /\ ReadFirst(next - 1)
  /\ phase \in {"selecting", "reading"} => chosen = 0
  /\ phase = "choosing" =>
       /\ next <= Len(profiles) + 1
       /\ Len(profiles) # 1
       /\ ChosenFirst(next - 1)
  /\ phase \in {"selecting", "reading", "choosing"} => response = {}
  /\ phase = "responding" =>
       /\ next <= Len(profiles) + 1
       /\ AddedFirst(next - 1)
       /\ DefaultRight
  /\ phase = "answered" => DefaultRight /\ AddedFirst(Len(profiles))
  /\ phase # "internalError"

----------------------------------------------------------------------------
LEMMA ListedType == Listed \subseteq Nat \ {0} /\ NoName \notin Listed
  BY AssemblyAssumption DEF Listed, Range, NoName

LEMMA WantedType ==
  ASSUME requested \in Seq(Listed \cup Unlisted)
  PROVE  /\ Wanted \in Seq(Listed \cup Unlisted)
         /\ Range(Wanted) = {Wanted[i] : i \in 1..Len(Wanted)}
<1>1. Order \in Seq(Listed)
  BY AssemblyAssumption DEF Listed, Range
<1>2. Order \in Seq(Listed \cup Unlisted)
  BY <1>1
<1>3. Wanted \in Seq(Listed \cup Unlisted)
  BY <1>2 DEF Wanted
<1> QED  BY <1>3 DEF Range

LEMMA AppendElement ==
  ASSUME NEW S, NEW s \in Seq(S), NEW e \in S
  PROVE  /\ Append(s, e) \in Seq(S)
         /\ DOMAIN Append(s, e) = 1..Len(s) + 1
         /\ DOMAIN s = 1..Len(s)
         /\ Len(Append(s, e)) = Len(s) + 1
         /\ Len(s) \in Nat
         /\ \A i \in 1..Len(s) : Append(s, e)[i] = s[i]
         /\ Append(s, e)[Len(s) + 1] = e
  BY AppendProperties, LenProperties

LEMMA InitInv == Init => Inv
<1> SUFFICES ASSUME Init PROVE Inv
  OBVIOUS
<1>1. requested \in Seq(Listed \cup Unlisted)
  BY AssemblyAssumption DEF Init
<1>2. TypeOK
  BY <1>1 DEF Init, TypeOK
<1>3. SelectedFirst(0)
  BY DEF Init, SelectedFirst, Range, IsInjective
<1>4. Len(Wanted) \in Nat
  BY <1>1, WantedType, LenProperties
<1> QED  BY <1>2, <1>3, <1>4 DEF Init, Inv, Ended

(* The next collection wanted has been selected before.                    *)
LEMMA SkipRepeatedInv == Inv /\ SkipRepeated => Inv'
<1> SUFFICES ASSUME Inv, SkipRepeated PROVE Inv'
  OBVIOUS
<1>1. /\ phase = "selecting" /\ next \in Nat /\ next >= 1 /\ next <= Len(Wanted)
      /\ Len(Wanted) \in Nat
      /\ Wanted[next] \in Range(selected)
      /\ next' = next + 1
      /\ UNCHANGED <<phase, requested, selected, profiles, chosen, default, response, Wanted>>
  BY WantedType, LenProperties
     DEF SkipRepeated, Selecting, Seen, Inv, TypeOK, request, answer, Wanted
<1>2. SelectedFirst(next - 1)
  BY <1>1 DEF Inv
<1>3. SelectedFirst(next)
  <2>1. \A i \in 1..next : i \in 1..next - 1 \/ i = next
    BY <1>1
  <2>2. \A i \in 1..next : Wanted[i] \in Range(selected)
    BY <1>1, <1>2, <2>1 DEF SelectedFirst
  <2>3. Range(selected) \subseteq {Wanted[i] : i \in 1..next}
    BY <1>1, <1>2 DEF SelectedFirst
  <2>4. ASSUME NEW a \in DOMAIN selected, NEW b \in DOMAIN selected, a < b
        PROVE  \E i \in 1..next : /\ Wanted[i] = selected[a]
                                  /\ \A j \in 1..next : Wanted[j] = selected[b] => i < j
    <3>1. PICK i \in 1..next - 1 : /\ Wanted[i] = selected[a]
                                   /\ \A j \in 1..next - 1 : Wanted[j] = selected[b] => i < j
      BY <1>2, <2>4 DEF SelectedFirst
    <3>2. i \in 1..next /\ i < next
      BY <1>1
    <3> QED  BY <2>1, <3>1, <3>2
  <2> QED  BY <1>2, <2>2, <2>3, <2>4 DEF SelectedFirst
<1>4. SelectedFirst(next - 1)'
  <2>1. next' - 1 = next
    BY <1>1
  <2> QED  BY <1>1, <1>3, <2>1 DEF SelectedFirst
<1>5. TypeOK'
  BY <1>1 DEF Inv, TypeOK
<1>6. phase' = "selecting" /\ next' <= Len(Wanted') + 1 /\ profiles' = <<>>
      /\ chosen' = 0 /\ response' = {}
  BY <1>1 DEF Inv
<1> QED  BY <1>4, <1>5, <1>6 DEF Inv

(* The next collection wanted is new.                                      *)
LEMMA SelectInv == Inv /\ Select => Inv'
<1> SUFFICES ASSUME Inv, Select PROVE Inv'
  OBVIOUS
<1> DEFINE e == Wanted[next]
<1>1. /\ phase = "selecting" /\ next \in Nat /\ next >= 1 /\ next <= Len(Wanted)
      /\ Len(Wanted) \in Nat
      /\ e \notin Range(selected) /\ e \in Listed
      /\ selected' = Append(selected, e)
      /\ next' = next + 1
      /\ UNCHANGED <<phase, requested, profiles, chosen, default, response, Wanted>>
  BY WantedType, LenProperties DEF Select, Selecting, Seen, Inv, TypeOK, answer, Wanted
<1>2. SelectedFirst(next - 1) /\ selected \in Seq(Listed)
  BY <1>1 DEF Inv, TypeOK
<1> DEFINE n == Len(selected)
<1> HIDE DEF e
<1>3. /\ selected' \in Seq(Listed) /\ DOMAIN selected' = 1..n + 1 /\ DOMAIN selected = 1..n
      /\ n \in Nat
      /\ \A i \in 1..n : selected'[i] = selected[i]
      /\ selected'[n + 1] = e
  BY <1>1, <1>2, AppendElement
<1> HIDE DEF n
<1>4. Range(selected') = Range(selected) \cup {e}
  BY <1>3 DEF Range
<1>5. \A i \in 1..next - 1 : Wanted[i] # e
  BY <1>1, <1>2 DEF SelectedFirst
<1>6. SelectedFirst(next - 1)'
  <2>0. next' - 1 = next
    BY <1>1
  <2>1. \A i \in 1..next' - 1 : Wanted'[i] \in Range(selected')
    <3> SUFFICES ASSUME NEW i \in 1..next PROVE Wanted[i] \in Range(selected')
      BY <1>1
    <3>1. i \in 1..next - 1 \/ i = next
      BY <1>1
    <3> QED  BY <1>2, <1>4, <3>1 DEF SelectedFirst, e
  <2>2. Range(selected') \subseteq {Wanted[i] : i \in 1..next}
    BY <1>1, <1>2, <1>4 DEF SelectedFirst, e
  <2>3. IsInjective(selected')
    <3>1. \A a \in 1..n : selected[a] # e
      BY <1>1, <1>3 DEF Range
    <3>2. \A a, b \in 1..n : selected[a] = selected[b] => a = b
      BY <1>2, <1>3 DEF SelectedFirst, IsInjective
    <3>3. \A a \in 1..n + 1 : a \in 1..n \/ a = n + 1
      BY <1>3
    <3> QED  BY <1>3, <3>1, <3>2, <3>3 DEF IsInjective
  <2>4. ASSUME NEW a \in DOMAIN selected', NEW b \in DOMAIN selected', a < b
        PROVE  \E i \in 1..next :
                 /\ Wanted[i] = selected'[a]
                 /\ \A j \in 1..next : Wanted[j] = selected'[b] => i < j
    <3>1. a \in 1..n /\ b \in 1..n + 1
      BY <1>3, <2>4
    <3>2. CASE b \in 1..n
      <4>1. PICK i \in 1..next - 1 : /\ Wanted[i] = selected[a]
                                     /\ \A j \in 1..next - 1 : Wanted[j] = selected[b] => i < j
        BY <1>2, <1>3, <2>4, <3>1, <3>2 DEF SelectedFirst
      <4>2. i \in 1..next /\ i < next /\ \A j \in 1..next : j \in 1..next - 1 \/ j = next
        BY <1>1
      <4> QED  BY <1>3, <3>1, <3>2, <4>1, <4>2
    <3>3. CASE b = n + 1
      <4>1. PICK i \in 1..next - 1 : Wanted[i] = selected[a]
        <5>1. selected[a] \in Range(selected)
          BY <1>3, <3>1 DEF Range
        <5> QED  BY <1>2, <5>1 DEF SelectedFirst
      <4>2. i \in 1..next /\ i < next /\ \A j \in 1..next : j \in 1..next - 1 \/ j = next
        BY <1>1
      <4>3. selected'[b] = e
        BY <1>3, <3>3
      <4> QED  BY <1>3, <1>5, <3>1, <4>1, <4>2, <4>3
    <3> QED  BY <1>3, <3>1, <3>2, <3>3
  <2> QED  BY <1>1, <2>0, <2>1, <2>2, <2>3, <2>4 DEF SelectedFirst
<1>7. TypeOK'
  BY <1>1, <1>3 DEF Inv, TypeOK
<1>8. phase' = "selecting" /\ next' <= Len(Wanted') + 1 /\ profiles' = <<>>
      /\ chosen' = 0 /\ response' = {}
  BY <1>1 DEF Inv
<1> QED  BY <1>6, <1>7, <1>8 DEF Inv

(* The collection is not allowlisted: the request is refused for cause.    *)
LEMMA RefuseUnlistedInv == Inv /\ RefuseUnlisted => Inv'
<1> SUFFICES ASSUME Inv, RefuseUnlisted PROVE Inv'
  OBVIOUS
<1>1. /\ phase' = "unsupported" /\ next \in 1..Len(Wanted) /\ Wanted[next] \notin Listed
      /\ UNCHANGED <<next, requested, selected, profiles, chosen, default, response, Wanted>>
  BY WantedType, LenProperties
     DEF RefuseUnlisted, Selecting, End, Inv, TypeOK, request, answer, Wanted
<1>2. TypeOK'
  BY <1>1 DEF Inv, TypeOK, Ended
<1>3. ~(Range(Wanted) \subseteq Listed)
  BY <1>1, WantedType DEF Inv, TypeOK
<1>4. (~(Range(Wanted) \subseteq Listed))'
  BY <1>1, <1>3 DEF Listed
<1> QED  BY <1>1, <1>2, <1>4 DEF Inv

LEMMA StartReadingInv == Inv /\ StartReading => Inv'
<1> SUFFICES ASSUME Inv, StartReading PROVE Inv'
  OBVIOUS
<1>1. /\ phase = "selecting" /\ phase' = "reading" /\ next' = 1
      /\ next = Len(Wanted) + 1 /\ Len(Wanted) \in Nat
      /\ UNCHANGED <<requested, selected, profiles, chosen, default, response, Wanted>>
  BY WantedType, LenProperties DEF StartReading, Enter, Inv, TypeOK, request, answer, Wanted
<1>2. SelectedFirst(next - 1) /\ profiles = <<>> /\ chosen = 0 /\ response = {}
  BY <1>1 DEF Inv
<1>3. next - 1 = Len(Wanted) /\ next' - 1 = 0
  BY <1>1
<1>4. SelectedFirst(Len(Wanted))'
  BY <1>1, <1>2, <1>3 DEF SelectedFirst
<1>5. Distinct' /\ ReadFirst(next - 1)'
  BY <1>1, <1>2 DEF Distinct, ReadFirst
<1>6. TypeOK'
  BY <1>1 DEF Inv, TypeOK
<1>7. Len(selected) \in Nat
  BY LenProperties DEF Inv, TypeOK
<1> QED  BY <1>1, <1>2, <1>4, <1>5, <1>6, <1>7 DEF Inv

----------------------------------------------------------------------------
(* What selectSources has chosen stays, whatever comes after it.           *)
LEMMA SelectionKept ==
  ASSUME Inv, phase \notin {"selecting", "unsupported"}, UNCHANGED <<requested, selected>>
  PROVE  SelectedFirst(Len(Wanted))'
<1>1. SelectedFirst(Len(Wanted)) /\ UNCHANGED Wanted
  BY DEF Inv, Wanted
<1> QED  BY <1>1 DEF SelectedFirst

LEMMA ReadAbsentInv == Inv /\ ReadAbsent => Inv'
<1> SUFFICES ASSUME Inv, ReadAbsent PROVE Inv'
  OBVIOUS
<1>1. /\ phase = "reading" /\ phase' = "reading" /\ next \in Nat /\ next >= 1 /\ next <= Len(selected)
      /\ next' = next + 1 /\ Len(selected) \in Nat
      /\ UNCHANGED <<requested, selected, profiles, chosen, default, response>>
  BY LenProperties DEF ReadAbsent, Reading, Inv, TypeOK, request, answer
<1>2. ReadFirst(next - 1) /\ Distinct /\ chosen = 0 /\ response = {}
  BY <1>1 DEF Inv
<1>3. ReadFirst(next - 1)'
  <2>1. next' - 1 = next /\ \A i \in 1..next - 1 : i \in 1..next
    BY <1>1
  <2> QED  BY <1>1, <1>2, <2>1 DEF ReadFirst
<1>4. SelectedFirst(Len(Wanted))' /\ Distinct'
  BY <1>1, <1>2, SelectionKept DEF Distinct
<1>5. TypeOK'
  BY <1>1 DEF Inv, TypeOK
<1> QED  BY <1>1, <1>2, <1>3, <1>4, <1>5 DEF Inv

(* A collection is read once, so its profile is a new one.                 *)
LEMMA ReadFoundInv ==
  ASSUME Inv, NEW createdAt \in Times \cup {NoTime}, ReadFound(createdAt)
  PROVE  Inv'
<1> DEFINE p == [collection |-> selected[next], createdAt |-> createdAt]
           n == Len(profiles)
<1>1. /\ phase = "reading" /\ phase' = "reading" /\ next \in Nat /\ next >= 1 /\ next <= Len(selected)
      /\ next' = next + 1 /\ Len(selected) \in Nat /\ selected \in Seq(Listed)
      /\ profiles \in Seq(Record)
      /\ profiles' = Append(profiles, p)
      /\ UNCHANGED <<requested, selected, chosen, default, response>>
  BY LenProperties DEF ReadFound, Reading, Inv, TypeOK, answer, Record
<1>2. ReadFirst(next - 1) /\ Distinct /\ chosen = 0 /\ response = {}
  BY <1>1 DEF Inv
<1>3. IsInjective(selected) /\ DOMAIN selected = 1..Len(selected)
  BY <1>1, LenProperties DEF Inv, SelectedFirst
<1>4. p \in Record /\ p.collection = selected[next]
  BY <1>1 DEF Record
<1> HIDE DEF p
<1>5. /\ profiles' \in Seq(Record) /\ DOMAIN profiles' = 1..n + 1 /\ DOMAIN profiles = 1..n
      /\ n \in Nat
      /\ \A a \in 1..n : profiles'[a] = profiles[a]
      /\ profiles'[n + 1] = p
  BY <1>1, <1>4, AppendElement
<1> HIDE DEF n
<1>6. \A a \in 1..n + 1 : a \in 1..n \/ a = n + 1
  BY <1>5
<1>7. \A a \in 1..n : profiles[a].collection # selected[next]
  <2> SUFFICES ASSUME NEW a \in 1..n PROVE profiles[a].collection # selected[next]
    OBVIOUS
  <2>1. PICK i \in 1..next - 1 : profiles[a].collection = selected[i]
    BY <1>2, <1>5 DEF ReadFirst
  <2>2. i # next /\ i \in DOMAIN selected /\ next \in DOMAIN selected
    BY <1>1, <1>3
  <2> QED  BY <1>3, <2>1, <2>2 DEF IsInjective
<1>8. Distinct'
  BY <1>2, <1>4, <1>5, <1>6, <1>7 DEF Distinct
<1>9. ReadFirst(next - 1)'
  <2>1. next' - 1 = next /\ \A i \in 1..next - 1 : i \in 1..next
    BY <1>1
  <2>2. next \in 1..next
    BY <1>1
  <2>3. ASSUME NEW a \in 1..n + 1 PROVE \E i \in 1..next : profiles'[a].collection = selected[i]
    <3>1. CASE a \in 1..n
      BY <1>2, <1>5, <2>1, <3>1 DEF ReadFirst
    <3>2. CASE a = n + 1
      BY <1>4, <1>5, <2>2, <3>2
    <3> QED  BY <1>6, <3>1, <3>2
  <2> QED  BY <1>1, <1>5, <2>1, <2>3 DEF ReadFirst
<1>10. SelectedFirst(Len(Wanted))'
  BY <1>1, SelectionKept
<1>11. TypeOK'
  <2>1. chosen' \in 0..Len(profiles')
    BY <1>1, <1>2, <1>5, LenProperties
  <2> QED  BY <1>1, <1>5, <2>1 DEF Inv, TypeOK, Record
<1> QED  BY <1>1, <1>2, <1>8, <1>9, <1>10, <1>11 DEF Inv

(* The request ends without an account.                                    *)
LEMMA GiveUpInv == Inv /\ (ReadFailed \/ NoProfile) => Inv'
<1> SUFFICES ASSUME Inv, ReadFailed \/ NoProfile PROVE Inv'
  OBVIOUS
<1>1. /\ phase = "reading" /\ phase' \in {"failed", "notFound"}
      /\ UNCHANGED <<next, requested, selected, profiles, chosen, default, response>>
  BY DEF ReadFailed, NoProfile, Reading, AllRead, End, request, answer
<1>2. SelectedFirst(Len(Wanted))' /\ Distinct'
  BY <1>1, SelectionKept DEF Inv, Distinct
<1>3. TypeOK'
  BY <1>1 DEF Inv, TypeOK, Ended
<1> QED  BY <1>1, <1>2, <1>3 DEF Inv

----------------------------------------------------------------------------
LEMMA OnlyProfileInv == Inv /\ OnlyProfile => Inv'
<1> SUFFICES ASSUME Inv, OnlyProfile PROVE Inv'
  OBVIOUS
<1>1. /\ phase = "reading" /\ phase' = "responding" /\ next' = 1 /\ Len(profiles) = 1
      /\ default' = profiles[1].collection
      /\ UNCHANGED <<requested, selected, profiles, chosen, response>>
  BY DEF OnlyProfile, AllRead, StartResponding, Enter, request
<1>2. profiles[1].collection \in Listed
  <2>1. profiles \in Seq(Record) /\ 1 \in 1..Len(profiles)
    BY <1>1 DEF Inv, TypeOK, Record
  <2>2. profiles[1] \in Record
    BY <2>1, ElementOfSeq
  <2> QED  BY <2>2 DEF Record
<1>3. SelectedFirst(Len(Wanted))' /\ Distinct'
  BY <1>1, SelectionKept DEF Inv, Distinct
<1>4. TypeOK'
  BY <1>1, <1>2 DEF Inv, TypeOK
<1>5. DefaultRight' /\ AddedFirst(next - 1)'
  BY <1>1 DEF Inv, DefaultRight, AddedFirst
<1> QED  BY <1>1, <1>3, <1>4, <1>5 DEF Inv

LEMMA StartChoosingInv == Inv /\ StartChoosing => Inv'
<1> SUFFICES ASSUME Inv, StartChoosing PROVE Inv'
  OBVIOUS
<1>1. /\ phase = "reading" /\ phase' = "choosing" /\ next' = 1 /\ Len(profiles) > 1
      /\ Len(profiles) \in Nat
      /\ UNCHANGED <<requested, selected, profiles, chosen, default, response>>
  BY LenProperties DEF Inv, TypeOK, StartChoosing, AllRead, Enter, request, answer
<1>2. SelectedFirst(Len(Wanted))' /\ Distinct'
  BY <1>1, SelectionKept DEF Inv, Distinct
<1>3. TypeOK'
  BY <1>1 DEF Inv, TypeOK
<1>4. ChosenFirst(next - 1)'
  BY <1>1 DEF Inv, ChosenFirst
<1>5. response = {}
  BY <1>1 DEF Inv
<1>6. next' <= Len(profiles') + 1 /\ Len(profiles') # 1
  <2> DEFINE n == Len(profiles)
  <2>1. n \in Nat /\ n > 1 /\ n' = n /\ next' = 1
    BY <1>1
  <2> HIDE DEF n
  <2>2. next' <= n' + 1 /\ n' # 1
    BY <2>1
  <2> QED  BY <2>2 DEF n
<1> QED  BY <1>1, <1>2, <1>3, <1>4, <1>5, <1>6 DEF Inv

(* The elements of profiles, and what an iteration of the choice keeps.    *)
LEMMA ProfileType ==
  ASSUME TypeOK
  PROVE  /\ DOMAIN profiles = 1..Len(profiles) /\ Len(profiles) \in Nat
         /\ \A i \in 1..Len(profiles) :
              /\ profiles[i].collection \in Listed
              /\ profiles[i].collection \in Nat
              /\ profiles[i].createdAt \in Int
<1>1. profiles \in Seq(Record)
  BY DEF TypeOK, Record
<1>2. DOMAIN profiles = 1..Len(profiles) /\ Len(profiles) \in Nat
  BY <1>1, LenProperties
<1>3. ASSUME NEW i \in 1..Len(profiles)
      PROVE  /\ profiles[i].collection \in Listed
             /\ profiles[i].collection \in Nat
             /\ profiles[i].createdAt \in Int
  <2>1. profiles[i] \in Record
    BY <1>1, ElementOfSeq
  <2>2. profiles[i].collection \in Listed /\ profiles[i].createdAt \in Times \cup {NoTime}
    BY <2>1 DEF Record
  <2>3. Listed \subseteq Nat /\ Times \cup {NoTime} \subseteq Int
    BY ListedType, AssemblyAssumption DEF NoTime
  <2> QED  BY <2>2, <2>3
<1> QED  BY <1>2, <1>3

LEMMA ChoiceStep ==
  ASSUME Inv, Choosing, phase' = phase, next' = next + 1,
         UNCHANGED <<requested, selected, profiles, default, response>>,
         chosen' \in 0..Len(profiles), ChosenFirst(next - 1)'
  PROVE  Inv'
<1>1. phase = "choosing" /\ next \in Nat /\ next >= 1 /\ next <= Len(profiles) /\ Len(profiles) # 1
  BY DEF Choosing, Inv, TypeOK
<1>2. SelectedFirst(Len(Wanted))' /\ Distinct'
  BY <1>1, SelectionKept DEF Inv, Distinct
<1>3. TypeOK'
  BY <1>1 DEF Inv, TypeOK
<1>4. next' <= Len(profiles') + 1
  BY <1>1, ProfileType DEF Inv
<1> QED  BY <1>1, <1>2, <1>3, <1>4 DEF Inv

LEMMA PassUndatedInv == Inv /\ PassUndated => Inv'
<1> SUFFICES ASSUME Inv, PassUndated PROVE Inv'
  OBVIOUS
<1>1. /\ phase = "choosing" /\ phase' = phase /\ next \in Nat /\ next >= 1 /\ next' = next + 1
      /\ profiles[next].createdAt = NoTime /\ chosen \in 0..Len(profiles)
      /\ UNCHANGED <<requested, selected, profiles, chosen, default, response>>
  BY DEF PassUndated, Choosing, Inv, TypeOK, request, answer
<1>2. ChosenFirst(next - 1)
  BY <1>1 DEF Inv
<1>3. ChosenFirst(next - 1)'
  <2>1. next' - 1 = next /\ \A j \in 1..next : j \in 1..next - 1 \/ j = next
    BY <1>1
  <2>2. \A j \in 1..next - 1 : j \in 1..next
    BY <1>1
  <2> QED  BY <1>1, <1>2, <2>1, <2>2 DEF ChosenFirst, Beats
<1> QED  BY <1>1, <1>3, ChoiceStep DEF PassUndated

(* The next profile is older than the oldest so far, so older than all.    *)
LEMMA PreferInv == Inv /\ Prefer => Inv'
<1> SUFFICES ASSUME Inv, Prefer PROVE Inv'
  OBVIOUS
<1>1. /\ phase = "choosing" /\ phase' = phase /\ next \in Nat /\ next >= 1 /\ next' = next + 1
      /\ next <= Len(profiles)
      /\ profiles[next].createdAt # NoTime /\ chosen \in 0..Len(profiles) /\ chosen' = next
      /\ chosen # 0 => Older(profiles[next], profiles[chosen])
      /\ UNCHANGED <<requested, selected, profiles, default, response>>
  BY DEF Prefer, Preferred, Choosing, Inv, TypeOK, request
<1>2. ChosenFirst(next - 1)
  BY <1>1 DEF Inv
<1>3. next' - 1 = next /\ next \in 1..next /\ \A j \in 1..next : j \in 1..next - 1 \/ j = next
  BY <1>1
<1>4. ASSUME NEW j \in 1..next, profiles[j].createdAt # NoTime, j # next
      PROVE  Beats(next, j)
  <2>1. j \in 1..next - 1 /\ chosen # 0
    BY <1>2, <1>3, <1>4 DEF ChosenFirst
  <2>2. /\ j \in 1..Len(profiles) /\ next \in 1..Len(profiles) /\ chosen \in 1..Len(profiles)
    BY <1>1, <2>1, ProfileType DEF Inv
  <2>3. Beats(next, chosen)
    BY <1>1, <2>1 DEF Older, Beats
  <2>4. j = chosen \/ Beats(chosen, j)
    BY <1>2, <1>4, <2>1 DEF ChosenFirst
  <2>5. ASSUME Beats(chosen, j) PROVE Beats(next, j)
    <3> DEFINE col(i) == profiles[i].collection
               at(i) == profiles[i].createdAt
    <3>1. /\ col(next) \in Nat /\ col(chosen) \in Nat /\ col(j) \in Nat
          /\ at(next) \in Int /\ at(chosen) \in Int /\ at(j) \in Int
      BY <2>2, ProfileType DEF Inv
    <3>2. at(next) < at(chosen) \/ (at(next) = at(chosen) /\ col(next) < col(chosen))
      BY <2>3 DEF Beats
    <3>3. at(chosen) < at(j) \/ (at(chosen) = at(j) /\ col(chosen) < col(j))
      BY <2>5 DEF Beats
    <3> HIDE DEF col, at
    <3>4. at(next) < at(j) \/ (at(next) = at(j) /\ col(next) < col(j))
      BY ONLY <3>1, <3>2, <3>3
    <3> QED  BY <3>4 DEF Beats, col, at
  <2> QED  BY <2>3, <2>4, <2>5
<1>5. ChosenFirst(next - 1)'
  BY <1>1, <1>3, <1>4 DEF ChosenFirst, Beats
<1>6. chosen' \in 0..Len(profiles)
  BY <1>1, ProfileType DEF Inv
<1> QED  BY <1>1, <1>5, <1>6, ChoiceStep DEF Prefer

(* Distinct collections leave no ties: not older is younger.               *)
LEMMA PassYoungerInv == Inv /\ PassYounger => Inv'
<1> SUFFICES ASSUME Inv, PassYounger PROVE Inv'
  OBVIOUS
<1>1. /\ phase = "choosing" /\ phase' = phase /\ next \in Nat /\ next >= 1 /\ next' = next + 1
      /\ next <= Len(profiles)
      /\ chosen \in 0..Len(profiles) /\ chosen # 0
      /\ ~Older(profiles[next], profiles[chosen])
      /\ UNCHANGED <<requested, selected, profiles, chosen, default, response>>
  BY DEF PassYounger, Preferred, Choosing, Inv, TypeOK, request, answer
<1>2. ChosenFirst(next - 1) /\ Distinct
  BY <1>1 DEF Inv
<1>3. /\ next' - 1 = next /\ \A j \in 1..next : j \in 1..next - 1 \/ j = next
      /\ \A j \in 1..next - 1 : j \in 1..next
  BY <1>1
<1>4. Beats(chosen, next)
  <2>1. chosen \in 1..next - 1
    BY <1>1, <1>2 DEF ChosenFirst
  <2>2. chosen \in 1..Len(profiles) /\ next \in 1..Len(profiles) /\ chosen # next
    BY <1>1, <2>1, ProfileType DEF Inv
  <2>3. profiles[chosen].collection # profiles[next].collection
    BY <1>2, <2>2, ProfileType DEF Inv, Distinct
  <2> DEFINE col(i) == profiles[i].collection
             at(i) == profiles[i].createdAt
  <2>4. /\ col(next) \in Nat /\ col(chosen) \in Nat /\ col(next) # col(chosen)
        /\ at(next) \in Int /\ at(chosen) \in Int
    BY <2>2, <2>3, ProfileType DEF Inv
  <2>5. ~(at(next) < at(chosen)) /\ ~(at(next) = at(chosen) /\ col(next) < col(chosen))
    BY <1>1 DEF Older
  <2> HIDE DEF col, at
  <2>6. at(chosen) < at(next) \/ (at(chosen) = at(next) /\ col(chosen) < col(next))
    BY ONLY <2>4, <2>5
  <2> QED  BY <2>6 DEF Beats, col, at
<1>5. ChosenFirst(next - 1)'
  BY <1>1, <1>2, <1>3, <1>4 DEF ChosenFirst, Beats
<1> QED  BY <1>1, <1>5, ChoiceStep DEF PassYounger

LEMMA ChooseDefaultInv == Inv /\ ChooseDefault => Inv'
<1> SUFFICES ASSUME Inv, ChooseDefault PROVE Inv'
  OBVIOUS
<1>1. /\ phase = "choosing" /\ phase' = "responding" /\ next' = 1
      /\ next \in Nat /\ next > Len(profiles) /\ next <= Len(profiles) + 1 /\ Len(profiles) # 1
      /\ Len(profiles) \in Nat /\ DOMAIN profiles = 1..Len(profiles)
      /\ default' = IF chosen = 0 THEN NoName ELSE profiles[chosen].collection
      /\ UNCHANGED <<requested, selected, profiles, chosen, response>>
  BY ProfileType DEF ChooseDefault, StartResponding, Enter, Inv, TypeOK, request
<1>2. ChosenFirst(next - 1) /\ response = {}
  BY <1>1 DEF Inv
<1>3. next - 1 = Len(profiles)
  BY <1>1
<1>4. ChosenFirst(Len(profiles))
  BY <1>2, <1>3
<1>5. DefaultRight'
  <2>1. CASE chosen = 0
    BY <1>1, <1>4, <2>1 DEF ChosenFirst, DefaultRight, Dated
  <2>2. CASE chosen # 0
    <3>1. chosen \in Dated /\ \A j \in Dated \ {chosen} : Beats(chosen, j)
      BY <1>1, <1>4, <2>2 DEF ChosenFirst, Dated
    <3>2. /\ chosen \in Dated' /\ default' = profiles'[chosen].collection
          /\ \A j \in Dated' \ {chosen} : Beats(chosen, j)
          /\ Dated' # {} /\ Len(profiles') # 1
      BY <1>1, <2>2, <3>1 DEF Dated
    <3>3. \A j \in Dated' \ {chosen} :
             \/ profiles'[chosen].createdAt < profiles'[j].createdAt
             \/ /\ profiles'[chosen].createdAt = profiles'[j].createdAt
                /\ profiles'[chosen].collection < profiles'[j].collection
      BY <1>1, <3>2 DEF Beats
    <3> HIDE DEF Dated
    <3> QED  BY <3>2, <3>3 DEF DefaultRight, Beats
  <2> QED  BY <2>1, <2>2
<1>6. AddedFirst(next - 1)'
  BY <1>1, <1>2 DEF AddedFirst
<1>7. SelectedFirst(Len(Wanted))' /\ Distinct'
  BY <1>1, SelectionKept DEF Inv, Distinct
<1>8. TypeOK'
  <2>1. default' \in Listed \cup {NoName}
    BY <1>1, <1>4, ProfileType DEF Inv, ChosenFirst
  <2> QED  BY <1>1, <2>1 DEF Inv, TypeOK
<1> QED  BY <1>1, <1>5, <1>6, <1>7, <1>8 DEF Inv

----------------------------------------------------------------------------
(* Names differ and none is empty: the profile is never refused.           *)
LEMMA AddProfileInv == Inv /\ AddProfile => Inv'
<1> SUFFICES ASSUME Inv, AddProfile PROVE Inv'
  OBVIOUS
<1> DEFINE c == profiles[next].collection
<1>1. /\ phase = "responding" /\ next \in Nat /\ next >= 1 /\ next <= Len(profiles)
      /\ AddedFirst(next - 1) /\ Distinct /\ DefaultRight
      /\ DOMAIN profiles = 1..Len(profiles) /\ Len(profiles) \in Nat
      /\ c \in Listed
  BY ProfileType DEF AddProfile, Responding, Inv, TypeOK
<1>2. ~Refused(c)
  <2>1. c # NoName
    BY <1>1, ListedType
  <2>2. ASSUME NEW i \in 1..next - 1 PROVE profiles[i].collection # c
    BY <1>1 DEF Distinct
  <2> QED  BY <1>1, <2>1, <2>2 DEF Refused, AddedFirst
<1>3. /\ response' = response \cup {c} /\ next' = next + 1 /\ phase' = phase
      /\ UNCHANGED <<requested, selected, profiles, chosen, default>>
  BY <1>2 DEF AddProfile, request
<1>4. AddedFirst(next - 1)'
  <2>1. next' - 1 = next /\ \A i \in 1..next : i \in 1..next - 1 \/ i = next
    BY <1>1, <1>3
  <2>2. \A i \in 1..next - 1 : i \in 1..next
    BY <1>1
  <2>3. next \in 1..next
    BY <1>1
  <2>4. response' = {profiles[i].collection : i \in 1..next}
    BY <1>1, <1>3, <2>1, <2>2, <2>3 DEF AddedFirst
  <2> QED  BY <1>3, <2>1, <2>4 DEF AddedFirst
<1>5. SelectedFirst(Len(Wanted))' /\ Distinct' /\ DefaultRight'
  BY <1>1, <1>3, SelectionKept DEF Distinct, DefaultRight, Dated, Beats
<1>6. TypeOK'
  BY <1>1, <1>3 DEF Inv, TypeOK
<1> HIDE DEF c
<1> QED  BY <1>1, <1>3, <1>4, <1>5, <1>6 DEF Inv

(* The default, if any, is one of the profiles.                            *)
LEMMA AnswerInv == Inv /\ Answer => Inv'
<1> SUFFICES ASSUME Inv, Answer PROVE Inv'
  OBVIOUS
<1>1. /\ phase = "responding" /\ next \in Nat /\ next > Len(profiles) /\ next <= Len(profiles) + 1
      /\ AddedFirst(next - 1) /\ DefaultRight /\ Distinct
      /\ DOMAIN profiles = 1..Len(profiles) /\ Len(profiles) \in Nat
      /\ UNCHANGED <<next, requested, selected, profiles, chosen, default, response>>
  BY ProfileType DEF Answer, End, Inv, TypeOK, request, answer
<1>2. next - 1 = Len(profiles)
  BY <1>1
<1>3. AddedFirst(Len(profiles))
  BY <1>1, <1>2
<1>4. default \in response \cup {NoName}
  BY <1>1, <1>3 DEF AddedFirst, DefaultRight, Dated
<1>5. phase' = "answered"
  BY <1>4 DEF Answer, End
<1>6. SelectedFirst(Len(Wanted))' /\ Distinct' /\ DefaultRight' /\ AddedFirst(Len(profiles))'
  BY <1>1, <1>3, SelectionKept DEF Distinct, DefaultRight, AddedFirst, Dated, Beats
<1>7. TypeOK'
  BY <1>1, <1>5 DEF Inv, TypeOK, Ended
<1> QED  BY <1>5, <1>6, <1>7 DEF Inv

LEMMA NextInv == Inv /\ [Next]_vars => Inv'
<1> SUFFICES ASSUME Inv, [Next]_vars PROVE Inv'
  OBVIOUS
<1>1. CASE SkipRepeated \/ Select \/ RefuseUnlisted \/ StartReading
  BY <1>1, SkipRepeatedInv, SelectInv, RefuseUnlistedInv, StartReadingInv
<1>2. CASE ReadAbsent \/ ReadFailed \/ NoProfile
  BY <1>2, ReadAbsentInv, GiveUpInv
<1>3. CASE \E createdAt \in Times \cup {NoTime} : ReadFound(createdAt)
  BY <1>3, ReadFoundInv
<1>4. CASE OnlyProfile \/ StartChoosing \/ ChooseDefault
  BY <1>4, OnlyProfileInv, StartChoosingInv, ChooseDefaultInv
<1>5. CASE PassUndated \/ Prefer \/ PassYounger
  BY <1>5, PassUndatedInv, PreferInv, PassYoungerInv
<1>6. CASE AddProfile \/ Answer
  BY <1>6, AddProfileInv, AnswerInv
<1>7. CASE UNCHANGED vars
  BY <1>7 DEF vars, request, answer, Inv, TypeOK, Wanted, SelectedFirst, ReadFirst, Distinct,
              ChosenFirst, Beats, DefaultRight, Dated, AddedFirst
<1> QED  BY <1>1, <1>2, <1>3, <1>4, <1>5, <1>6, <1>7 DEF Next

(* What selectSources's loop has done at its end.                          *)
LEMMA ExactSelection ==
  ASSUME requested \in Seq(Listed \cup Unlisted), SelectedFirst(Len(Wanted))
  PROVE  /\ Range(selected) = Range(Wanted)
         /\ IsInjective(selected)
         /\ \A a, b \in DOMAIN selected :
              a < b => \E i \in DOMAIN Wanted :
                /\ Wanted[i] = selected[a]
                /\ \A j \in DOMAIN Wanted : Wanted[j] = selected[b] => i < j
<1>1. /\ Range(Wanted) = {Wanted[i] : i \in 1..Len(Wanted)}
      /\ DOMAIN Wanted = 1..Len(Wanted)
  BY WantedType, LenProperties
<1> QED  BY <1>1 DEF SelectedFirst

(* The loop invariants hold at every step of every request.                *)
THEOREM Invariance == Spec => []Inv
BY InitInv, NextInv, PTL DEF Spec

(* A request's state is always well typed: an index stays within its loop  *)
(* and only allowlisted collections are read, chosen and answered.         *)
THEOREM TypeCorrect == Spec => []TypeOK
<1>1. Inv => TypeOK
  BY DEF Inv
<1> QED  BY <1>1, Invariance, PTL

(* selectSources selects exactly what a request names, each collection     *)
(* once and in the order named, and refuses only what is not allowlisted.  *)
THEOREM SelectionStaysExact == Spec => []SelectionExact
<1>1. Inv => SelectionExact
  BY ExactSelection DEF SelectionExact, Inv, TypeOK
<1> QED  BY <1>1, Invariance, PTL

(* selectDefaultProfile's single pass finds the oldest dated profile, ties *)
(* going to the smaller collection name, whatever the order of reading.    *)
THEOREM DefaultIsTheOldest == Spec => []DefaultIsOldest
<1>1. Inv => DefaultIsOldest
  BY DEF Inv, DefaultIsOldest, DefaultRight, Beats
<1> QED  BY <1>1, Invariance, PTL

(* No request makes newAccountResponse fail: its 500 is unreachable.       *)
THEOREM ResponsesAreNeverRefused == Spec => []ResponseNeverRefused
<1>1. Inv => ResponseNeverRefused
  BY DEF Inv, ResponseNeverRefused
<1> QED  BY <1>1, Invariance, PTL

----------------------------------------------------------------------------
(* Pages and their images *)

Avatars == {NoAvatar} \cup [of : Listed, type : Supported]

Summaries == [createdAt : Times \cup {NoTime}, avatar : Avatars]

Resting == {"shown", "served"}

Summary(c) == extractJSONProfile(c, account[c])

Known(c) == account[c] # Unread

Present(S) == {c \in S : account[c] # Absent}

Sooner(c, d) ==
  \/ Summary(c).createdAt < Summary(d).createdAt
  \/ Summary(c).createdAt = Summary(d).createdAt /\ c < d

(* v is the avatar of the default profile of an account with the           *)
(* collections S: what the account alone decides.                          *)
RightAvatar(S, v) ==
  IF \E c \in S : Present(S) = {c}
  THEN \E c \in S : Present(S) = {c} /\ v = Summary(c).avatar
  ELSE IF \A c \in Present(S) : Summary(c).createdAt = NoTime
  THEN v = NoAvatar
  ELSE \E c \in Present(S) :
         /\ Summary(c).createdAt # NoTime
         /\ \A d \in Present(S) \ {c} : Summary(d).createdAt # NoTime => Sooner(c, d)
         /\ v = Summary(c).avatar

(* Every profile is that of its collection's record.                       *)
Summarised ==
  /\ Len(summaries) = Len(profiles)
  /\ \A a \in DOMAIN profiles :
       /\ profiles[a].collection \in Range(selected)
       /\ Known(profiles[a].collection)
       /\ account[profiles[a].collection] # Absent
       /\ summaries[a] = Summary(profiles[a].collection)
       /\ profiles[a].createdAt = Summary(profiles[a].collection).createdAt

(* No record of the first n sources has been left out.                     *)
ReadThrough(n) ==
  \A i \in 1..n :
    /\ Known(selected[i])
    /\ account[selected[i]] # Absent =>
         \E a \in DOMAIN profiles : profiles[a].collection = selected[i]

PageRight(p) ==
  /\ p.read \subseteq Listed
  /\ \A c \in p.read : Known(c)
  /\ Present(p.read) # {}
  /\ RightAvatar(p.read, p.avatar)
  /\ p.avatar # NoAvatar => p.file \in KnownFiles

Typed ==
  /\ account \in [Listed -> Held \cup {Unread}]
  /\ representation \in {"json", "html", "image"}
  /\ summaries \in Seq(Summaries)
  /\ avatar \in Avatars

(* The assembly's own invariant, through both requests.                    *)
AssemblyInv ==
  /\ phase \notin Resting => Inv
  /\ phase \in Resting => /\ requested \in Seq(Listed \cup Unlisted)
                          /\ SelectedFirst(Len(Wanted))
                          /\ representation # "json"
  /\ representation # "json" => response = {}
  /\ representation = "image" => requested = <<>>

(* What has been made of the records so far.                               *)
AvatarInv ==
  /\ Summarised
  /\ phase = "reading" => ReadThrough(next - 1)
  /\ phase \in {"choosing", "responding"} =>
       ReadThrough(Len(selected)) /\ Len(profiles) # 0
  /\ phase \in {"answered", "notFound"} => ReadThrough(Len(selected))
  /\ phase = "notFound" /\ representation # "image" => Len(profiles) = 0
  /\ phase \in {"selecting", "reading", "choosing"} => avatar = NoAvatar
  /\ phase = "responding" => RightAvatar(Range(selected), avatar)

PagesInv ==
  /\ phase # "shown" /\ representation # "image" => page = {}
  /\ \A p \in page : PageRight(p)
  /\ \A p, q \in page : p = q
  /\ representation = "image" => \A p \in page : p.avatar # NoAvatar
  /\ phase # "served" => image = {}
  /\ PreviewMatchesAvatar

PageInv == Typed /\ AssemblyInv /\ AvatarInv /\ PagesInv

----------------------------------------------------------------------------
LEMMA SummaryType ==
  ASSUME NEW c \in Listed, NEW record \in Held \ {Absent}
  PROVE  /\ extractJSONProfile(c, record) \in Summaries
         /\ record # Unread
         /\ extractJSONProfile(c, record).createdAt \in Int
<1>1. CASE record = IllTyped
  <2>1. extractJSONProfile(c, record) = [createdAt |-> NoTime, avatar |-> NoAvatar]
    BY <1>1 DEF extractJSONProfile
  <2>2. NoAvatar \in Avatars /\ NoTime \in Int
    BY DEF Avatars, NoTime
  <2>3. record.kind = "illTyped" /\ Unread.kind = "unread"
    BY <1>1 DEF IllTyped, Unread
  <2> QED  BY <2>1, <2>2, <2>3 DEF Summaries
<1>2. CASE record \in [kind : {"profile"}, createdAt : Times \cup {NoTime}, avatar : Blobs]
  <2>1. /\ record # IllTyped /\ record # Unread
        /\ record.createdAt \in Times \cup {NoTime} /\ record.createdAt \in Int
    <3>1. record.kind = "profile" /\ record.createdAt \in Times \cup {NoTime}
      BY <1>2
    <3>2. IllTyped.kind = "illTyped" /\ Unread.kind = "unread"
      BY DEF IllTyped, Unread
    <3>3. Times \cup {NoTime} \subseteq Int
      BY AssemblyAssumption DEF NoTime
    <3> QED  BY <3>1, <3>2, <3>3
  <2> DEFINE v == IF validateAvatarRef(record.avatar)
                  THEN [of |-> c, type |-> record.avatar] ELSE NoAvatar
  <2>2. v \in Avatars
    BY DEF validateAvatarRef, Avatars
  <2>3. extractJSONProfile(c, record) = [createdAt |-> record.createdAt, avatar |-> v]
    BY <2>1 DEF extractJSONProfile
  <2> HIDE DEF v
  <2> QED  BY <2>1, <2>2, <2>3 DEF Summaries
<1> QED  BY <1>1, <1>2 DEF Held

LEMMA HeldSummary ==
  ASSUME Typed, NEW c \in Listed, Known(c), account[c] # Absent
  PROVE  Summary(c) \in Summaries /\ Summary(c).createdAt \in Int
<1>1. account[c] \in Held \ {Absent}
  BY DEF Typed, Known
<1> QED  BY <1>1, SummaryType DEF Summary

(* The account alone decides the default's avatar.                         *)
LEMMA OneAvatar ==
  ASSUME Typed, NEW S \in SUBSET Listed, \A c \in S : Known(c),
         NEW v, NEW w, RightAvatar(S, v), RightAvatar(S, w)
  PROVE  v = w
<1>1. CASE \E c \in S : Present(S) = {c}
  BY <1>1 DEF RightAvatar
<1>2. CASE ~\E c \in S : Present(S) = {c}
  <2>1. CASE \A c \in Present(S) : Summary(c).createdAt = NoTime
    BY <1>2, <2>1 DEF RightAvatar
  <2>2. CASE ~\A c \in Present(S) : Summary(c).createdAt = NoTime
    <3> DEFINE First(c, x) ==
          /\ c \in Present(S)
          /\ Summary(c).createdAt # NoTime
          /\ \A d \in Present(S) \ {c} : Summary(d).createdAt # NoTime => Sooner(c, d)
          /\ x = Summary(c).avatar
    <3>1. /\ \E c \in Present(S) : First(c, v)
          /\ \E c \in Present(S) : First(c, w)
      BY <1>2, <2>2 DEF RightAvatar
    <3>2. PICK c \in Present(S) : First(c, v)
      BY <3>1
    <3>3. PICK d \in Present(S) : First(d, w)
      BY <3>1
    <3>4. c = d
      <4> SUFFICES ASSUME c # d PROVE FALSE
        OBVIOUS
      <4>1. Sooner(c, d) /\ Sooner(d, c)
        BY <3>2, <3>3
      <4>2. c \in Nat /\ d \in Nat /\ Summary(c).createdAt \in Int /\ Summary(d).createdAt \in Int
        BY HeldSummary, ListedType DEF Present
      <4> QED  BY <4>1, <4>2 DEF Sooner
    <3> QED  BY <3>2, <3>3, <3>4
  <2> QED  BY <2>1, <2>2
<1> QED  BY <1>1, <1>2

LEMMA PresentRead ==
  ASSUME Inv, Summarised, ReadThrough(Len(selected))
  PROVE  Present(Range(selected)) = {profiles[a].collection : a \in DOMAIN profiles}
<1>1. Range(selected) = {selected[i] : i \in 1..Len(selected)}
  BY LenProperties DEF Inv, TypeOK, Range
<1> QED  BY <1>1 DEF Present, Summarised, ReadThrough

LEMMA AllKnown ==
  ASSUME Inv, ReadThrough(Len(selected))
  PROVE  Range(selected) \subseteq Listed /\ \A c \in Range(selected) : Known(c)
<1>1. selected \in Seq(Listed) /\ DOMAIN selected = 1..Len(selected)
  BY LenProperties DEF Inv, TypeOK
<1> QED  BY <1>1 DEF Range, ReadThrough

(* What was right stays right if what is known of the account stays.       *)
LEMMA PageRightKept ==
  ASSUME NEW p, PageRight(p), \A c \in Listed : Known(c) => account'[c] = account[c]
  PROVE  PageRight(p)'
<1>1. \A c \in p.read : account'[c] = account[c]
  BY DEF PageRight
<1>2. Present(p.read)' = Present(p.read)
  BY <1>1 DEF Present
<1>3. \A c \in p.read : Summary(c)' = Summary(c) /\ Known(c)'
  BY <1>1 DEF Summary, Known, PageRight
<1>4. \A c, d \in p.read : Sooner(c, d)' <=> Sooner(c, d)
  BY <1>3 DEF Sooner
<1>5. Present(p.read) \subseteq p.read
  BY DEF Present
<1>6. RightAvatar(p.read, p.avatar)'
  BY <1>2, <1>3, <1>4, <1>5 DEF RightAvatar, PageRight
<1> QED  BY <1>2, <1>3, <1>6 DEF PageRight

LEMMA PagesKept ==
  ASSUME PagesInv, UNCHANGED <<page, image, representation>>,
         \A c \in Listed : Known(c) => account'[c] = account[c],
         phase \notin Resting, phase' \notin Resting,
         phase' = "unsupported" \/ phase' = "notFound" =>
           \A p \in page : p.read = Listed => representation # "image"
  PROVE  PagesInv'
<1>1. (\A p \in page : PageRight(p))'
  BY PageRightKept DEF PagesInv
<1>2. image = {}
  BY DEF PagesInv, Resting
<1> QED  BY <1>1, <1>2 DEF PagesInv, PreviewMatchesAvatar, Resting

LEMMA PageInitInv == PageInit => PageInv
<1> SUFFICES ASSUME PageInit PROVE PageInv
  OBVIOUS
<1>1. Inv /\ phase = "selecting" /\ profiles = <<>> /\ response = {}
  BY InitInv DEF PageInit, Init
<1>2. Typed
  BY DEF PageInit, Typed, Avatars
<1>3. AvatarInv
  BY <1>1 DEF PageInit, AvatarInv, Summarised
<1>4. PagesInv
  BY <1>1 DEF PageInit, PagesInv, PreviewMatchesAvatar
<1> QED  BY <1>1, <1>2, <1>3, <1>4 DEF PageInv, AssemblyInv, Resting, PageInit

----------------------------------------------------------------------------
LEMMA MadeKept ==
  ASSUME UNCHANGED <<account, selected, profiles, summaries>>
  PROVE  /\ Summarised => Summarised'
         /\ \A n : ReadThrough(n) => ReadThrough(n)'
         /\ \A S, v : RightAvatar(S, v) => RightAvatar(S, v)'
<1>1. /\ \A c : Summary(c)' = Summary(c) /\ (Known(c)' <=> Known(c))
      /\ \A S : Present(S)' = Present(S)
  BY DEF Summary, Known, Present
<1>2. \A c, d : Sooner(c, d)' <=> Sooner(c, d)
  BY <1>1 DEF Sooner
<1>3. Summarised => Summarised'
  BY <1>1 DEF Summarised
<1>4. \A n : ReadThrough(n) => ReadThrough(n)'
  BY <1>1 DEF ReadThrough
<1>5. \A S, v : RightAvatar(S, v) => RightAvatar(S, v)'
  BY <1>1, <1>2 DEF RightAvatar
<1> QED  BY <1>3, <1>4, <1>5

LEMMA IndexType ==
  ASSUME Inv
  PROVE  next \in Nat /\ next >= 1 /\ Len(selected) \in Nat /\ Len(profiles) \in Nat
  BY LenProperties, ProfileType DEF Inv, TypeOK

LEMMA AssembleAvatar ==
  ASSUME Inv, AvatarInv, Assemble
  PROVE  AvatarInv'
<1>1. UNCHANGED <<account, representation, summaries, avatar>>
  BY DEF Assemble, kept
<1>2. CASE SkipRepeated \/ Select \/ RefuseUnlisted
  <2>1. phase = "selecting" /\ phase' \in {"selecting", "unsupported"} /\ profiles = <<>>
        /\ profiles' = <<>>
    BY <1>2 DEF SkipRepeated, Select, RefuseUnlisted, Selecting, End, request, Inv
  <2>2. Summarised'
    BY <1>1, <2>1 DEF AvatarInv, Summarised
  <2> QED  BY <1>1, <2>1, <2>2 DEF AvatarInv
<1>3. CASE StartReading
  <2>1. phase = "selecting" /\ phase' = "reading" /\ next' = 1 /\ UNCHANGED <<selected, profiles>>
    BY <1>3 DEF StartReading, Enter, request
  <2>2. ReadThrough(next - 1)'
    BY <2>1 DEF ReadThrough
  <2>3. Summarised'
    BY <1>1, <2>1, MadeKept DEF AvatarInv
  <2> QED  BY <1>1, <2>1, <2>2, <2>3 DEF AvatarInv
<1>4. CASE ReadFailed
  <2>1. phase' = "failed" /\ UNCHANGED <<selected, profiles>>
    BY <1>4 DEF ReadFailed, End, request
  <2> QED  BY <1>1, <2>1, MadeKept DEF AvatarInv
<1>8. CASE NoProfile
  <2>1. /\ phase = "reading" /\ phase' = "notFound" /\ Len(profiles) = 0
        /\ next > Len(selected) /\ next <= Len(selected) + 1
        /\ UNCHANGED <<selected, profiles>>
    BY <1>8 DEF NoProfile, AllRead, End, request, Inv
  <2>2. next - 1 = Len(selected)
    BY <2>1, IndexType
  <2>3. ReadThrough(Len(selected))
    BY <2>1, <2>2 DEF AvatarInv
  <2>4. ReadThrough(Len(selected))' /\ Summarised'
    BY <1>1, <2>1, <2>3, MadeKept DEF AvatarInv
  <2> QED  BY <1>1, <2>1, <2>4 DEF AvatarInv
<1>5. CASE StartChoosing
  <2>1. /\ phase = "reading" /\ phase' = "choosing" /\ Len(profiles) > 1 /\ next > Len(selected)
        /\ next <= Len(selected) + 1
        /\ UNCHANGED <<selected, profiles>>
    BY <1>5 DEF StartChoosing, AllRead, Enter, request, Inv
  <2>2. next - 1 = Len(selected) /\ Len(profiles) # 0
    BY <2>1, IndexType
  <2>3. ReadThrough(Len(selected))
    BY <2>1, <2>2 DEF AvatarInv
  <2>4. ReadThrough(Len(selected))' /\ Summarised'
    BY <1>1, <2>1, <2>3, MadeKept DEF AvatarInv
  <2> QED  BY <1>1, <2>1, <2>2, <2>4 DEF AvatarInv
<1>6. CASE PassUndated \/ Prefer \/ PassYounger
  <2>1. phase = "choosing" /\ phase' = "choosing" /\ UNCHANGED <<selected, profiles>>
    BY <1>6 DEF PassUndated, Prefer, PassYounger, Choosing, request
  <2>2. ReadThrough(Len(selected))' /\ Summarised'
    BY <1>1, <2>1, MadeKept DEF AvatarInv
  <2> QED  BY <1>1, <2>1, <2>2 DEF AvatarInv
<1>7. CASE AddProfile \/ Answer
  <2>1. /\ phase = "responding" /\ phase' \in {"responding", "internalError", "answered"}
        /\ UNCHANGED <<selected, profiles>>
    BY <1>7 DEF AddProfile, Answer, Responding, End, request
  <2>2. ReadThrough(Len(selected))' /\ Summarised' /\ RightAvatar(Range(selected), avatar)'
    BY <1>1, <2>1, MadeKept DEF AvatarInv
  <2> QED  BY <1>1, <2>1, <2>2 DEF AvatarInv
<1> QED  BY <1>2, <1>3, <1>4, <1>5, <1>6, <1>7, <1>8 DEF Assemble

(* A record read before is the same; one read for the first time is that   *)
(* of no profile yet.                                                      *)
LEMMA ReadRecordAvatar ==
  ASSUME Inv, Typed, AvatarInv, ReadRecord
  PROVE  /\ Next /\ phase' = "reading"
         /\ Typed' /\ AvatarInv'
         /\ \A c \in Listed : Known(c) => account'[c] = account[c]
<1>1. PICK record \in Held : Read(record)
  BY DEF ReadRecord
<1>0. PICK s : s = selected[next]
  OBVIOUS
<1> DEFINE summary == extractJSONProfile(s, record)
           n == Len(profiles)
<1>2. /\ phase = "reading" /\ next <= Len(selected)
      /\ account[s] \in {Unread, record}
      /\ account' = [account EXCEPT ![s] = record]
      /\ UNCHANGED <<representation, avatar>>
      /\ ReadThrough(next - 1) /\ Summarised /\ avatar = NoAvatar
  BY <1>0, <1>1 DEF ReadRecord, Reading, Read, AvatarInv
<1>3. next \in 1..Len(selected) /\ s \in Listed /\ Len(selected) \in Nat
      /\ s \in Range(selected) /\ Range(selected) \subseteq Listed
  BY <1>0, <1>2, IndexType, LenProperties DEF Inv, TypeOK, Range
<1>4. record # Unread
  BY <1>3, SummaryType DEF Absent, Unread
<1>5. /\ account' \in [Listed -> Held \cup {Unread}]
      /\ account'[s] = record
      /\ \A c \in Listed : c # s => account'[c] = account[c]
      /\ \A c \in Listed : Known(c) => account'[c] = account[c]
  BY <1>2, <1>3, <1>4 DEF Typed, Known
<1>6. /\ \A c \in Listed : Known(c) => Known(c)' /\ Summary(c)' = Summary(c)
      /\ Known(s)'
  BY <1>4, <1>5 DEF Known, Summary
<1>7. \A i \in 1..next : i \in 1..next - 1 \/ i = next
  BY <1>3
<1>8. \A i \in 1..next - 1 : selected[i] \in Listed
  BY <1>3 DEF Inv, TypeOK
<1>9. CASE record = Absent
  <2>1. ReadAbsent /\ UNCHANGED summaries
    BY <1>1, <1>9 DEF Read
  <2>2. phase' = "reading" /\ next' = next + 1 /\ UNCHANGED <<selected, profiles>>
    BY <1>2, <2>1 DEF ReadAbsent, request
  <2>3. Summarised'
    BY <1>3, <1>5, <1>6, <1>2, <2>1, <2>2 DEF Summarised
  <2>4. ReadThrough(next - 1)'
    <3>1. next' - 1 = next
      BY <1>3, <2>2
    <3>2. ASSUME NEW i \in 1..next
          PROVE  /\ Known(selected[i])'
                 /\ account'[selected[i]] # Absent =>
                      \E a \in DOMAIN profiles : profiles[a].collection = selected[i]
      <4>1. CASE i = next
        BY <1>0, <1>5, <1>6, <1>9, <2>2, <4>1 DEF Known
      <4>2. CASE i \in 1..next - 1
        BY <1>2, <1>5, <1>8, <2>2, <4>2 DEF ReadThrough, Known
      <4> QED  BY <1>7, <4>1, <4>2
    <3> QED  BY <2>2, <3>1, <3>2 DEF ReadThrough, Known
  <2>5. Typed'
    BY <1>2, <1>5, <2>1 DEF Typed
  <2>6. AvatarInv'
    BY <1>2, <2>2, <2>3, <2>4 DEF AvatarInv
  <2> QED  BY <1>5, <2>1, <2>2, <2>5, <2>6 DEF Next
<1>10. CASE record # Absent
  <2>1. ReadFound(summary.createdAt) /\ summaries' = Append(summaries, summary)
    BY <1>0, <1>1, <1>10 DEF Read
  <2>2. summary \in Summaries /\ summary.createdAt \in Times \cup {NoTime}
    <3>1. summary \in Summaries
      BY <1>3, <1>10, SummaryType
    <3> QED  BY <3>1 DEF Summaries
  <2> DEFINE p == [collection |-> s, createdAt |-> summary.createdAt]
  <2>3. /\ phase' = "reading" /\ next' = next + 1 /\ UNCHANGED selected
        /\ profiles' = Append(profiles, p)
    BY <1>0, <1>2, <2>1 DEF ReadFound
  <2>4. Summary(s)' = summary
    BY <1>5 DEF Summary
  <2>5. p \in Record /\ p.collection = s /\ p.createdAt = summary.createdAt
    BY <1>3, <2>2 DEF Record
  <2> HIDE DEF p, summary
  <2>6. profiles \in Seq(Record) /\ summaries \in Seq(Summaries) /\ Len(summaries) = n
    BY <1>2 DEF Inv, TypeOK, Record, Typed, Summarised
  <2>7. /\ DOMAIN profiles' = 1..n + 1 /\ DOMAIN profiles = 1..n /\ n \in Nat
        /\ \A a \in 1..n : profiles'[a] = profiles[a]
        /\ profiles'[n + 1] = p /\ Len(profiles') = n + 1
    BY <2>3, <2>5, <2>6, AppendElement
  <2>8. /\ summaries' \in Seq(Summaries) /\ Len(summaries') = n + 1
        /\ \A a \in 1..n : summaries'[a] = summaries[a]
        /\ summaries'[n + 1] = summary
    BY <2>1, <2>2, <2>6, AppendElement
  <2> HIDE DEF n
  <2>9. \A a \in 1..n + 1 : a \in 1..n \/ a = n + 1
    BY <2>7
  <2>10. Summarised'
    <3>1. ASSUME NEW a \in 1..n + 1
          PROVE  /\ profiles'[a].collection \in Range(selected)
                 /\ Known(profiles[a].collection)'
                 /\ account'[profiles'[a].collection] # Absent
                 /\ summaries'[a] = Summary(profiles[a].collection)'
                 /\ profiles'[a].createdAt = Summary(profiles[a].collection)'.createdAt
      <4>1. CASE a = n + 1
        <5>1. profiles'[a] = p /\ summaries'[a] = summary
          BY <2>7, <2>8, <4>1
        <5>2. profiles'[a].collection = s
          BY <2>5, <5>1
        <5>3. Known(profiles[a].collection)' /\ Summary(profiles[a].collection)' = summary
          BY <1>6, <2>4, <5>2 DEF Known, Summary
        <5> QED  BY <1>3, <1>5, <1>10, <2>5, <5>1, <5>2, <5>3
      <4>2. CASE a \in 1..n
        <5>0. PICK c : c = profiles[a].collection
          OBVIOUS
        <5>1. /\ c \in Range(selected) /\ Known(c) /\ account[c] # Absent
              /\ summaries[a] = Summary(c) /\ profiles[a].createdAt = Summary(c).createdAt
          BY <1>2, <2>7, <4>2, <5>0 DEF Summarised
        <5>2. profiles'[a] = profiles[a] /\ summaries'[a] = summaries[a]
          BY <2>7, <2>8, <4>2
        <5>3. c \in Listed /\ Known(c)' /\ Summary(c)' = Summary(c) /\ account'[c] = account[c]
          BY <1>3, <1>5, <1>6, <5>1, <5>2
        <5>4. profiles'[a].collection = c
          BY <5>0, <5>2
        <5>5. Known(profiles[a].collection)' /\ Summary(profiles[a].collection)' = Summary(c)
          BY <5>3, <5>4 DEF Known, Summary
        <5> QED  BY <5>1, <5>2, <5>3, <5>4, <5>5
      <4> QED  BY <2>9, <4>1, <4>2
    <3> QED  BY <2>3, <2>7, <2>8, <3>1 DEF Summarised
  <2>11. ReadThrough(next - 1)'
    <3>1. next' - 1 = next
      BY <1>3, <2>3
    <3>2. ASSUME NEW i \in 1..next
          PROVE  /\ Known(selected[i])'
                 /\ account'[selected[i]] # Absent =>
                      \E a \in DOMAIN profiles' : profiles'[a].collection = selected[i]
      <4>1. CASE i = next
        <5>1. n + 1 \in DOMAIN profiles' /\ profiles'[n + 1].collection = s
          BY <2>5, <2>7
        <5>2. selected[i] = s /\ selected'[i] = s
          BY <1>0, <2>3, <4>1
        <5> QED  BY <1>6, <5>1, <5>2 DEF Known
      <4>2. CASE i \in 1..next - 1
        <5>1. /\ Known(selected[i])
              /\ account[selected[i]] # Absent =>
                   \E a \in DOMAIN profiles : profiles[a].collection = selected[i]
          BY <1>2, <4>2 DEF ReadThrough
        <5>2. account'[selected[i]] = account[selected[i]] /\ selected'[i] = selected[i]
          BY <1>5, <1>8, <2>3, <4>2, <5>1
        <5>3. \A a \in DOMAIN profiles : a \in DOMAIN profiles' /\ profiles'[a] = profiles[a]
          BY <2>7
        <5>4. Known(selected[i])'
          BY <5>1, <5>2 DEF Known
        <5> QED  BY <5>1, <5>2, <5>3, <5>4
      <4> QED  BY <1>7, <4>1, <4>2
    <3> QED  BY <2>3, <3>1, <3>2 DEF ReadThrough, Known
  <2>12. Typed'
    BY <1>2, <1>5, <2>8 DEF Typed
  <2>13. AvatarInv'
    BY <1>2, <2>3, <2>10, <2>11 DEF AvatarInv
  <2> QED  BY <1>5, <2>1, <2>2, <2>3, <2>12, <2>13 DEF Next
<1> QED  BY <1>9, <1>10

(* What the loops have found is the default's avatar.                      *)
LEMMA DefaultAvatar ==
  ASSUME Inv, Typed, AvatarInv, Default
  PROVE  Next /\ phase' = "responding" /\ Typed' /\ AvatarInv'
<1>1. /\ UNCHANGED <<account, representation, summaries, selected, profiles>>
      /\ phase' = "responding" /\ phase \in {"reading", "choosing"} /\ Next
  BY DEF Default, OnlyProfile, ChooseDefault, AllRead, StartResponding, Enter, kept, request, Next
<1>2. ReadThrough(Len(selected)) /\ Summarised /\ avatar = NoAvatar
  <2>1. CASE OnlyProfile
    <3>1. phase = "reading" /\ next > Len(selected) /\ next <= Len(selected) + 1
      BY <2>1 DEF OnlyProfile, AllRead, Inv
    <3>2. next - 1 = Len(selected)
      BY <3>1, IndexType
    <3> QED  BY <3>1, <3>2 DEF AvatarInv
  <2>2. CASE ChooseDefault
    BY <2>2 DEF ChooseDefault, AvatarInv
  <2> QED  BY <2>1, <2>2 DEF Default
<1>3. /\ Present(Range(selected)) = {profiles[a].collection : a \in DOMAIN profiles}
      /\ DOMAIN profiles = 1..Len(profiles) /\ Len(profiles) \in Nat
      /\ \A a \in DOMAIN profiles : profiles[a].collection \in Range(selected)
  BY <1>2, PresentRead, ProfileType DEF Inv, Summarised
<1>4. \A a \in DOMAIN profiles :
        /\ summaries[a] = Summary(profiles[a].collection)
        /\ profiles[a].createdAt = Summary(profiles[a].collection).createdAt
        /\ summaries[a] \in Summaries
  <2>1. \A a \in 1..Len(profiles) : summaries[a] \in Summaries
    BY <1>2, <1>3, ElementOfSeq DEF Typed, Summarised
  <2> QED  BY <1>2, <1>3, <2>1 DEF Summarised
<1>5. RightAvatar(Range(selected), avatar') /\ avatar' \in Avatars /\ Len(profiles) # 0
  <2>1. CASE OnlyProfile /\ applySummary(1)
    <3>1. Len(profiles) = 1 /\ avatar' = summaries[1].avatar
      BY <2>1 DEF OnlyProfile, applySummary
    <3>2. DOMAIN profiles = {1}
      BY <1>3, <3>1
    <3>3. PICK c : c = profiles[1].collection
      OBVIOUS
    <3>4. c \in Range(selected) /\ Present(Range(selected)) = {c} /\ avatar' = Summary(c).avatar
      BY <1>3, <1>4, <3>1, <3>2, <3>3
    <3>5. avatar' \in Avatars
      BY <1>4, <3>1, <3>2 DEF Summaries
    <3> QED  BY <3>1, <3>4, <3>5 DEF RightAvatar
  <2>2. CASE ChooseDefault /\ IF chosen = 0 THEN UNCHANGED avatar ELSE applySummary(chosen)
    <3>1. /\ phase = "choosing" /\ next > Len(profiles) /\ next <= Len(profiles) + 1
          /\ Len(profiles) # 1 /\ Len(profiles) # 0 /\ ChosenFirst(next - 1) /\ Distinct
      BY <2>2 DEF ChooseDefault, Inv, AvatarInv
    <3>2. next - 1 = Len(profiles)
      BY <3>1, IndexType
    <3>3. ChosenFirst(Len(profiles))
      BY <3>1, <3>2
    <3>4. ~\E c \in Range(selected) : Present(Range(selected)) = {c}
      <4> SUFFICES ASSUME NEW c, Present(Range(selected)) = {c} PROVE FALSE
        OBVIOUS
      <4>1. 1 \in DOMAIN profiles /\ 2 \in DOMAIN profiles
        BY <1>3, <3>1
      <4>2. profiles[1].collection = c /\ profiles[2].collection = c
        BY <1>3, <4>1
      <4> QED  BY <3>1, <4>1, <4>2 DEF Distinct
    <3>5. CASE chosen = 0
      <4>1. \A c \in Present(Range(selected)) : Summary(c).createdAt = NoTime
        BY <1>3, <1>4, <3>3, <3>5 DEF ChosenFirst
      <4>2. avatar' = NoAvatar
        BY <1>2, <2>2, <3>5
      <4> QED  BY <3>1, <3>4, <4>1, <4>2 DEF RightAvatar, Avatars
    <3>6. CASE chosen # 0
      <4>1. /\ chosen \in DOMAIN profiles /\ profiles[chosen].createdAt # NoTime
            /\ \A j \in DOMAIN profiles :
                 profiles[j].createdAt # NoTime /\ j # chosen => Beats(chosen, j)
            /\ avatar' = summaries[chosen].avatar
        BY <1>3, <2>2, <3>3, <3>6 DEF ChosenFirst, applySummary
      <4>2. PICK c : c = profiles[chosen].collection
        OBVIOUS
      <4>3. c \in Present(Range(selected)) /\ Summary(c).createdAt # NoTime
            /\ avatar' = Summary(c).avatar
        BY <1>3, <1>4, <4>1, <4>2
      <4>4. ASSUME NEW d \in Present(Range(selected)) \ {c}, Summary(d).createdAt # NoTime
            PROVE  Sooner(c, d)
        <5>1. PICK j \in DOMAIN profiles : d = profiles[j].collection
          BY <1>3
        <5>2. Beats(chosen, j)
          BY <1>4, <4>1, <4>2, <4>4, <5>1
        <5> QED  BY <1>4, <4>1, <4>2, <5>1, <5>2 DEF Beats, Sooner
      <4>5. avatar' \in Avatars
        BY <1>4, <4>1 DEF Summaries
      <4> QED  BY <3>1, <3>4, <4>3, <4>4, <4>5 DEF RightAvatar
    <3> QED  BY <3>5, <3>6
  <2> QED  BY <2>1, <2>2 DEF Default
<1>6. ReadThrough(Len(selected))' /\ Summarised'
  BY <1>1, <1>2, MadeKept
<1>7. RightAvatar(Range(selected), avatar)'
  BY <1>1, <1>5, MadeKept
<1>8. Typed'
  BY <1>1, <1>5 DEF Typed
<1> QED  BY <1>1, <1>5, <1>6, <1>7, <1>8 DEF AvatarInv

----------------------------------------------------------------------------
(* Not selecting, and not refused, an image request has selected all.      *)
LEMMA ImageReadsAll ==
  ASSUME Inv, AssemblyInv, representation = "image", phase \notin {"selecting", "unsupported"}
  PROVE  Range(selected) = Listed
<1>1. Wanted = Order
  BY DEF AssemblyInv, Wanted
<1>2. SelectedFirst(Len(Wanted)) /\ Range(Wanted) = {Wanted[i] : i \in 1..Len(Wanted)}
  BY WantedType DEF Inv, TypeOK
<1> QED  BY <1>1, <1>2 DEF SelectedFirst, Listed

(* A page that shows an image was made from a record that is still there.  *)
LEMMA ImageIsFound ==
  ASSUME Inv, AssemblyInv, AvatarInv, PagesInv, NoProfile, representation = "image",
         NEW p \in page, p.read = Listed
  PROVE  FALSE
<1>1. phase = "reading" /\ next > Len(selected) /\ next <= Len(selected) + 1 /\ Len(profiles) = 0
  BY DEF NoProfile, AllRead, Inv
<1>2. next - 1 = Len(selected)
  BY <1>1, IndexType
<1>3. ReadThrough(Len(selected)) /\ Summarised
  BY <1>1, <1>2 DEF AvatarInv
<1>4. Present(Listed) = {profiles[a].collection : a \in DOMAIN profiles}
  BY <1>1, <1>3, ImageReadsAll, PresentRead
<1>5. DOMAIN profiles = {}
  BY <1>1, ProfileType DEF Inv
<1>6. Present(Listed) # {}
  BY DEF PagesInv, PageRight
<1> QED  BY <1>4, <1>5, <1>6

(* The steps of the assembly itself.                                       *)
LEMMA AssemblyGoesOn ==
  ASSUME Inv, AssemblyInv, Next, UNCHANGED <<requested, representation>>,
         phase \notin Resting, phase' \notin Resting,
         representation # "json" => response' = response
  PROVE  AssemblyInv'
<1>1. Inv'
  BY NextInv
<1> QED  BY <1>1 DEF AssemblyInv

LEMMA StepInv ==
  ASSUME PageInv, ReadRecord \/ Default \/ Assemble
  PROVE  PageInv'
<1>1. /\ phase \in {"selecting", "reading", "choosing", "responding"}
      /\ UNCHANGED <<requested, representation, page, image>>
      /\ representation # "json" => response' = response
  BY DEF ReadRecord, Default, Assemble, Read, Reading, Selecting, AllRead, Choosing, Responding,
         SkipRepeated, Select, RefuseUnlisted, StartReading, ReadAbsent, ReadFound, ReadFailed,
         NoProfile, OnlyProfile, StartChoosing, PassUndated, Prefer, PassYounger, ChooseDefault,
         AddProfile, Answer, End, request, answer, kept
<1>2. Inv /\ phase \notin Resting
  BY <1>1 DEF PageInv, AssemblyInv, Resting
<1>3. CASE ReadRecord \/ Default
  <2>1. /\ Next /\ Typed' /\ AvatarInv' /\ phase' \in {"reading", "responding"}
        /\ \A c \in Listed : Known(c) => account'[c] = account[c]
    BY <1>2, <1>3, ReadRecordAvatar, DefaultAvatar DEF PageInv, Default, kept
  <2>2. AssemblyInv'
    BY <1>1, <1>2, <2>1, AssemblyGoesOn DEF PageInv, Resting
  <2>3. PagesInv'
    BY <1>1, <1>2, <2>1, PagesKept DEF PageInv, Resting
  <2> QED  BY <2>1, <2>2, <2>3 DEF PageInv
<1>4. CASE Assemble
  <2>1. /\ Next /\ phase' \notin Resting
        /\ UNCHANGED <<account, representation, summaries, avatar>>
    BY <1>1, <1>2, <1>4
       DEF Assemble, Next, kept, SkipRepeated, Select, RefuseUnlisted, StartReading, ReadFailed,
           NoProfile, StartChoosing, PassUndated, Prefer, PassYounger, AddProfile, Answer,
           Enter, End, Resting
  <2>2. AssemblyInv'
    BY <1>1, <1>2, <2>1, AssemblyGoesOn DEF PageInv
  <2>3. Typed' /\ AvatarInv'
    BY <1>2, <1>4, <2>1, AssembleAvatar DEF PageInv, Typed
  <2>4. ASSUME representation = "image", phase' = "unsupported" PROVE FALSE
    <3>1. RefuseUnlisted
      BY <1>1, <1>4, <2>4
         DEF Assemble, SkipRepeated, Select, StartReading, ReadFailed,
             NoProfile, StartChoosing, PassUndated, Prefer, PassYounger, AddProfile, Answer,
             Enter, End
    <3>2. Wanted = Order /\ next \in 1..Len(Order)
      BY <1>2, <2>4, <3>1, IndexType, AssemblyAssumption, LenProperties
         DEF PageInv, AssemblyInv, Wanted, RefuseUnlisted, Selecting
    <3>3. Order[next] \in Listed
      BY <3>2, AssemblyAssumption, LenProperties DEF Listed, Range
    <3> QED  BY <3>1, <3>2, <3>3 DEF RefuseUnlisted
  <2>5. ASSUME representation = "image", phase' = "notFound", NEW p \in page, p.read = Listed
        PROVE  FALSE
    <3>1. NoProfile
      BY <1>1, <1>4, <2>5
         DEF Assemble, SkipRepeated, Select, RefuseUnlisted, StartReading, ReadFailed,
             StartChoosing, PassUndated, Prefer, PassYounger, AddProfile, Answer,
             Enter, End
    <3> QED  BY <1>2, <2>5, <3>1, ImageIsFound DEF PageInv
  <2>6. PagesInv'
    BY <1>1, <1>2, <2>1, <2>4, <2>5, PagesKept DEF PageInv
  <2> QED  BY <2>2, <2>3, <2>6 DEF PageInv
<1> QED  BY <1>3, <1>4

(* The page names what the account's records make of its collections.      *)
LEMMA WritePageInv ==
  ASSUME PageInv, WritePage
  PROVE  PageInv'
<1>1. /\ phase = "responding" /\ representation = "html" /\ Inv
      /\ UNCHANGED <<account, representation, summaries, avatar, image>>
      /\ page = {}
  BY DEF WritePage, Built, kept, PageInv, AssemblyInv, PagesInv, Resting
<1>2. avatar # NoAvatar => avatar.type \in Supported
  BY DEF PageInv, Typed, Avatars
<1>3. DOMAIN FileOf = Supported
  BY DEF FileOf, Supported
<1>4. PICK p : /\ p = [avatar |-> avatar,
                       file |-> IF avatar = NoAvatar THEN "" ELSE FileOf[avatar.type],
                       read |-> Range(selected)]
               /\ page' = {p}
  BY <1>2, <1>3 DEF WritePage
<1>5. /\ phase' = "shown"
      /\ UNCHANGED <<next, requested, selected, profiles, chosen, default, response>>
  BY <1>2, <1>3 DEF WritePage, request, answer
<1>6. AssemblyInv'
  <2>1. SelectedFirst(Len(Wanted))'
    BY <1>1, <1>5, SelectionKept
  <2>2. requested \in Seq(Listed \cup Unlisted) /\ response = {}
    BY <1>1 DEF Inv, TypeOK, PageInv, AssemblyInv
  <2> QED  BY <1>1, <1>5, <2>1, <2>2 DEF AssemblyInv, Resting
<1>7. Summarised /\ ReadThrough(Len(selected)) /\ Len(profiles) # 0
      /\ RightAvatar(Range(selected), avatar)
  BY <1>1 DEF PageInv, AvatarInv
<1>8. PageRight(p)
  <2>1. p.read = Range(selected) /\ p.avatar = avatar
        /\ (avatar # NoAvatar => p.file = FileOf[avatar.type])
    BY <1>4
  <2>2. Present(Range(selected)) # {}
    <3>1. 1 \in DOMAIN profiles
      BY <1>1, <1>7, ProfileType DEF Inv
    <3> QED  BY <1>1, <1>7, <3>1, PresentRead
  <2>3. avatar # NoAvatar => p.file \in KnownFiles
    BY <1>2, <2>1 DEF FileOf, Supported, KnownFiles
  <2>4. Range(selected) \subseteq Listed /\ \A c \in Range(selected) : Known(c)
    BY <1>1, <1>7, AllKnown
  <2> QED  BY <1>7, <2>1, <2>2, <2>3, <2>4 DEF PageRight
<1>9. PageRight(p)'
  BY <1>1, <1>8, PageRightKept
<1>10. PagesInv'
  <2>1. image' = {}
    BY <1>1 DEF PageInv, PagesInv
  <2>2. \A q \in page' : q = p
    BY <1>4
  <2>3. (\A q \in page : PageRight(q))'
    BY <1>9, <2>2
  <2> QED  BY <1>1, <1>5, <2>1, <2>2, <2>3 DEF PagesInv, PreviewMatchesAvatar
<1>11. AvatarInv' /\ Typed'
  BY <1>1, <1>5, <1>7, MadeKept DEF AvatarInv, PageInv, Typed
<1> QED  BY <1>6, <1>10, <1>11 DEF PageInv

(* The request for the image begins as any request without parameters.     *)
LEMMA RequestImageInv ==
  ASSUME PageInv, RequestImage
  PROVE  PageInv'
<1>1. /\ phase = "shown" /\ phase' = "selecting" /\ next' = 1
      /\ representation' = "image" /\ requested' = <<>>
      /\ selected' = <<>> /\ profiles' = <<>> /\ summaries' = <<>>
      /\ chosen' = 0 /\ default' = NoName /\ avatar' = NoAvatar
      /\ UNCHANGED <<response, account, page, image>>
      /\ \E p \in page : p.avatar # NoAvatar
  BY DEF RequestImage, Enter
<1>2. response = {} /\ image = {}
  BY <1>1 DEF PageInv, AssemblyInv, PagesInv, Resting
<1>3. Inv'
  <2>1. TypeOK'
    BY <1>1, <1>2 DEF TypeOK
  <2>2. SelectedFirst(next - 1)'
    BY <1>1 DEF SelectedFirst, Range, IsInjective
  <2>3. Len(Wanted)' \in Nat
    BY <1>1, AssemblyAssumption, LenProperties DEF Wanted
  <2> QED  BY <1>1, <1>2, <2>1, <2>2, <2>3 DEF Inv
<1>4. AssemblyInv'
  BY <1>1, <1>2, <1>3 DEF AssemblyInv, Resting
<1>5. AvatarInv' /\ Typed'
  BY <1>1 DEF AvatarInv, Summarised, PageInv, Typed, Avatars
<1>6. PagesInv'
  <2>1. (\A p \in page : PageRight(p))'
    BY <1>1, PageRightKept DEF PageInv, PagesInv
  <2>2. \A p \in page : p.avatar # NoAvatar
    BY <1>1 DEF PageInv, PagesInv
  <2>3. \A p, q \in page : p = q
    BY DEF PageInv, PagesInv
  <2> QED  BY <1>1, <1>2, <2>1, <2>2, <2>3 DEF PagesInv, PreviewMatchesAvatar
<1> QED  BY <1>4, <1>5, <1>6 DEF PageInv

(* Two lookups of the same records find the same avatar.                   *)
LEMMA ServeImageInv ==
  ASSUME PageInv, ServeImage
  PROVE  PageInv'
<1>1. /\ phase = "responding" /\ representation = "image" /\ Inv
      /\ phase' \in {"notFound", "served"}
      /\ UNCHANGED <<account, representation, summaries, avatar, page>>
      /\ UNCHANGED <<next, requested, selected, profiles, chosen, default, response>>
  BY DEF ServeImage, Built, kept, PageInv, AssemblyInv, Resting, request, answer
<1>2. AssemblyInv'
  <2>1. SelectedFirst(Len(Wanted))' /\ Distinct'
    BY <1>1, SelectionKept DEF Inv, Distinct
  <2>2. phase' = "notFound" => Inv'
    <3>1. phase' = "notFound" => TypeOK'
      BY <1>1 DEF Inv, TypeOK, Ended
    <3> QED  BY <1>1, <2>1, <3>1 DEF Inv
  <2>3. requested \in Seq(Listed \cup Unlisted)
    BY <1>1 DEF Inv, TypeOK
  <2> QED  BY <1>1, <2>1, <2>2, <2>3 DEF AssemblyInv, Resting, PageInv
<1>3. AvatarInv' /\ Typed'
  BY <1>1, MadeKept DEF AvatarInv, PageInv, Typed
<1>4. ASSUME NEW p \in page, p.read = Listed
      PROVE  phase' = "served" /\ image' = {p.avatar}
  <2>1. RightAvatar(Listed, p.avatar) /\ RightAvatar(Listed, avatar)
    BY <1>1, <1>4, ImageReadsAll DEF PageInv, PagesInv, PageRight, AvatarInv
  <2>2. p.avatar = avatar
    BY <1>4, <2>1, OneAvatar DEF PageInv, PagesInv, PageRight
  <2>3. avatar # NoAvatar /\ p.file \in KnownFiles
    BY <1>1, <2>2 DEF PageInv, PagesInv, PageRight
  <2> QED  BY <2>2, <2>3 DEF ServeImage
<1>5. PagesInv'
  <2>1. (\A p \in page : PageRight(p))'
    BY <1>1, PageRightKept DEF PageInv, PagesInv
  <2>2. phase' # "served" => image' = {}
    BY <1>1 DEF ServeImage, PageInv, PagesInv
  <2> QED  BY <1>1, <1>4, <2>1, <2>2 DEF PageInv, PagesInv, PreviewMatchesAvatar
<1> QED  BY <1>2, <1>3, <1>5 DEF PageInv

LEMMA PageNextInv == PageInv /\ [PageNext]_pageVars => PageInv'
<1> SUFFICES ASSUME PageInv, [PageNext]_pageVars PROVE PageInv'
  OBVIOUS
<1>1. CASE ReadRecord \/ Default \/ Assemble
  BY <1>1, StepInv
<1>2. CASE WritePage
  BY <1>2, WritePageInv
<1>3. CASE ServeImage
  BY <1>3, ServeImageInv
<1>4. CASE RequestImage
  BY <1>4, RequestImageInv
<1>5. CASE UNCHANGED pageVars
  <2>1. /\ UNCHANGED <<phase, next, requested, selected, profiles, chosen, default, response>>
        /\ UNCHANGED <<account, representation, summaries, avatar, page, image>>
    BY <1>5 DEF pageVars, vars, request, answer, kept
  <2>2. AssemblyInv'
    <3>1. [Next]_vars
      BY <2>1 DEF vars, request, answer
    <3>2. phase \notin Resting => Inv'
      BY <3>1, NextInv DEF PageInv, AssemblyInv
    <3>3. SelectedFirst(Len(Wanted)) => SelectedFirst(Len(Wanted))'
      BY <2>1 DEF SelectedFirst, Wanted
    <3> QED  BY <2>1, <3>2, <3>3 DEF PageInv, AssemblyInv
  <2>3. AvatarInv' /\ Typed'
    BY <2>1, MadeKept DEF PageInv, AvatarInv, Typed
  <2>4. PagesInv'
    <3>1. (\A p \in page : PageRight(p))'
      BY <2>1, PageRightKept DEF PageInv, PagesInv
    <3> QED  BY <2>1, <3>1 DEF PageInv, PagesInv, PreviewMatchesAvatar
  <2> QED  BY <2>2, <2>3, <2>4 DEF PageInv
<1> QED  BY <1>1, <1>2, <1>3, <1>4, <1>5 DEF PageNext, Handle

(* The invariant of the assembly and of what is made of the avatars holds  *)
(* through a request, its page and the request for the page's image.       *)
THEOREM PageInvariance == PageSpec => []PageInv
BY PageInitInv, PageNextInv, PTL DEF PageSpec

(* What is proved above of one request holds of each request behind a      *)
(* page: selection, default and answer are right in the second lookup too. *)
THEOREM PagesKeepAssembly ==
  PageSpec => [](/\ SelectionExact
                 /\ DefaultIsOldest
                 /\ ResponseNeverRefused)
<1>1. ASSUME PageInv, phase \notin Resting
      PROVE  SelectionExact /\ DefaultIsOldest /\ ResponseNeverRefused
  <2>1. Inv
    BY <1>1 DEF PageInv, AssemblyInv
  <2>2. SelectionExact
    BY <2>1, ExactSelection DEF SelectionExact, Inv, TypeOK
  <2>3. DefaultIsOldest
    BY <2>1 DEF Inv, DefaultIsOldest, DefaultRight, Beats
  <2> QED  BY <2>1, <2>2, <2>3 DEF Inv, ResponseNeverRefused
<1>2. ASSUME PageInv, phase \in Resting
      PROVE  SelectionExact /\ DefaultIsOldest /\ ResponseNeverRefused
  <2>1. requested \in Seq(Listed \cup Unlisted) /\ SelectedFirst(Len(Wanted))
    BY <1>2 DEF PageInv, AssemblyInv
  <2>2. phase \notin {"unsupported", "answered", "internalError"}
    BY <1>2 DEF Resting
  <2>3. SelectionExact
    BY <2>1, <2>2, ExactSelection DEF SelectionExact
  <2> QED  BY <2>2, <2>3 DEF DefaultIsOldest, ResponseNeverRefused
<1>3. PageInv => SelectionExact /\ DefaultIsOldest /\ ResponseNeverRefused
  BY <1>1, <1>2
<1> QED  BY <1>3, PageInvariance, PTL

(* The answer under "profiles" is made of every record the account holds   *)
(* for the collections selected, whatever became of its summary, and only  *)
(* an account that holds none is answered 404.                             *)
THEOREM EveryRecordIsAnswered == PageSpec => []EveryRecordAnswered
<1>1. ASSUME PageInv PROVE EveryRecordAnswered
  <2> SUFFICES ASSUME \/ phase = "answered"
                      \/ phase = "notFound" /\ representation # "image"
               PROVE  EveryRecordAnswered
    BY DEF EveryRecordAnswered
  <2>1. Inv /\ Summarised /\ ReadThrough(Len(selected))
    BY <1>1 DEF PageInv, AssemblyInv, AvatarInv, Resting
  <2>2. /\ {c \in Range(selected) : account[c] # Absent}
             = {profiles[a].collection : a \in DOMAIN profiles}
        /\ DOMAIN profiles = 1..Len(profiles)
    BY <2>1, PresentRead, ProfileType DEF Present, Inv
  <2>3. CASE phase = "answered"
    <3>1. response = {profiles[a].collection : a \in DOMAIN profiles}
      BY <2>1, <2>2, <2>3 DEF Inv, AddedFirst
    <3> QED  BY <2>2, <2>3, <3>1 DEF EveryRecordAnswered
  <2>4. CASE phase = "notFound" /\ representation # "image"
    <3>1. Len(profiles) = 0
      BY <1>1, <2>4 DEF PageInv, AvatarInv
    <3>2. DOMAIN profiles = {}
      BY <2>2, <3>1
    <3> QED  BY <2>2, <2>4, <3>2 DEF EveryRecordAnswered
  <2> QED  BY <2>3, <2>4
<1> QED  BY <1>1, PageInvariance, PTL

(* The image behind a page made from every collection is the one the page  *)
(* is about: a second lookup chooses the same default, whatever order the  *)
(* first request named the collections in.                                 *)
THEOREM PreviewsMatchAvatars == PageSpec => []PreviewMatchesAvatar
<1>1. PageInv => PreviewMatchesAvatar
  BY DEF PageInv, PagesInv
<1> QED  BY <1>1, PageInvariance, PTL

----------------------------------------------------------------------------
(* Why a request ends *)

(* One step per index a loop has left, and the loops that are to follow.   *)
Remaining ==
  CASE phase = "selecting" -> 3 * (Len(Wanted) + 2) + (Len(Wanted) + 1 - next)
    [] phase = "reading" -> 2 * (Len(Wanted) + 2) + (Len(selected) + 1 - next)
    [] phase = "choosing" -> (Len(Wanted) + 2) + (Len(profiles) + 1 - next)
    [] phase = "responding" -> 1 + (Len(profiles) + 1 - next)
    [] OTHER -> 0

(* No loop makes more than it is given.                                    *)
Lengths ==
  /\ Len(selected) <= Len(Wanted)
  /\ Len(profiles) <= Len(Wanted)
  /\ phase = "selecting" => Len(selected) <= next - 1
  /\ phase = "reading" => Len(profiles) <= next - 1

LEMMA LengthTypes ==
  ASSUME Inv
  PROVE  /\ Len(Wanted) \in Nat /\ Len(selected) \in Nat /\ Len(profiles) \in Nat
         /\ next \in Nat /\ next >= 1
  BY IndexType, WantedType, LenProperties DEF Inv, TypeOK

LEMMA RemainingType ==
  ASSUME Inv, Lengths
  PROVE  Remaining \in Nat /\ Remaining <= 4 * (Len(Wanted) + 2)
<1>1. /\ phase = "selecting" => next <= Len(Wanted) + 1
      /\ phase = "reading" => next <= Len(selected) + 1
      /\ phase \in {"choosing", "responding"} => next <= Len(profiles) + 1
  BY DEF Inv
<1> QED  BY <1>1, LengthTypes DEF Remaining, Lengths

(* What a step may do: go on with its loop, or end it.                     *)
Goes(loop) ==
  /\ phase = loop /\ phase' = loop
  /\ next' = next + 1
  /\ requested' = requested

Ends(loop, following) ==
  /\ phase = loop /\ phase' \in following
  /\ phase' \notin Ended => next' = 1
  /\ UNCHANGED <<requested, selected, profiles>>

SelectingGoes ==
  /\ Goes("selecting")
  /\ next <= Len(Wanted)
  /\ profiles' = profiles
  /\ \/ selected' = selected
     \/ Wanted[next] \in Listed /\ selected' = Append(selected, Wanted[next])

ReadingGoes ==
  /\ Goes("reading")
  /\ next <= Len(selected)
  /\ selected' = selected
  /\ \/ profiles' = profiles
     \/ \E createdAt \in Times \cup {NoTime} :
          profiles' = Append(profiles, [collection |-> selected[next], createdAt |-> createdAt])

LoopGoes(loop) ==
  /\ Goes(loop)
  /\ next <= Len(profiles)
  /\ UNCHANGED <<selected, profiles>>

LEMMA StepsOfLoops ==
  ASSUME Next
  PROVE  \/ SelectingGoes \/ ReadingGoes \/ LoopGoes("choosing") \/ LoopGoes("responding")
         \/ Ends("selecting", {"reading", "unsupported"})
         \/ Ends("reading", {"choosing", "responding", "failed", "notFound"})
         \/ Ends("choosing", {"responding"})
         \/ Ends("responding", {"answered", "internalError"})
<1>1. CASE SkipRepeated \/ Select
  BY <1>1 DEF SkipRepeated, Select, Selecting, request, SelectingGoes, Goes
<1>2. CASE RefuseUnlisted \/ StartReading
  BY <1>2 DEF RefuseUnlisted, StartReading, Selecting, End, Enter, request, Ends, Ended
<1>3. CASE ReadAbsent \/ \E createdAt \in Times \cup {NoTime} : ReadFound(createdAt)
  BY <1>3 DEF ReadAbsent, ReadFound, Reading, request, ReadingGoes, Goes
<1>4. CASE ReadFailed \/ NoProfile \/ OnlyProfile \/ StartChoosing
  BY <1>4 DEF ReadFailed, NoProfile, OnlyProfile, StartChoosing, Reading, AllRead, End, Enter,
              StartResponding, request, Ends, Ended
<1>5. CASE PassUndated \/ Prefer \/ PassYounger
  BY <1>5 DEF PassUndated, Prefer, PassYounger, Choosing, request, LoopGoes, Goes
<1>6. CASE ChooseDefault
  BY <1>6 DEF ChooseDefault, Enter, StartResponding, request, Ends, Ended
<1>7. CASE AddProfile
  BY <1>7 DEF AddProfile, Responding, End, request, LoopGoes, Goes, Ends, Ended
<1>8. CASE Answer
  BY <1>8 DEF Answer, End, request, Ends, Ended
<1> QED  BY <1>1, <1>2, <1>3, <1>4, <1>5, <1>6, <1>7, <1>8 DEF Next

(* An iteration makes at most one source, or one profile.                  *)
LEMMA IterationAdvances ==
  ASSUME Inv, Lengths,
         SelectingGoes \/ ReadingGoes \/ LoopGoes("choosing") \/ LoopGoes("responding")
  PROVE  Lengths' /\ Remaining' < Remaining
<1>1. Wanted' = Wanted
  BY DEF SelectingGoes, ReadingGoes, LoopGoes, Goes, Wanted
<1>2. CASE SelectingGoes
  <2>1. Len(selected') \in Nat /\ Len(selected') <= Len(selected) + 1
    BY <1>2, AppendElement, LengthTypes DEF Inv, TypeOK, SelectingGoes
  <2>2. /\ phase = "selecting" /\ phase' = "selecting" /\ next' = next + 1
        /\ next <= Len(Wanted) /\ profiles' = profiles
    BY <1>2 DEF SelectingGoes, Goes
  <2>3. Lengths'
    BY <1>1, <2>1, <2>2, LengthTypes DEF Lengths
  <2>4. Remaining' < Remaining
    BY <1>1, <2>2, LengthTypes DEF Remaining
  <2> QED  BY <2>3, <2>4
<1>3. CASE ReadingGoes
  <2>1. Len(profiles') \in Nat /\ Len(profiles') <= Len(profiles) + 1
    <3>1. ASSUME NEW createdAt \in Times \cup {NoTime},
                 profiles' = Append(profiles, [collection |-> selected[next],
                                               createdAt |-> createdAt])
          PROVE  Len(profiles') = Len(profiles) + 1
      <4>1. selected[next] \in Listed
        BY <1>3, LengthTypes, LenProperties DEF Inv, TypeOK, ReadingGoes
      <4>2. profiles \in Seq(Record)
            /\ [collection |-> selected[next], createdAt |-> createdAt] \in Record
        BY <4>1 DEF Inv, TypeOK, Record
      <4> QED  BY <3>1, <4>2, AppendElement
    <3>2. profiles' = profiles \/ Len(profiles') = Len(profiles) + 1
      BY <1>3, <3>1 DEF ReadingGoes
    <3> QED  BY <3>2, LengthTypes
  <2> QED  BY <1>1, <1>3, <2>1, LengthTypes DEF ReadingGoes, Goes, Lengths, Remaining
<1>4. CASE LoopGoes("choosing") \/ LoopGoes("responding")
  BY <1>1, <1>4, LengthTypes DEF LoopGoes, Goes, Lengths, Remaining
<1> QED  BY <1>2, <1>3, <1>4

(* A loop that has ended leaves the next one no more than it was given.    *)
LEMMA LoopEndAdvances ==
  ASSUME Inv, Lengths,
         \/ Ends("selecting", {"reading", "unsupported"})
         \/ Ends("reading", {"choosing", "responding", "failed", "notFound"})
         \/ Ends("choosing", {"responding"})
         \/ Ends("responding", {"answered", "internalError"})
  PROVE  Lengths' /\ Remaining' < Remaining
<1>1. /\ phase' # "selecting" /\ Wanted' = Wanted
      /\ UNCHANGED <<selected, profiles>>
  BY DEF Ends, Wanted
<1>2. /\ phase = "selecting" => next <= Len(Wanted) + 1 /\ Len(profiles) = 0
      /\ phase = "reading" => next <= Len(selected) + 1
      /\ phase \in {"choosing", "responding"} => next <= Len(profiles) + 1
  BY DEF Inv
<1>3. Lengths'
  BY <1>1, <1>2, LengthTypes DEF Ends, Lengths, Ended
<1>4. phase' \in Ended => Remaining' < Remaining
  BY <1>2, LengthTypes DEF Ends, Lengths, Remaining, Ended
<1>5. phase' \notin Ended => Remaining' < Remaining
  BY <1>1, <1>2, LengthTypes DEF Ends, Lengths, Remaining, Ended
<1> QED  BY <1>3, <1>4, <1>5

LEMMA AssemblyAdvances == Inv /\ Lengths /\ Next => Lengths' /\ Remaining' < Remaining
  BY StepsOfLoops, IterationAdvances, LoopEndAdvances

(* The assembly of one request only goes forward: every one of its steps,  *)
(* whatever the records are and whichever read fails, brings it nearer to  *)
(* its end, which is at most four steps per collection away and eight.     *)
THEOREM AssemblyOnlyAdvances ==
  Spec => /\ [](Remaining \in Nat /\ Remaining <= 4 * (Len(Wanted) + 2))
          /\ [][Remaining' < Remaining]_vars
<1>1. Init => Lengths
  <2> SUFFICES ASSUME Init PROVE Lengths
    OBVIOUS
  <2> QED  BY InitInv, LengthTypes DEF Init, Lengths
<1>2. Inv /\ Lengths /\ [Next]_vars => Lengths'
  BY AssemblyAdvances DEF vars, request, answer, Lengths, Wanted
<1>3. Inv /\ Lengths /\ [Next]_vars => [Remaining' < Remaining]_vars
  BY AssemblyAdvances
<1>4. Inv /\ Lengths => Remaining \in Nat /\ Remaining <= 4 * (Len(Wanted) + 2)
  BY RemainingType
<1> QED  BY <1>1, <1>2, <1>3, <1>4, Invariance, PTL DEF Spec

(* So do a request that writes a page and the one for the page's image: of *)
(* the steps of PageSpec only the browser's request for the image starts   *)
(* anything again.                                                         *)
THEOREM RequestsOnlyAdvance ==
  PageSpec => /\ [](Remaining \in Nat)
              /\ [][Handle => Remaining' < Remaining]_pageVars
<1>1. PageInit => Lengths
  <2> SUFFICES ASSUME PageInit PROVE Lengths
    OBVIOUS
  <2> QED  BY InitInv, LengthTypes DEF PageInit, Init, Lengths
<1>2. ASSUME PageInv, Lengths, ReadRecord \/ Default \/ Assemble
      PROVE  Lengths' /\ Remaining' < Remaining
  <2>1. phase \in {"selecting", "reading", "choosing", "responding"}
    BY <1>2
       DEF ReadRecord, Default, Assemble, Read, Reading, Selecting, AllRead, Choosing, Responding,
           SkipRepeated, Select, RefuseUnlisted, StartReading, ReadAbsent, ReadFound, ReadFailed,
           NoProfile, OnlyProfile, StartChoosing, PassUndated, Prefer, PassYounger, ChooseDefault,
           AddProfile, Answer
  <2>2. Inv
    BY <1>2, <2>1 DEF PageInv, AssemblyInv, Resting
  <2>3. CASE ReadRecord \/ Default
    <3>1. Next
      BY <1>2, <2>2, <2>3, ReadRecordAvatar, DefaultAvatar DEF PageInv
    <3> QED  BY <1>2, <2>2, <3>1, AssemblyAdvances
  <2>4. CASE Assemble
    <3>1. Next
      BY <2>4 DEF Assemble, Next
    <3> QED  BY <1>2, <2>2, <3>1, AssemblyAdvances
  <2> QED  BY <1>2, <2>3, <2>4
<1>3. ASSUME PageInv, Lengths, WritePage \/ ServeImage
      PROVE  Lengths' /\ Remaining' < Remaining
  <2>1. /\ phase = "responding" /\ phase' \in {"shown", "internalError", "notFound", "served"}
        /\ UNCHANGED <<next, requested, selected, profiles>>
    BY <1>3 DEF WritePage, ServeImage, Built, End, request
  <2>2. Inv
    BY <1>3, <2>1 DEF PageInv, AssemblyInv, Resting
  <2>3. Lengths'
    BY <1>3, <2>1 DEF Lengths, Wanted
  <2>4. Remaining > 0 /\ Remaining' = 0
    BY <2>1, <2>2, LengthTypes DEF Inv, Remaining
  <2> QED  BY <2>3, <2>4
<1>4. ASSUME RequestImage PROVE Lengths'
  <2>1. phase' = "selecting" /\ next' = 1 /\ selected' = <<>> /\ profiles' = <<>> /\ requested' = <<>>
    BY <1>4 DEF RequestImage, Enter
  <2>2. Len(Order) \in Nat /\ Wanted' = Order
    BY <2>1, AssemblyAssumption, LenProperties DEF Wanted
  <2> QED  BY <2>1, <2>2 DEF Lengths
<1>5. PageInv /\ Lengths /\ [PageNext]_pageVars => Lengths'
  <2>1. UNCHANGED pageVars => UNCHANGED <<phase, next, requested, selected, profiles>>
    BY DEF pageVars, vars, request, answer
  <2>2. Lengths /\ UNCHANGED pageVars => Lengths'
    BY <2>1 DEF Lengths, Wanted
  <2> QED  BY <1>2, <1>3, <1>4, <2>2 DEF PageNext, Handle
<1>6. PageInv /\ Lengths /\ [PageNext]_pageVars => [Handle => Remaining' < Remaining]_pageVars
  BY <1>2, <1>3 DEF Handle
<1>7. PageInv /\ Lengths => Remaining \in Nat
  <2>1. CASE phase \in Resting
    BY <2>1 DEF Resting, Remaining
  <2>2. CASE phase \notin Resting
    BY <2>2, RemainingType DEF PageInv, AssemblyInv
  <2> QED  BY <2>1, <2>2
<1> QED  BY <1>1, <1>5, <1>6, <1>7, PageInvariance, PTL DEF PageSpec

============================================================================
