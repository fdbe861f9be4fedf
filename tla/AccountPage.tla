---------------------------- MODULE AccountPage ----------------------------
(***************************************************************************)
(* What becomes of an account's avatar: extractJSONProfile takes it out of *)
(* each record (internal/profile/selectors.go), applySummary keeps the one *)
(* of the default profile, newAccountPage names a URL for it in the page   *)
(* it writes (internal/web/account_html.go), and the browser, or whoever   *)
(* shows the link's preview, then requests that URL, which assembles the   *)
(* account once more, from the same records but without the collection     *)
(* parameters of the first request.                                        *)
(*                                                                         *)
(* Each request is one run of AccountAssembly.  What a record holds is     *)
(* settled when it is first read, and stays.                               *)
(***************************************************************************)
EXTENDS AccountAssembly

CONSTANT Blobs  \* what the avatar selector may find: a content type, or no blob

Supported == {"image/jpeg", "image/png", "image/webp"}

Absent == [kind |-> "absent"]      \* no record
IllTyped == [kind |-> "illTyped"]  \* not an object, or not of the collection's $type
Unread == [kind |-> "unread"]
Held == {Absent, IllTyped}
        \cup [kind : {"profile"}, createdAt : Times \cup {NoTime}, avatar : Blobs]

NoAvatar == [type |-> "none"]

VARIABLES
  account,         \* the collections' records
  representation,  \* what the running request answers: "json", "html", "image"
  summaries,       \* lookup: the summaries, parallel to the profiles
  avatar,          \* account.avatarRef
  page,            \* {} or what the page that was written says
  image            \* {} or the avatar the second request was answered with

kept == <<account, representation>>
pageVars == <<vars, kept, summaries, avatar, page, image>>

(* Seeded faults *)

AnyAvatarRef(blob) == blob # "none"

FirstSummary(i) == avatar' = summaries[1].avatar

----------------------------------------------------------------------------
PageInit ==
  /\ Init
  /\ account = [c \in Listed |-> Unread]
  /\ representation \in {"json", "html"}
  /\ summaries = <<>>
  /\ avatar = NoAvatar
  /\ page = {}
  /\ image = {}

----------------------------------------------------------------------------
(* Its size and CID are valid, too, unless it is no blob. *)
validateAvatarRef(blob) == blob \in Supported

(* What cannot be extracted is left empty and takes nothing else with it;  *)
(* a record of another type has an empty summary.                          *)
extractJSONProfile(collection, record) ==
  IF record = IllTyped THEN [createdAt |-> NoTime, avatar |-> NoAvatar]
  ELSE [createdAt |-> record.createdAt,
        avatar |-> IF validateAvatarRef(record.avatar)
                   THEN [of |-> collection, type |-> record.avatar]
                   ELSE NoAvatar]

(* A seeded fault: a record without a summary is passed over. *)
ReadOnlySummarised(record) ==
  LET collection == selected[next]
      summary == extractJSONProfile(collection, record)
  IN  /\ account[collection] \in {Unread, record}
      /\ account' = [account EXCEPT ![collection] = record]
      /\ IF record \in {Absent, IllTyped}
         THEN ReadAbsent /\ UNCHANGED summaries
         ELSE ReadFound(summary.createdAt) /\ summaries' = Append(summaries, summary)

(* The account decides what is read the first time.  A summary that cannot *)
(* be extracted is logged, and the record is kept.                         *)
Read(record) ==
  LET collection == selected[next]
      summary == extractJSONProfile(collection, record)
  IN  /\ account[collection] \in {Unread, record}
      /\ account' = [account EXCEPT ![collection] = record]
      /\ IF record = Absent
         THEN ReadAbsent /\ UNCHANGED summaries
         ELSE ReadFound(summary.createdAt) /\ summaries' = Append(summaries, summary)

ReadRecord ==
  /\ Reading
  /\ \E record \in Held : Read(record)
  /\ UNCHANGED <<representation, avatar, page, image>>

applySummary(i) == avatar' = summaries[i].avatar

Default ==
  /\ \/ OnlyProfile /\ applySummary(1)
     \/ /\ ChooseDefault
        /\ IF chosen = 0 THEN UNCHANGED avatar ELSE applySummary(chosen)
  /\ UNCHANGED <<kept, summaries, page, image>>

(* The other steps of the assembly. *)
Assemble ==
  /\ \/ SkipRepeated \/ Select \/ RefuseUnlisted \/ StartReading \/ ReadFailed
     \/ NoProfile \/ StartChoosing \/ PassUndated \/ Prefer \/ PassYounger
     \/ representation = "json" /\ (AddProfile \/ Answer)
  /\ UNCHANGED <<kept, summaries, avatar, page, image>>

----------------------------------------------------------------------------
(* avatarFilename and handleAvatar each have a list of their own, apart    *)
(* from the one of validateAvatarRef.                                      *)
FileOf == [type \in {"image/jpeg", "image/png", "image/webp"} |->
             CASE type = "image/jpeg" -> "profile.jpg"
               [] type = "image/png" -> "profile.png"
               [] type = "image/webp" -> "profile.webp"]

KnownFiles == {"profile.jpg", "profile.png", "profile.webp"}

Built(kind) ==
  /\ phase = "responding"
  /\ representation = kind
  /\ UNCHANGED <<kept, summaries, avatar>>

(* newAccountPage refuses an avatar it has no file name for. *)
WritePage ==
  /\ Built("html")
  /\ IF avatar # NoAvatar /\ avatar.type \notin DOMAIN FileOf
     THEN End("internalError") /\ UNCHANGED page
     ELSE /\ phase' = "shown"
          /\ page' = {[avatar |-> avatar,
                       file |-> IF avatar = NoAvatar THEN "" ELSE FileOf[avatar.type],
                       read |-> Range(selected)]}
          /\ UNCHANGED <<next, request, answer>>
  /\ UNCHANGED image

(* The page is shown: its image is requested, by handle and file name. *)
RequestImage ==
  /\ phase = "shown"
  /\ \E p \in page : p.avatar # NoAvatar
  /\ representation' = "image"
  /\ requested' = <<>>
  /\ Enter("selecting")
  /\ selected' = <<>>
  /\ profiles' = <<>>
  /\ summaries' = <<>>
  /\ chosen' = 0
  /\ default' = NoName
  /\ avatar' = NoAvatar
  /\ UNCHANGED <<response, account, page, image>>

(* handleAvatar knows three file names (it looks at the name first, which  *)
(* comes to the same); Avatar may find none to deliver.                    *)
ServeImage ==
  /\ Built("image")
  /\ IF avatar = NoAvatar \/ \A p \in page : p.file \notin KnownFiles
     THEN phase' = "notFound" /\ UNCHANGED image
     ELSE phase' = "served" /\ image' = {avatar}
  /\ UNCHANGED <<next, request, answer, page>>

Handle ==
  \/ ReadRecord \/ Default \/ Assemble
  \/ WritePage \/ ServeImage

PageNext == Handle \/ RequestImage

PageSpec == PageInit /\ [][PageNext]_pageVars

----------------------------------------------------------------------------
(* Properties *)

(* The image behind a page's og:image is the one the page is about, and of *)
(* the type it states, although it is found by a lookup of its own: if the *)
(* page was made from every collection, in whatever order the request      *)
(* named them, only a read that fails keeps its image from being served.   *)
PreviewMatchesAvatar ==
  \A p \in page :
    p.read = Listed /\ representation = "image" =>
      /\ phase \notin {"unsupported", "notFound"}
      /\ image \subseteq {p.avatar}

(* "the complete record is always returned under profiles" (README.md:38), *)
(* even when its summary cannot be extracted: the answer is made of the    *)
(* records the account holds for the collections selected, all of them and *)
(* no others, and only an account without any is answered 404.             *)
EveryRecordAnswered ==
  LET held == {c \in Range(selected) : account[c] # Absent}
  IN  /\ phase = "answered" => response = held
      /\ phase = "notFound" /\ representation # "image" => held = {}

============================================================================
