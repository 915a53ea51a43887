---------------------------- MODULE ContentProofs ----------------------------
(***************************************************************************)
(* Theorems about the specification of OfficeMC, for every value of its    *)
(* constants: content that refers to other content keeps doing so,         *)
(* ContentHoldsTogether.                                                   *)
(*                                                                         *)
(* A behaviour follows one component, and the four of content have here an *)
(* invariant each.  Every request reads and then writes, and what it has   *)
(* read may be false by the time it writes: the invariant says what is     *)
(* still true of it then, and that the history names the row if it is not. *)
(***************************************************************************)
EXTENDS OfficeMC, FiniteSetTheorems, SequenceTheorems, TLAPS

(***************************************************************************)
(* Induction over finite sets                                              *)
(***************************************************************************)

\* What holds of a subset of F once it holds of it without any one of its elements holds of
\* every subset of F; G is where it holds.
LEMMA SetInduction ==
  ASSUME NEW F, IsFiniteSet(F), NEW G,
         \A s \in SUBSET F : (\A x \in s : s \ {x} \in G) => s \in G
  PROVE  \A s \in SUBSET F : s \in G
<1> DEFINE T == (SUBSET F) \ G
           R == StrictSubsetOrdering(F)
<1>1. IsWellFoundedOn(R, FiniteSubsetsOf(F))
  BY FS_StrictSubsetOrderingWellFounded
<1>2. T \subseteq FiniteSubsetsOf(F)
  BY FS_Subset DEF FiniteSubsetsOf
<1>3. ASSUME T # {} PROVE FALSE
  <2>1. \E s \in T : \A q \in T : ~(<<q, s>> \in R)
    <3> HIDE DEF T, R
    <3> QED
      BY <1>1, <1>2, <1>3, WFMin
  <2>2. PICK s \in T : \A q \in T : ~(<<q, s>> \in R)
    BY <2>1
  <2>3. ASSUME NEW x \in s PROVE s \ {x} \in G
    <3>1. s \ {x} \in SUBSET F /\ s \in SUBSET F /\ s \ {x} # s
      OBVIOUS
    <3>2. <<s \ {x}, s>> \in R
      BY <3>1 DEF StrictSubsetOrdering
    <3> QED
      BY <2>2, <3>1, <3>2, Zenon
  <2> QED
    BY <2>2, <2>3
<1> QED
  BY <1>3

(***************************************************************************)
(* Settings                                                                *)
(***************************************************************************)

Publishing == {p \in Publishers : publisher[p].pc \in {"archiving", "setting"}}
Publications ==
  [pc : {"archiving", "setting"}, it : Versions, found : SUBSET Versions,
   held : SUBSET Versions, late : BOOLEAN]
PublisherRequests ==
  {NoRequest} \cup [pc : {"making"}, it : Versions] \cup Publications
LoadRequests == {NoLoad} \cup [pc : {"reading", "read"}, cache : Caches, at : Nat]

SettingsTyped ==
  /\ status \in [Versions -> {"none", "DRAFT", "PUBLISHED", "ARCHIVED"}]
  /\ publisher \in [Publishers -> PublisherRequests]
  /\ cache \in [Caches -> [at : Nat, fresh : BOOLEAN]]
  /\ loader \in [Loaders -> LoadRequests]
  /\ published \in Nat /\ newest \in [Caches -> Nat] /\ overlapped \in BOOLEAN

\* Versions are numbered without a gap, and the next number is at most the one after.
Numbered ==
  \E n \in Nat :
    /\ Made = 1 .. n
    /\ \A p \in Publishers : publisher[p].pc = "making" => publisher[p].it <= n + 1

\* Whoever publishes has to do with versions that were made, and alone archives every
\* live one but its own.
Publication(p) ==
  publisher[p].pc \in {"archiving", "setting"} =>
    /\ publisher[p].it \in Made /\ publisher[p].found \subseteq Made
    /\ publisher[p].held \subseteq Made
    /\ publisher[p].late
         \/ Others(publisher[p].it) \subseteq
              IF publisher[p].pc = "setting" THEN publisher[p].held ELSE publisher[p].found

\* A reading is the only one of its copy, and sees no less than the copy has held.
OneReading ==
  /\ \A l, m \in Loaders :
       loader[l] # NoLoad /\ loader[m] # NoLoad /\ loader[l].cache = loader[m].cache => l = m
  /\ \A l \in Loaders : loader[l].pc = "read" =>
       loader[l].at <= published /\ newest[loader[l].cache] <= loader[l].at
  /\ \A k \in Caches : newest[k] <= published

SettingsInv ==
  /\ SettingsTyped /\ Numbered
  /\ Cardinality(Publishing) + published <= Cardinality(Publishers) + MaxPublished
  /\ \A p \in Publishers : Publication(p)
  /\ OneVersionLive
  /\ OneReading /\ SettingsMoveForward

LEMMA PublishersFinite ==
  /\ IsFiniteSet(Publishing) /\ Cardinality(Publishing) \in Nat
  /\ Cardinality(Publishers) \in Nat /\ Cardinality(Publishing) <= Cardinality(Publishers)
  BY SettingsAssumption, FS_Subset, FS_CardinalityType DEF Publishing

LEMMA PublicationTyped ==
  ASSUME SettingsInv, NEW p \in Publishers, publisher[p].pc \in {"archiving", "setting"}
  PROVE  publisher[p] \in Publications
<1>1. publisher[p] \in PublisherRequests
  BY DEF SettingsInv, SettingsTyped
<1>2. publisher[p] # NoRequest
  BY DEF NoRequest
<1>3. publisher[p] \notin [pc : {"making"}, it : Versions]
  OBVIOUS
<1> QED
  BY <1>1, <1>2, <1>3 DEF PublisherRequests

\* Versions numbered from one are counted by the last number.
LEMMA MadeCounted ==
  ASSUME NEW n \in Nat, Made = 1 .. n
  PROVE  Cardinality(Made) = n
  BY FS_Interval

\* At most one version is live if there is none but one.
LEMMA OneLive ==
  ASSUME NEW v, Live \subseteq {v}
  PROVE  Cardinality(Live) <= 1
<1>1. IsFiniteSet({v}) /\ Cardinality({v}) = 1
  BY FS_Singleton, Zenon
<1> QED
  BY <1>1, FS_Subset

\* A request that takes no publication nor leaves one leaves their number.
LEMMA SettingsShape == SettingsInv => SettingsTypeOK
<1> SUFFICES ASSUME SettingsInv PROVE SettingsTypeOK
  OBVIOUS
<1> USE DEF SettingsInv, SettingsTyped
<1>1. Made = 1 .. Cardinality(Made)
  BY MadeCounted DEF Numbered
<1>2. \A p \in Publishers : publisher[p].pc \in {"away", "making", "archiving", "setting"}
  BY DEF PublisherRequests, Publications, NoRequest
<1>3. \A l \in Loaders : loader[l].pc \in {"away", "reading", "read"}
  BY DEF LoadRequests, NoLoad
<1>4. \A k \in Caches : cache[k].at \in 0 .. published
  BY DEF OneReading, SettingsMoveForward, Caches
<1>5. cache \in [Caches -> [at : 0 .. published, fresh : BOOLEAN]]
  BY <1>4
<1>6. published \in 0 .. MaxPublished + Cardinality(Publishers)
  BY PublishersFinite, SettingsAssumption
<1> QED
  BY <1>1, <1>2, <1>3, <1>5, <1>6 DEF SettingsTypeOK

LEMMA SettingsBegin == SettingsInit => SettingsInv
<1> SUFFICES ASSUME SettingsInit PROVE SettingsInv
  OBVIOUS
<1> USE DEF SettingsInit
<1>1. SettingsTyped
  BY Zenon DEF SettingsTyped, PublisherRequests, LoadRequests, NoRequest, NoLoad, Caches
<1>2. Numbered
  <2>1. Made = 1 .. 0
    BY DEF Made
  <2> QED
    BY <2>1, Zenon DEF Numbered, NoRequest
<1>3. Publishing = {} /\ Live = {}
  BY DEF Publishing, Live, NoRequest
<1>4. Cardinality(Publishing) + published <= Cardinality(Publishers) + MaxPublished
  BY <1>3, FS_EmptySet, PublishersFinite, SettingsAssumption
<1>5. \A p \in Publishers : Publication(p)
  BY DEF Publication, NoRequest
<1>6. OneVersionLive
  BY <1>3, FS_EmptySet DEF OneVersionLive
<1>7. OneReading /\ SettingsMoveForward
  BY DEF OneReading, SettingsMoveForward, NoLoad, Caches
<1> QED
  BY <1>1, <1>2, <1>4, <1>5, <1>6, <1>7 DEF SettingsInv

\* Publications leave the copies alone, and readings the versions.
LEMMA CopiesStay ==
  ASSUME SettingsInv, UNCHANGED <<cache, loader, newest>>, published' \in Nat,
         published <= published'
  PROVE  OneReading' /\ SettingsMoveForward'
<1> USE DEF SettingsInv
<1>1. SettingsMoveForward'
  BY DEF SettingsMoveForward
<1>2. ASSUME NEW l \in Loaders, loader[l].pc = "read"
      PROVE  loader[l].at <= published' /\ newest[loader[l].cache] <= loader[l].at
  <2>1. loader[l].at \in Nat /\ published \in Nat
    BY <1>2 DEF SettingsTyped, LoadRequests, NoLoad
  <2> QED
    BY <1>2, <2>1 DEF OneReading
<1>3. ASSUME NEW k \in Caches PROVE newest[k] <= published'
  <2>1. newest[k] \in Nat /\ published \in Nat
    BY DEF SettingsTyped
  <2> QED
    BY <2>1 DEF OneReading
<1> QED
  BY <1>1, <1>2, <1>3 DEF OneReading

LEMMA VersionsStay ==
  ASSUME SettingsInv, UNCHANGED <<status, publisher, published, overlapped>>
  PROVE  /\ Numbered'
         /\ (Cardinality(Publishing) + published <= Cardinality(Publishers) + MaxPublished)'
         /\ \A p \in Publishers : Publication(p)'
         /\ OneVersionLive'
  BY DEF SettingsInv, Numbered, Made, Publishing, Publication, Others, Live, OneVersionLive

\* A request that takes up or lets go of no publication leaves their number.
LEMMA PublishingStays ==
  ASSUME SettingsInv, Publishing' \subseteq Publishing, published' = published
  PROVE  (Cardinality(Publishing) + published <= Cardinality(Publishers) + MaxPublished)'
<1>1. IsFiniteSet(Publishing') /\ Cardinality(Publishing') <= Cardinality(Publishing)
  BY PublishersFinite, FS_Subset
<1>2. Cardinality(Publishing') \in Nat /\ published \in Nat
  BY <1>1, FS_CardinalityType DEF SettingsInv, SettingsTyped
<1> QED
  BY <1>1, <1>2, PublishersFinite, SettingsAssumption DEF SettingsInv

\* What a request records of itself.
LEMMA PublisherMoves ==
  ASSUME SettingsInv, NEW p \in Publishers, NEW q \in PublisherRequests,
         publisher' = [publisher EXCEPT ![p] = q]
  PROVE  /\ publisher' \in [Publishers -> PublisherRequests]
         /\ publisher'[p] = q
         /\ \A s \in Publishers \ {p} : publisher'[s] = publisher[s]
  BY DEF SettingsInv, SettingsTyped

LEMMA VersionBegins ==
  ASSUME SettingsInv, NEW p \in Publishers, BeginVersion(p)
  PROVE  SettingsInv'
<1> DEFINE q == [pc |-> "making", it |-> Cardinality(Made) + 1]
<1>0. /\ publisher[p] = NoRequest /\ publisher' = [publisher EXCEPT ![p] = q]
      /\ Cardinality(Made) < MaxVersion
      /\ UNCHANGED <<status, published, cache, loader, newest, overlapped>>
  BY DEF BeginVersion
<1>1. PICK n \in Nat : /\ Made = 1 .. n
                       /\ \A s \in Publishers : publisher[s].pc = "making" =>
                            publisher[s].it <= n + 1
  BY DEF SettingsInv, Numbered
<1>2. Cardinality(Made) = n
  BY <1>1, MadeCounted
<1>3. q.pc = "making" /\ q.it = n + 1 /\ q \in PublisherRequests
  BY <1>0, <1>2, SettingsAssumption DEF PublisherRequests, Versions
<1> HIDE DEF q
<1>4. /\ publisher' \in [Publishers -> PublisherRequests] /\ publisher'[p] = q
      /\ \A s \in Publishers \ {p} : publisher'[s] = publisher[s]
  BY <1>0, <1>3, PublisherMoves, Zenon
<1>5. SettingsTyped'
  BY <1>0, <1>4 DEF SettingsInv, SettingsTyped
<1>6. Numbered'
  <2>1. Made' = 1 .. n
    BY <1>0, <1>1 DEF Made
  <2>2. ASSUME NEW s \in Publishers, publisher'[s].pc = "making"
        PROVE publisher'[s].it <= n + 1
    BY <1>1, <1>3, <1>4, <2>2
  <2> QED
    BY <2>1, <2>2 DEF Numbered
<1>7. Publishing' \subseteq Publishing
  BY <1>3, <1>4 DEF Publishing
<1>8. (Cardinality(Publishing) + published <= Cardinality(Publishers) + MaxPublished)'
  BY <1>0, <1>7, PublishingStays
<1>9. ASSUME NEW s \in Publishers PROVE Publication(s)'
  BY <1>0, <1>3, <1>4 DEF SettingsInv, Publication, Others, Live, Made
<1>10. OneVersionLive'
  BY <1>0 DEF SettingsInv, OneVersionLive, Live
<1>11. OneReading' /\ SettingsMoveForward'
  BY <1>0, CopiesStay DEF SettingsInv, SettingsTyped
<1> QED
  BY <1>5, <1>6, <1>8, <1>9, <1>10, <1>11 DEF SettingsInv

LEMMA VersionMade ==
  ASSUME SettingsInv, NEW p \in Publishers, MakeVersion(p)
  PROVE  SettingsInv'
<1> DEFINE v == publisher[p].it
<1>0. /\ publisher[p].pc = "making" /\ publisher' = [publisher EXCEPT ![p] = NoRequest]
      /\ status' = IF status[v] = "none" THEN [status EXCEPT ![v] = "DRAFT"] ELSE status
      /\ UNCHANGED <<published, cache, loader, newest, overlapped>>
  BY DEF MakeVersion
<1>1. PICK n \in Nat : /\ Made = 1 .. n
                       /\ \A s \in Publishers : publisher[s].pc = "making" =>
                            publisher[s].it <= n + 1
  BY DEF SettingsInv, Numbered
<1>2. v \in Versions /\ v \in Nat /\ v >= 1 /\ v <= n + 1
  BY <1>0, <1>1, SettingsAssumption
  DEF SettingsInv, SettingsTyped, PublisherRequests, Publications, NoRequest, Versions
<1>3. NoRequest \in PublisherRequests /\ NoRequest.pc = "away"
  BY DEF PublisherRequests, Publications, NoRequest
<1>4. /\ publisher' \in [Publishers -> PublisherRequests] /\ publisher'[p] = NoRequest
      /\ \A s \in Publishers \ {p} : publisher'[s] = publisher[s]
  BY <1>0, <1>3, PublisherMoves, Zenon
<1> HIDE DEF v
<1>5. /\ status' \in [Versions -> {"none", "DRAFT", "PUBLISHED", "ARCHIVED"}]
      /\ Live' = Live
      /\ Made' = Made \cup {v}
  BY <1>0, <1>2 DEF SettingsInv, SettingsTyped, Live, Made
<1>6. SettingsTyped'
  BY <1>0, <1>4, <1>5 DEF SettingsInv, SettingsTyped
<1>7. Numbered'
  <2>1. CASE v <= n
    <3>1. Made' = 1 .. n
      BY <1>1, <1>2, <1>5, <2>1
    <3> QED
      BY <1>1, <1>3, <1>4, <3>1 DEF Numbered
  <2>2. CASE v = n + 1
    <3>1. Made' = 1 .. n + 1 /\ n + 1 \in Nat
      BY <1>1, <1>2, <1>5, <2>2
    <3>2. ASSUME NEW s \in Publishers, publisher'[s].pc = "making"
          PROVE publisher'[s].it <= n + 1 + 1
      <4>1. publisher'[s].it \in Versions
        BY <1>4, <3>2 DEF PublisherRequests, Publications, NoRequest
      <4>2. publisher'[s].it <= n + 1
        BY <1>1, <1>3, <1>4, <3>2
      <4> QED
        BY <4>1, <4>2, SettingsAssumption DEF Versions
    <3> QED
      BY <3>1, <3>2 DEF Numbered
  <2> QED
    BY <1>2, <2>1, <2>2
<1>8. Publishing' \subseteq Publishing
  BY <1>3, <1>4 DEF Publishing
<1>9. (Cardinality(Publishing) + published <= Cardinality(Publishers) + MaxPublished)'
  BY <1>0, <1>8, PublishingStays
<1>10. ASSUME NEW s \in Publishers PROVE Publication(s)'
  BY <1>0, <1>3, <1>4, <1>5 DEF SettingsInv, Publication, Others
<1>11. OneVersionLive'
  BY <1>0, <1>5 DEF SettingsInv, OneVersionLive
<1>12. OneReading' /\ SettingsMoveForward'
  BY <1>0, CopiesStay DEF SettingsInv, SettingsTyped
<1> QED
  BY <1>6, <1>7, <1>9, <1>10, <1>11, <1>12 DEF SettingsInv

LEMMA PublicationBegins ==
  ASSUME SettingsInv, NEW p \in Publishers, NEW v \in Versions, BeginPublish(p, v)
  PROVE  SettingsInv'
<1> DEFINE q == [pc |-> "archiving", it |-> v, found |-> Others(v), held |-> {}, late |-> FALSE]
<1>0. /\ publisher[p] = NoRequest /\ publisher' = [publisher EXCEPT ![p] = q]
      /\ published < MaxPublished /\ v \in Made
      /\ UNCHANGED <<status, published, cache, loader, newest, overlapped>>
  BY DEF BeginPublish
<1>1. /\ q \in PublisherRequests /\ q.pc = "archiving" /\ q.it = v
      /\ q.found = Others(v) /\ q.found \subseteq Made /\ q.held = {}
  BY DEF PublisherRequests, Publications, Others, Live, Made
<1> HIDE DEF q
<1>2. /\ publisher' \in [Publishers -> PublisherRequests] /\ publisher'[p] = q
      /\ \A s \in Publishers \ {p} : publisher'[s] = publisher[s]
  BY <1>0, <1>1, PublisherMoves, Zenon
<1>3. SettingsTyped'
  BY <1>0, <1>2 DEF SettingsInv, SettingsTyped
<1>4. Numbered'
  BY <1>0, <1>1, <1>2 DEF SettingsInv, Numbered, Made
<1>5. (Cardinality(Publishing) + published <= Cardinality(Publishers) + MaxPublished)'
  <2>1. Publishing' \subseteq Publishers
    BY DEF Publishing
  <2>2. Cardinality(Publishing') <= Cardinality(Publishers) /\ Cardinality(Publishing') \in Nat
    BY <2>1, SettingsAssumption, FS_Subset, FS_CardinalityType
  <2>3. published \in Nat /\ Cardinality(Publishers) \in Nat
    BY PublishersFinite DEF SettingsInv, SettingsTyped
  <2> QED
    BY <1>0, <2>2, <2>3, SettingsAssumption
<1>6. ASSUME NEW s \in Publishers PROVE Publication(s)'
  BY <1>0, <1>1, <1>2 DEF SettingsInv, Publication, Others, Live, Made
<1>7. OneVersionLive'
  BY <1>0 DEF SettingsInv, OneVersionLive, Live
<1>8. OneReading' /\ SettingsMoveForward'
  BY <1>0, CopiesStay DEF SettingsInv, SettingsTyped
<1> QED
  BY <1>3, <1>4, <1>5, <1>6, <1>7, <1>8 DEF SettingsInv

LEMMA OthersArchived ==
  ASSUME SettingsInv, NEW p \in Publishers, ArchiveOthers(p)
  PROVE  SettingsInv'
<1> DEFINE q == [publisher[p] EXCEPT !.pc = "setting", !.held = publisher[p].found \cap Live]
<1>0. /\ publisher[p].pc = "archiving" /\ publisher' = [publisher EXCEPT ![p] = q]
      /\ UNCHANGED <<status, published, cache, loader, newest, overlapped>>
  BY Zenon DEF ArchiveOthers, SettingsInv, SettingsTyped
<1>1. /\ q \in PublisherRequests /\ q.pc = "setting" /\ q.it = publisher[p].it
      /\ q.held = publisher[p].found \cap Live /\ q.late = publisher[p].late
      /\ q.found = publisher[p].found
  <2>1. publisher[p] \in Publications
    BY <1>0, PublicationTyped
  <2> QED
    BY <2>1, Zenon DEF Publications, PublisherRequests
<1> HIDE DEF q
<1>2. /\ publisher' \in [Publishers -> PublisherRequests] /\ publisher'[p] = q
      /\ \A s \in Publishers \ {p} : publisher'[s] = publisher[s]
  BY <1>0, <1>1, PublisherMoves, Zenon
<1>3. SettingsTyped'
  BY <1>0, <1>2 DEF SettingsInv, SettingsTyped
<1>4. Numbered'
  BY <1>0, <1>1, <1>2 DEF SettingsInv, Numbered, Made
<1>5. Publishing' \subseteq Publishing
  BY <1>0, <1>2 DEF Publishing
<1>6. (Cardinality(Publishing) + published <= Cardinality(Publishers) + MaxPublished)'
  BY <1>0, <1>5, PublishingStays
<1>7. ASSUME NEW s \in Publishers PROVE Publication(s)'
  <2>1. CASE s # p
    BY <1>0, <1>2, <2>1 DEF SettingsInv, Publication, Others, Live, Made
  <2>2. CASE s = p
    BY <1>0, <1>1, <1>2, <2>2 DEF SettingsInv, Publication, Others, Live, Made
  <2> QED
    BY <2>1, <2>2
<1>8. OneVersionLive'
  BY <1>0 DEF SettingsInv, OneVersionLive, Live
<1>9. OneReading' /\ SettingsMoveForward'
  BY <1>0, CopiesStay DEF SettingsInv, SettingsTyped
<1> QED
  BY <1>3, <1>4, <1>6, <1>7, <1>8, <1>9 DEF SettingsInv

\* The commit of a publication: it alone is live, unless another one was under way.
LEMMA VersionPublished ==
  ASSUME SettingsInv, NEW p \in Publishers, SetPublished(p)
  PROVE  SettingsInv'
<1> DEFINE r == publisher[p]
<1>0. /\ r.pc = "setting"
      /\ status' = [v \in Versions |->
           IF v = r.it THEN "PUBLISHED" ELSE IF v \in r.held THEN "ARCHIVED" ELSE status[v]]
      /\ published' = published + 1 /\ overlapped' = r.late
      /\ publisher' = [q \in Publishers |->
           IF q = p THEN NoRequest
           ELSE IF publisher[q].pc \in {"archiving", "setting"}
                  THEN [publisher[q] EXCEPT !.late = TRUE]
           ELSE publisher[q]]
      /\ UNCHANGED <<cache, loader, newest>>
  BY DEF SetPublished
<1>1. r.it \in Versions /\ r.held \subseteq Versions /\ r.late \in BOOLEAN
  BY <1>0, PublicationTyped DEF Publications
<1>2. /\ r.it \in Made /\ r.held \subseteq Made
      /\ r.late \/ Live \ {r.it} \subseteq r.held
  BY <1>0 DEF SettingsInv, Publication, Others
<1> HIDE DEF r
<1>3. /\ status' \in [Versions -> {"none", "DRAFT", "PUBLISHED", "ARCHIVED"}]
      /\ r.it \in Live'
      /\ Live' \subseteq (Live \ r.held) \cup {r.it}
  BY <1>0, <1>1 DEF SettingsInv, SettingsTyped, Live
<1>4. ASSUME NEW q \in Publishers
      PROVE  /\ publisher'[q] \in PublisherRequests
             /\ publisher'[q].pc # "away" => q # p /\ publisher'[q].pc = publisher[q].pc
             /\ publisher'[q].pc = "making" => publisher'[q] = publisher[q]
             /\ publisher'[q].pc \in {"archiving", "setting"} =>
                  /\ publisher'[q].late /\ publisher'[q].it = publisher[q].it
                  /\ publisher'[q].found = publisher[q].found
                  /\ publisher'[q].held = publisher[q].held
  <2>1. CASE q = p
    BY <1>0, <2>1 DEF NoRequest, PublisherRequests
  <2>2. CASE q # p /\ publisher[q].pc \in {"archiving", "setting"}
    <3>1. publisher'[q] = [publisher[q] EXCEPT !.late = TRUE]
      BY <1>0, <2>2
    <3>2. publisher[q] \in Publications
      BY <2>2, PublicationTyped
    <3> QED
      BY <2>2, <3>1, <3>2, Zenon DEF Publications, PublisherRequests
  <2>3. CASE q # p /\ publisher[q].pc \notin {"archiving", "setting"}
    <3>1. publisher'[q] = publisher[q]
      BY <1>0, <2>3
    <3> QED
      BY <2>3, <3>1 DEF SettingsInv, SettingsTyped
  <2> QED
    BY <2>1, <2>2, <2>3
<1>5. publisher' \in [Publishers -> PublisherRequests]
  BY <1>0, <1>4
<1>6. published \in Nat /\ published' \in Nat /\ published <= published'
  BY <1>0 DEF SettingsInv, SettingsTyped
<1>7. SettingsTyped'
  BY <1>0, <1>1, <1>3, <1>5, <1>6 DEF SettingsInv, SettingsTyped
<1>8. Made' = Made
  BY <1>0, <1>2 DEF Made
<1>13. Numbered'
  BY <1>4, <1>8 DEF SettingsInv, Numbered
<1>9. (Cardinality(Publishing) + published <= Cardinality(Publishers) + MaxPublished)'
  <2>1. p \in Publishing /\ Publishing' \subseteq Publishing \ {p}
    BY <1>0, <1>4, Zenon DEF Publishing, r
  <2>2. /\ IsFiniteSet(Publishing \ {p})
        /\ Cardinality(Publishing \ {p}) = Cardinality(Publishing) - 1
    BY <2>1, PublishersFinite, FS_RemoveElement
  <2>3. /\ Cardinality(Publishing') <= Cardinality(Publishing) - 1
        /\ Cardinality(Publishing') \in Nat
    BY <2>1, <2>2, FS_Subset, FS_CardinalityType
  <2> QED
    BY <1>0, <1>6, <2>3, PublishersFinite, SettingsAssumption DEF SettingsInv
<1>10. ASSUME NEW q \in Publishers PROVE Publication(q)'
  BY <1>4, <1>8 DEF SettingsInv, Publication
<1>11. OneVersionLive'
  <2>1. overlapped' \/ Cardinality(Live') <= 1
    <3>1. CASE r.late
      BY <1>0, <3>1
    <3>2. CASE ~r.late
      <4>1. Live' \subseteq {r.it}
        BY <1>2, <1>3, <3>2
      <4>2. IsFiniteSet({r.it}) /\ Cardinality({r.it}) = 1
        BY FS_Singleton, Zenon
      <4>3. Cardinality(Live') <= 1
        BY <4>1, <4>2, FS_Subset
      <4> QED
        BY <4>3
    <3> QED
      BY <3>1, <3>2
  <2>2. Live' # {}
    BY <1>3
  <2> QED
    BY <2>1, <2>2 DEF OneVersionLive
<1>12. OneReading' /\ SettingsMoveForward'
  BY <1>0, <1>6, CopiesStay
<1> QED
  BY <1>7, <1>9, <1>10, <1>11, <1>12, <1>13 DEF SettingsInv

LEMMA PublicationFails ==
  ASSUME SettingsInv, NEW p \in Publishers, FailPublish(p)
  PROVE  SettingsInv'
<1>0. /\ publisher' = [publisher EXCEPT ![p] = NoRequest]
      /\ UNCHANGED <<status, published, cache, loader, newest, overlapped>>
  BY DEF FailPublish
<1>1. NoRequest \in PublisherRequests /\ NoRequest.pc = "away"
  BY DEF PublisherRequests, NoRequest
<1>2. /\ publisher' \in [Publishers -> PublisherRequests] /\ publisher'[p] = NoRequest
      /\ \A s \in Publishers \ {p} : publisher'[s] = publisher[s]
  BY <1>0, <1>1, PublisherMoves, Zenon
<1>3. SettingsTyped'
  BY <1>0, <1>2 DEF SettingsInv, SettingsTyped
<1>4. Numbered'
  BY <1>0, <1>1, <1>2 DEF SettingsInv, Numbered, Made
<1>5. Publishing' \subseteq Publishing
  BY <1>1, <1>2 DEF Publishing
<1>6. (Cardinality(Publishing) + published <= Cardinality(Publishers) + MaxPublished)'
  BY <1>0, <1>5, PublishingStays
<1>7. ASSUME NEW s \in Publishers PROVE Publication(s)'
  BY <1>0, <1>1, <1>2 DEF SettingsInv, Publication, Others, Live, Made
<1>8. OneVersionLive'
  BY <1>0 DEF SettingsInv, OneVersionLive, Live
<1>9. OneReading' /\ SettingsMoveForward'
  BY <1>0, CopiesStay DEF SettingsInv, SettingsTyped
<1> QED
  BY <1>3, <1>4, <1>6, <1>7, <1>8, <1>9 DEF SettingsInv

\* What is known of a reading.
LEMMA LoadTyped ==
  ASSUME SettingsInv, NEW l \in Loaders
  PROVE  /\ loader[l] = NoLoad <=> loader[l].pc = "away"
         /\ loader[l] # NoLoad =>
              loader[l] \in [pc : {"reading", "read"}, cache : Caches, at : Nat]
         /\ \A k \in Caches : cache[k] \in [at : Nat, fresh : BOOLEAN] /\ newest[k] \in Nat
         /\ published \in Nat
  BY DEF SettingsInv, SettingsTyped, LoadRequests, NoLoad

LEMMA CopyStep ==
  ASSUME SettingsInv, UNCHANGED <<status, publisher, published, overlapped>>,
         cache' \in [Caches -> [at : Nat, fresh : BOOLEAN]],
         loader' \in [Loaders -> LoadRequests], newest' \in [Caches -> Nat],
         OneReading', SettingsMoveForward'
  PROVE  SettingsInv'
  BY VersionsStay DEF SettingsInv, SettingsTyped

LEMMA LoadBegins ==
  ASSUME SettingsInv, NEW l \in Loaders, NEW k \in Caches, BeginLoad(l, k)
  PROVE  SettingsInv'
<1> DEFINE q == [pc |-> "reading", cache |-> k, at |-> 0]
<1>0. /\ ~Loading(k) /\ loader' = [loader EXCEPT ![l] = q]
      /\ UNCHANGED <<status, publisher, published, cache, newest, overlapped>>
  BY DEF BeginLoad
<1>1. q \in LoadRequests /\ q.cache = k /\ q.pc = "reading"
  BY DEF LoadRequests
<1> HIDE DEF q
<1>2. /\ loader' \in [Loaders -> LoadRequests] /\ loader'[l] = q
      /\ \A m \in Loaders \ {l} : loader'[m] = loader[m]
  BY <1>0, <1>1 DEF SettingsInv, SettingsTyped
<1>3. \A m \in Loaders : loader[m] # NoLoad => loader[m].cache # k
  BY <1>0 DEF Loading
<1>4. OneReading'
  BY <1>0, <1>1, <1>2, <1>3 DEF SettingsInv, OneReading
<1> QED
  BY <1>0, <1>2, <1>4, CopyStep DEF SettingsInv, SettingsTyped, SettingsMoveForward

LEMMA LoadReads ==
  ASSUME SettingsInv, NEW l \in Loaders, Read(l)
  PROVE  SettingsInv'
<1> DEFINE q == [loader[l] EXCEPT !.pc = "read", !.at = published]
<1>0. /\ loader[l].pc = "reading" /\ loader' = [loader EXCEPT ![l] = q]
      /\ UNCHANGED <<status, publisher, published, cache, newest, overlapped>>
  BY Zenon DEF Read, SettingsInv, SettingsTyped
<1>1. /\ loader[l] # NoLoad /\ loader[l].cache \in Caches
      /\ q \in LoadRequests /\ q.cache = loader[l].cache /\ q.pc = "read"
      /\ q.at = published /\ published \in Nat
  BY <1>0, LoadTyped, Zenon DEF LoadRequests
<1> HIDE DEF q
<1>2. /\ loader' \in [Loaders -> LoadRequests] /\ loader'[l] = q
      /\ \A m \in Loaders \ {l} : loader'[m] = loader[m]
  BY <1>0, <1>1 DEF SettingsInv, SettingsTyped
<1>3. OneReading'
  <2>1. ASSUME NEW m \in Loaders, NEW n \in Loaders, loader'[m] # NoLoad, loader'[n] # NoLoad,
               loader'[m].cache = loader'[n].cache
        PROVE  m = n
    BY <1>1, <1>2, <2>1 DEF SettingsInv, OneReading
  <2>2. ASSUME NEW m \in Loaders, loader'[m].pc = "read"
        PROVE  loader'[m].at <= published' /\ newest'[loader'[m].cache] <= loader'[m].at
    BY <1>0, <1>1, <1>2, <2>2 DEF SettingsInv, OneReading
  <2> QED
    BY <1>0, <2>1, <2>2 DEF SettingsInv, OneReading
<1> QED
  BY <1>0, <1>2, <1>3, CopyStep DEF SettingsInv, SettingsTyped, SettingsMoveForward

\* The loader that ends leaves the others what they know.
LEMMA LoadEnds ==
  ASSUME SettingsInv, NEW l \in Loaders, loader[l] # NoLoad,
         loader' = [loader EXCEPT ![l] = NoLoad], published' = published,
         newest' \in [Caches -> Nat],
         \A k \in Caches : newest'[k] <= published,
         \A k \in Caches : k # loader[l].cache => newest'[k] = newest[k]
  PROVE  loader' \in [Loaders -> LoadRequests] /\ OneReading'
<1>1. NoLoad \in LoadRequests /\ NoLoad.pc = "away"
  BY DEF LoadRequests, NoLoad
<1>2. /\ loader' \in [Loaders -> LoadRequests] /\ loader'[l] = NoLoad
      /\ \A m \in Loaders \ {l} : loader'[m] = loader[m]
  BY <1>1 DEF SettingsInv, SettingsTyped
<1>3. ASSUME NEW m \in Loaders, loader'[m].pc = "read"
      PROVE  loader'[m].at <= published' /\ newest'[loader'[m].cache] <= loader'[m].at
  <2>1. m # l /\ loader'[m] = loader[m] /\ loader[m].pc = "read"
    BY <1>1, <1>2, <1>3
  <2>2. loader[m] # NoLoad /\ loader[m].cache \in Caches
    BY <2>1, LoadTyped DEF NoLoad
  <2>3. loader[m].cache # loader[l].cache
    BY <2>1, <2>2 DEF SettingsInv, OneReading
  <2> QED
    BY <2>1, <2>2, <2>3 DEF SettingsInv, OneReading
<1>4. ASSUME NEW m \in Loaders, NEW n \in Loaders, loader'[m] # NoLoad, loader'[n] # NoLoad,
             loader'[m].cache = loader'[n].cache
      PROVE  m = n
  BY <1>2, <1>4 DEF SettingsInv, OneReading
<1> QED
  BY <1>2, <1>3, <1>4 DEF OneReading

LEMMA LoadStored ==
  ASSUME SettingsInv, NEW l \in Loaders, Store(l)
  PROVE  SettingsInv'
<1> DEFINE k == loader[l].cache
           n == loader[l].at
<1>0. /\ loader[l].pc = "read"
      /\ cache' = [cache EXCEPT ![k] = [at |-> n, fresh |-> TRUE]]
      /\ newest' = [newest EXCEPT ![k] = LargerOf(@, n)]
      /\ loader' = [loader EXCEPT ![l] = NoLoad]
      /\ UNCHANGED <<status, publisher, published, overlapped>>
  BY DEF Store
<1>1. loader[l] # NoLoad /\ k \in Caches /\ n \in Nat
  BY <1>0, LoadTyped DEF NoLoad
<1>2. n <= published /\ newest[k] <= n /\ newest[k] \in Nat
  BY <1>0, <1>1, LoadTyped DEF SettingsInv, OneReading
<1> HIDE DEF k, n
<1>3. LargerOf(newest[k], n) = n
  BY <1>1, <1>2 DEF LargerOf
<1>4. /\ newest' \in [Caches -> Nat] /\ newest'[k] = n
      /\ \A j \in Caches \ {k} : newest'[j] = newest[j]
  BY <1>0, <1>1, <1>3 DEF SettingsInv, SettingsTyped
<1>5. /\ cache' \in [Caches -> [at : Nat, fresh : BOOLEAN]] /\ cache'[k].at = n
      /\ \A j \in Caches \ {k} : cache'[j] = cache[j]
  BY <1>0, <1>1 DEF SettingsInv, SettingsTyped
<1>6. \A j \in Caches : newest'[j] <= published
  BY <1>2, <1>4 DEF SettingsInv, OneReading
<1>7. loader' \in [Loaders -> LoadRequests] /\ OneReading'
  BY <1>0, <1>1, <1>4, <1>6, LoadEnds, Zenon DEF k
<1>8. SettingsMoveForward'
  BY <1>1, <1>4, <1>5 DEF SettingsInv, SettingsMoveForward, Caches
<1> QED
  BY <1>0, <1>4, <1>5, <1>7, <1>8, CopyStep

LEMMA LoadFails ==
  ASSUME SettingsInv, NEW l \in Loaders, FailLoad(l)
  PROVE  SettingsInv'
<1> DEFINE k == loader[l].cache
<1>0. /\ loader[l].pc = "reading"
      /\ cache' = IF k = "print" THEN [cache EXCEPT ![k] = [at |-> 0, fresh |-> TRUE]]
                  ELSE cache
      /\ loader' = [loader EXCEPT ![l] = NoLoad]
      /\ UNCHANGED <<status, publisher, published, newest, overlapped>>
  BY DEF FailLoad
<1>1. loader[l] # NoLoad /\ k \in Caches
  BY <1>0, LoadTyped DEF NoLoad
<1>2. loader' \in [Loaders -> LoadRequests] /\ OneReading'
  BY <1>0, <1>1, LoadEnds, Zenon DEF SettingsInv, SettingsTyped, OneReading
<1> HIDE DEF k
<1>3. cache' \in [Caches -> [at : Nat, fresh : BOOLEAN]] /\ SettingsMoveForward'
  <2>1. CASE k = "print"
    <3>1. /\ cache' \in [Caches -> [at : Nat, fresh : BOOLEAN]] /\ cache'["print"].at = 0
          /\ cache'["site"] = cache["site"]
      BY <1>0, <2>1 DEF SettingsInv, SettingsTyped, Caches
    <3> QED
      BY <1>0, <3>1 DEF SettingsInv, SettingsMoveForward
  <2>2. CASE k # "print"
    BY <1>0, <2>2 DEF SettingsInv, SettingsTyped, SettingsMoveForward
  <2> QED
    BY <2>1, <2>2
<1> QED
  BY <1>0, <1>2, <1>3, CopyStep DEF SettingsInv, SettingsTyped

LEMMA CopyAges ==
  ASSUME SettingsInv, NEW k \in Caches, GrowStale(k)
  PROVE  SettingsInv'
<1>0. /\ cache' = [cache EXCEPT ![k].fresh = FALSE]
      /\ UNCHANGED <<status, publisher, published, loader, newest, overlapped>>
  BY DEF GrowStale
<1>1. /\ cache' \in [Caches -> [at : Nat, fresh : BOOLEAN]]
      /\ \A j \in Caches : cache'[j].at = cache[j].at
  BY <1>0, Zenon DEF SettingsInv, SettingsTyped
<1>2. SettingsMoveForward'
  BY <1>0, <1>1 DEF SettingsInv, SettingsMoveForward, Caches
<1> QED
  BY <1>0, <1>1, <1>2, CopyStep DEF SettingsInv, SettingsTyped, OneReading

LEMMA SettingsStep == SettingsInv /\ [SettingsNext]_svars => SettingsInv'
<1>1. CASE UNCHANGED svars
  BY <1>1 DEF svars, SettingsInv, SettingsTyped, Numbered, Made, Publishing, Publication, Others,
              Live, OneVersionLive, OneReading, SettingsMoveForward
<1> QED
  BY <1>1, VersionBegins, VersionMade, PublicationBegins, OthersArchived, VersionPublished,
     PublicationFails, LoadBegins, LoadReads, LoadStored, LoadFails, CopyAges
  DEF SettingsNext

(***************************************************************************)
(* ContentTree                                                             *)
(***************************************************************************)

EditorSteps ==
  {"away", "creatingTopic", "walking", "moving", "deletingTopic", "deletingSubject",
   "creatingQuestion", "placingQuestion"}
EditorRequests ==
  [pc : EditorSteps, it : Subjects \cup Topics \cup Questions \cup {None},
   subject : Subjects \cup {None}, topic : Topics \cup {None}, cursor : Topics \cup {None},
   steps : Nat, checked : BOOLEAN]
TopicRows ==
  [there : {"never", "yes", "gone"}, subject : Subjects \cup {None}, parent : Topics \cup {None}]
QuestionRows ==
  [there : {"never", "yes", "gone"}, subject : Subjects \cup {None}, topic : Topics \cup {None}]

TreeTyped ==
  /\ topic \in [Topics -> TopicRows] /\ question \in [Questions -> QuestionRows]
  /\ editor \in [Editors -> EditorRequests]

\* A topic that was there has been of one subject all the time.
Fits(t, s) ==
  t \in Topics /\ topic[t].there # "never" /\ (topic[t].there = "yes" => topic[t].subject = s)

\* What a request has found out and will not look at again is still so, as far as the rows
\* are there, and what a deletion did not count is late.
Sound(c) ==
  /\ c.pc \in {"creatingTopic", "creatingQuestion"} =>
       c.subject \in Subjects /\ (c.topic # None => Fits(c.topic, c.subject))
  /\ c.pc = "creatingTopic" => c.it \in Topics /\ topic[c.it].there = "never"
  /\ c.pc = "creatingQuestion" => c.it \in Questions /\ question[c.it].there = "never"
  /\ c.pc \in {"walking", "moving"} =>
       /\ c.it \in Topics /\ topic[c.it].there # "never"
       /\ c.topic \in Topics /\ topic[c.topic].there # "never"
       /\ topic[c.it].there = "yes" /\ topic[c.topic].there = "yes" =>
            topic[c.it].subject = topic[c.topic].subject
  /\ c.pc = "deletingTopic" =>
       /\ c.it \in Topics
       /\ \A x \in LiveTopics : topic[x].parent = c.it => x \in late
       /\ \A q \in LiveQuestions : question[q].topic = c.it => q \in late
  /\ c.pc = "deletingSubject" =>
       /\ c.it \in Subjects
       /\ \A x \in LiveTopics : topic[x].subject = c.it => x \in late
       /\ \A q \in LiveQuestions :
            question[q].subject = c.it \/ question[q].topic \in TopicsOf(c.it) => q \in late
  /\ c.pc = "placingQuestion" =>
       /\ c.it \in Questions /\ question[c.it].there # "never"
       /\ c.checked =>
            /\ c.subject = None /\ c.topic \in Topics /\ topic[c.topic].there # "never"
            /\ c.it \in LiveQuestions \ unplaced /\ c.topic \in LiveTopics =>
                 topic[c.topic].subject = question[c.it].subject

\* No two requests create the same row.
Apart ==
  \A d, e \in Editors :
    /\ editor[d].pc \in {"creatingTopic", "creatingQuestion"} /\ editor[d].pc = editor[e].pc
    /\ editor[d].it = editor[e].it
    => d = e

TreeInv ==
  /\ TreeTyped /\ ContentTreeTypeOK
  /\ \A e \in Editors : Sound(editor[e])
  /\ Apart
  /\ QuestionTopicInSubject /\ NothingUsedIsTaken

LEMMA EmptyRows ==
  /\ NoTopic \in TopicRows /\ GoneTopic \in TopicRows
  /\ NoTopic.there = "never" /\ GoneTopic.there = "gone"
  /\ NoQuestion \in QuestionRows /\ GoneQuestion \in QuestionRows
  /\ NoQuestion.there = "never" /\ GoneQuestion.there = "gone"
  /\ NoEditor \in EditorRequests /\ NoEditor.pc = "away" /\ NoEditor.it = None
  BY DEF NoTopic, GoneTopic, NoQuestion, GoneQuestion, NoEditor, TopicRows, QuestionRows,
         EditorRequests, EditorSteps

LEMMA TreeBegins == ContentTreeInit => TreeInv
<1> SUFFICES ASSUME ContentTreeInit PROVE TreeInv
  OBVIOUS
<1>1. PICK s \in Subjects, there \in SUBSET Topics \ {Topics} :
        topic = [t \in Topics |->
                  IF t \in there THEN [there |-> "yes", subject |-> s, parent |-> None]
                  ELSE NoTopic]
  BY DEF ContentTreeInit
<1>2. TreeTyped
  BY <1>1, EmptyRows DEF ContentTreeInit, TreeTyped, TopicRows
<1>3. ASSUME NEW t \in Topics
      PROVE  \/ topic[t] = NoTopic
             \/ topic[t].there = "yes" /\ topic[t].subject = s /\ topic[t].parent = None
  BY <1>1
<1>4. LiveQuestions = {}
  BY EmptyRows DEF ContentTreeInit, LiveQuestions
<1>5. ContentTreeTypeOK
  <2>1. calls \in 0 .. MaxCalls
    BY ContentTreeAssumption DEF ContentTreeInit
  <2> QED
    BY <1>3, <2>1, EmptyRows DEF ContentTreeInit, ContentTreeTypeOK
<1>6. \A e \in Editors : Sound(editor[e])
  BY EmptyRows DEF ContentTreeInit, Sound
<1>7. Apart
  BY EmptyRows DEF ContentTreeInit, Apart
<1>8. QuestionTopicInSubject /\ NothingUsedIsTaken
  BY <1>4 DEF ContentTreeInit, QuestionTopicInSubject, NothingUsedIsTaken
<1> QED
  BY <1>2, <1>5, <1>6, <1>7, <1>8 DEF TreeInv

\* A request that begins or goes on leaves the rows alone; it is enough that it is sound.
LEMMA EditorMoves ==
  ASSUME TreeInv, NEW e \in Editors, NEW c \in EditorRequests, Sound(c),
         editor' = [editor EXCEPT ![e] = c],
         c.pc \in {"creatingTopic", "creatingQuestion"} =>
           \A d \in Editors : editor[d].it # c.it,
         calls' \in 0 .. MaxCalls,
         UNCHANGED <<subjects, topic, question, crossed, unplaced, late, bereft>>
  PROVE  TreeInv'
<1>1. /\ editor' \in [Editors -> EditorRequests] /\ editor'[e] = c
      /\ \A d \in Editors \ {e} : editor'[d] = editor[d]
  BY DEF TreeInv, TreeTyped
<1>2. TreeTyped'
  BY <1>1 DEF TreeInv, TreeTyped
<1>3. \A d \in Editors : editor'[d].pc \in EditorSteps
  BY <1>1 DEF EditorRequests
<1>4. ContentTreeTypeOK'
  BY <1>3 DEF TreeInv, ContentTreeTypeOK, EditorSteps, LiveTopics
<1>5. Sound(c)'
  BY DEF Sound, Fits, LiveTopics, LiveQuestions, TopicsOf
<1>6. ASSUME NEW d \in Editors, d # e PROVE Sound(editor[d])'
  BY <1>1, <1>6 DEF TreeInv, Sound, Fits, LiveTopics, LiveQuestions, TopicsOf
<1>7. Apart'
  BY <1>1 DEF TreeInv, Apart
<1>8. QuestionTopicInSubject' /\ NothingUsedIsTaken'
  BY DEF TreeInv, QuestionTopicInSubject, NothingUsedIsTaken, LiveQuestions
<1> QED
  BY <1>1, <1>2, <1>4, <1>5, <1>6, <1>7, <1>8 DEF TreeInv

\* The rows that are there, and what they are linked to.
LEMMA RowsLinked ==
  ASSUME TreeInv
  PROVE  /\ \A t \in LiveTopics : /\ topic[t].subject \in subjects /\ topic[t].subject \in Subjects
                                  /\ topic[t].parent \in LiveTopics \cup {None}
                                  /\ topic[t].parent # None =>
                                       topic[topic[t].parent].subject = topic[t].subject
         /\ \A q \in LiveQuestions : /\ question[q].subject \in subjects
                                     /\ question[q].subject \in Subjects
                                     /\ question[q].topic \in LiveTopics \cup {None}
         /\ LiveTopics \subseteq Topics /\ LiveQuestions \subseteq Questions
         /\ subjects \subseteq Subjects
         /\ None \notin Subjects /\ None \notin Topics /\ None \notin Questions
  BY ContentTreeAssumption, EmptyRows
  DEF TreeInv, ContentTreeTypeOK, LiveTopics, LiveQuestions

LEMMA CallsLeft ==
  ASSUME TreeInv
  PROVE  /\ calls \in 0 .. MaxCalls
         /\ calls > 0 => calls - 1 \in 0 .. MaxCalls
  BY ContentTreeAssumption DEF TreeInv, ContentTreeTypeOK

LEMMA TopicCreationBegins ==
  ASSUME TreeInv, NEW e \in Editors, NEW t \in Topics, NEW s \in Subjects,
         NEW p \in Topics \cup {None}, BeginCreateTopic(e, t, s, p)
  PROVE  TreeInv'
<1> DEFINE c == [NoEditor EXCEPT !.pc = "creatingTopic", !.it = t, !.subject = s, !.topic = p]
<1>1. /\ topic[t] = NoTopic /\ ~BeingMade(t) /\ (p # None => IsParent(p, s))
      /\ calls > 0 /\ calls' = calls - 1 /\ editor' = [editor EXCEPT ![e] = c]
      /\ UNCHANGED <<subjects, topic, question, crossed, unplaced, late, bereft>>
  BY DEF BeginCreateTopic, Call
<1>2. /\ c \in EditorRequests /\ c.pc = "creatingTopic" /\ c.it = t /\ c.subject = s
      /\ c.topic = p
  BY Zenon DEF NoEditor, EditorRequests, EditorSteps
<1> HIDE DEF c
<1>3. Sound(c)
  BY <1>1, <1>2, EmptyRows DEF Sound, Fits, IsParent, LiveTopics
<1> QED
  BY <1>1, <1>2, <1>3, CallsLeft, EditorMoves, Zenon DEF BeingMade

LEMMA MoveBegins ==
  ASSUME TreeInv, NEW e \in Editors, NEW t \in Topics, NEW p \in Topics, BeginMoveTopic(e, t, p)
  PROVE  TreeInv'
<1> DEFINE c == [NoEditor EXCEPT !.pc = "walking", !.it = t, !.topic = p, !.cursor = p]
<1>1. /\ t \in LiveTopics /\ IsParent(p, topic[t].subject)
      /\ calls > 0 /\ calls' = calls - 1 /\ editor' = [editor EXCEPT ![e] = c]
      /\ UNCHANGED <<subjects, topic, question, crossed, unplaced, late, bereft>>
  BY DEF BeginMoveTopic, Call
<1>2. c \in EditorRequests /\ c.pc = "walking" /\ c.it = t /\ c.topic = p
  BY Zenon DEF NoEditor, EditorRequests, EditorSteps
<1> HIDE DEF c
<1>3. Sound(c)
  BY <1>1, <1>2 DEF Sound, IsParent, LiveTopics
<1> QED
  BY <1>1, <1>2, <1>3, CallsLeft, EditorMoves, Zenon

LEMMA WalkGoesUp ==
  ASSUME TreeInv, NEW e \in Editors, WalkUp(e)
  PROVE  TreeInv'
<1> DEFINE c == editor[e]
           above == ReadParent(c.cursor)
           d == [c EXCEPT !.pc = IF above = None THEN "moving" ELSE "walking",
                          !.cursor = above, !.steps = @ + 1]
<1>1. /\ c.pc = "walking"
      /\ editor' = [editor EXCEPT ![e] = NoEditor] \/ editor' = [editor EXCEPT ![e] = d]
      /\ UNCHANGED <<subjects, topic, question, calls, crossed, unplaced, late, bereft>>
  BY DEF WalkUp, EndCall, GoOnAs
<1>2. c \in EditorRequests /\ Sound(c)
  BY DEF TreeInv, TreeTyped
<1>3. above \in Topics \cup {None}
  BY RowsLinked DEF ReadParent, ParentOf
<1> HIDE DEF c, above
<1>4. /\ d \in EditorRequests /\ d.pc \in {"walking", "moving"}
      /\ d.it = c.it /\ d.topic = c.topic
  <2>1. c.steps + 1 \in Nat
    BY <1>2 DEF EditorRequests
  <2>2. CASE above = None
    BY <1>2, <1>3, <2>1, <2>2, Zenon DEF EditorRequests, EditorSteps
  <2>3. CASE above # None
    BY <1>2, <1>3, <2>1, <2>3, Zenon DEF EditorRequests, EditorSteps
  <2> QED
    BY <2>2, <2>3
<1> HIDE DEF d
<1>5. Sound(d) /\ Sound(NoEditor)
  BY <1>1, <1>2, <1>4, EmptyRows DEF Sound
<1>6. d.pc \notin {"creatingTopic", "creatingQuestion"}
  BY <1>4
<1>7. CASE editor' = [editor EXCEPT ![e] = d]
  BY <1>1, <1>4, <1>5, <1>6, <1>7, CallsLeft, EditorMoves, Zenon
<1>8. CASE editor' = [editor EXCEPT ![e] = NoEditor]
  BY <1>1, <1>5, <1>8, EmptyRows, CallsLeft, EditorMoves, Zenon
<1> QED
  BY <1>1, <1>7, <1>8

LEMMA TopicDeletionBegins ==
  ASSUME TreeInv, NEW e \in Editors, NEW t \in Topics, BeginDeleteTopic(e, t)
  PROVE  TreeInv'
<1> DEFINE c == [NoEditor EXCEPT !.pc = "deletingTopic", !.it = t]
<1>1. /\ ChildrenOf(t) = {} /\ QuestionsUnder(t) = {}
      /\ calls > 0 /\ calls' = calls - 1 /\ editor' = [editor EXCEPT ![e] = c]
      /\ UNCHANGED <<subjects, topic, question, crossed, unplaced, late, bereft>>
  BY DEF BeginDeleteTopic, Call
<1>2. c \in EditorRequests /\ c.pc = "deletingTopic" /\ c.it = t
  BY Zenon DEF NoEditor, EditorRequests, EditorSteps
<1> HIDE DEF c
<1>3. Sound(c)
  BY <1>1, <1>2 DEF Sound, ChildrenOf, QuestionsUnder
<1> QED
  BY <1>1, <1>2, <1>3, CallsLeft, EditorMoves, Zenon

LEMMA SubjectDeletionBegins ==
  ASSUME TreeInv, NEW e \in Editors, NEW s \in Subjects, BeginDeleteSubject(e, s)
  PROVE  TreeInv'
<1> DEFINE c == [NoEditor EXCEPT !.pc = "deletingSubject", !.it = s]
<1>1. /\ TopicsOf(s) = {} /\ QuestionsOf(s) = {}
      /\ calls > 0 /\ calls' = calls - 1 /\ editor' = [editor EXCEPT ![e] = c]
      /\ UNCHANGED <<subjects, topic, question, crossed, unplaced, late, bereft>>
  BY DEF BeginDeleteSubject, SubjectUnused, Call
<1>2. c \in EditorRequests /\ c.pc = "deletingSubject" /\ c.it = s
  BY Zenon DEF NoEditor, EditorRequests, EditorSteps
<1> HIDE DEF c
<1>3. Sound(c)
  BY <1>1, <1>2 DEF Sound, TopicsOf, QuestionsOf
<1> QED
  BY <1>1, <1>2, <1>3, CallsLeft, EditorMoves, Zenon

LEMMA QuestionCreationBegins ==
  ASSUME TreeInv, NEW e \in Editors, NEW q \in Questions, NEW s \in Subjects,
         NEW t \in Topics \cup {None}, BeginCreateQuestion(e, q, s, t)
  PROVE  TreeInv'
<1> DEFINE c == [NoEditor EXCEPT !.pc = "creatingQuestion", !.it = q, !.subject = s, !.topic = t]
<1>1. /\ question[q] = NoQuestion /\ ~BeingMade(q) /\ (t # None => IsParent(t, s))
      /\ calls > 0 /\ calls' = calls - 1 /\ editor' = [editor EXCEPT ![e] = c]
      /\ UNCHANGED <<subjects, topic, question, crossed, unplaced, late, bereft>>
  BY DEF BeginCreateQuestion, Call
<1>2. /\ c \in EditorRequests /\ c.pc = "creatingQuestion" /\ c.it = q /\ c.subject = s
      /\ c.topic = t
  BY Zenon DEF NoEditor, EditorRequests, EditorSteps
<1> HIDE DEF c
<1>3. Sound(c)
  BY <1>1, <1>2, EmptyRows DEF Sound, Fits, IsParent, LiveTopics
<1> QED
  BY <1>1, <1>2, <1>3, CallsLeft, EditorMoves, Zenon DEF BeingMade

LEMMA PlacementBegins ==
  ASSUME TreeInv, NEW e \in Editors, NEW q \in Questions, NEW s \in Subjects \cup {None},
         NEW t \in Topics \cup {None}, BeginPlaceQuestion(e, q, s, t)
  PROVE  TreeInv'
<1> DEFINE checked == t # None /\ s = None /\ question[q].topic # None
           c == [NoEditor EXCEPT !.pc = "placingQuestion", !.it = q, !.subject = s, !.topic = t,
                                 !.checked = checked]
<1>1. /\ q \in LiveQuestions /\ (checked => IsParent(t, question[q].subject))
      /\ calls > 0 /\ calls' = calls - 1 /\ editor' = [editor EXCEPT ![e] = c]
      /\ UNCHANGED <<subjects, topic, question, crossed, unplaced, late, bereft>>
  BY DEF BeginPlaceQuestion, Compares, Call
<1>2. /\ c \in EditorRequests /\ c.pc = "placingQuestion" /\ c.it = q /\ c.subject = s
      /\ c.topic = t /\ c.checked = checked
  BY Zenon DEF NoEditor, EditorRequests, EditorSteps
<1> HIDE DEF c
<1>3. Sound(c)
  BY <1>1, <1>2, Zenon DEF Sound, IsParent, LiveTopics, LiveQuestions
<1> QED
  BY <1>1, <1>2, <1>3, CallsLeft, EditorMoves, Zenon

\* The editor that has written is away again; the others keep what they know if the rows
\* do them no harm.
LEMMA EditorEnds ==
  ASSUME TreeInv, NEW e \in Editors, editor' = [editor EXCEPT ![e] = NoEditor],
         topic' \in [Topics -> TopicRows], question' \in [Questions -> QuestionRows],
         ContentTreeTypeOK',
         \A d \in Editors \ {e}, r \in EditorRequests : r = editor[d] => Sound(r)',
         QuestionTopicInSubject', NothingUsedIsTaken'
  PROVE  TreeInv'
<1>1. /\ editor' \in [Editors -> EditorRequests] /\ editor'[e] = NoEditor
      /\ \A d \in Editors \ {e} : editor'[d] = editor[d]
  BY EmptyRows DEF TreeInv, TreeTyped
<1>2. Sound(editor[e])'
  BY <1>1, EmptyRows DEF Sound
<1>3. Apart'
  BY <1>1, EmptyRows DEF TreeInv, Apart
<1>4. ASSUME NEW d \in Editors, d # e PROVE Sound(editor[d])'
  BY <1>1, <1>4 DEF TreeInv, TreeTyped, Sound
<1> QED
  BY <1>1, <1>2, <1>3, <1>4 DEF TreeInv, TreeTyped

\* The pcs of the requests after it.
LEMMA EditorsTyped ==
  ASSUME TreeInv, NEW e \in Editors, editor' = [editor EXCEPT ![e] = NoEditor]
  PROVE  \A d \in Editors :
           /\ editor'[d].pc \in EditorSteps
           /\ d # e => editor'[d] = editor[d]
  BY EmptyRows DEF TreeInv, TreeTyped, EditorRequests

\* A row linked to what is being deleted is late.
LEMMA LateMarks ==
  ASSUME TreeInv, NEW row, NEW links, LateIf(row, links)
  PROVE  /\ late \subseteq late' /\ late' \subseteq late \cup {row}
         /\ \A d \in Editors :
              /\ editor[d].pc \in {"deletingTopic", "deletingSubject"} /\ editor[d].it \in links
                   => row \in late'
              /\ \A t \in links \cap LiveTopics :
                   editor[d].pc = "deletingSubject" /\ topic[t].subject = editor[d].it
                     => row \in late'
<1>1. late' = IF \E x \in links : Doomed(x) THEN late \cup {row} ELSE late
  BY DEF LateIf
<1>2. ASSUME NEW d \in Editors, editor[d].pc \in {"deletingTopic", "deletingSubject"}
      PROVE  Deleting(editor[d].it)
  <2>1. Sound(editor[d])
    BY DEF TreeInv
  <2>2. editor[d].it \in Topics \cup Subjects
    BY <1>2, <2>1 DEF Sound
  <2> QED
    BY <1>2, <2>2, ContentTreeAssumption DEF Deleting
<1> QED
  BY <1>1, <1>2 DEF Doomed

LEMMA TopicCreated ==
  ASSUME TreeInv, NEW e \in Editors, CreateTopic(e)
  PROVE  TreeInv'
<1> DEFINE c == editor[e]
           row == [there |-> "yes", subject |-> c.subject, parent |-> c.topic]
<1>0. /\ c.pc = "creatingTopic" /\ editor' = [editor EXCEPT ![e] = NoEditor]
      /\ UNCHANGED <<subjects, question, calls, crossed, unplaced, bereft>>
  BY DEF CreateTopic, EndCall, GoOnAs
<1>1. CASE c.subject \in subjects /\ c.topic \in LiveTopics \cup {None}
  <2>1. topic' = [topic EXCEPT ![c.it] = row] /\ LateIf(c.it, {c.subject, c.topic})
    BY <1>1 DEF CreateTopic
  <2>2. /\ c \in EditorRequests /\ Sound(c)
        /\ c.it \in Topics /\ topic[c.it].there = "never" /\ c.it \notin LiveTopics
        /\ c.subject \in Subjects
        /\ c.topic # None => c.topic \in LiveTopics /\ topic[c.topic].subject = c.subject
    BY <1>0, <1>1 DEF TreeInv, TreeTyped, Sound, Fits, LiveTopics
  <2>3. row \in TopicRows /\ row.there = "yes" /\ row.subject = c.subject /\ row.parent = c.topic
    BY <2>2 DEF EditorRequests, TopicRows
  <2>4. /\ late \subseteq late' /\ late' \subseteq late \cup {c.it}
        /\ \A d \in Editors :
             editor[d].pc \in {"deletingTopic", "deletingSubject"}
               /\ editor[d].it \in {c.subject, c.topic} => c.it \in late'
    BY <2>1, LateMarks
  <2> DEFINE i == c.it
             s == c.subject
             p == c.topic
  <2>5. \A d \in Editors \ {e} : editor[d].pc = "creatingTopic" => editor[d].it # i
    BY <1>0 DEF TreeInv, Apart
  <2> HIDE DEF row, i, s, p
  <2>6. /\ topic' \in [Topics -> TopicRows] /\ topic'[i] = row
        /\ \A t \in Topics \ {i} : topic'[t] = topic[t]
        /\ LiveTopics' = LiveTopics \cup {i} /\ LiveQuestions' = LiveQuestions
    BY <1>0, <2>1, <2>2, <2>3 DEF TreeInv, TreeTyped, LiveTopics, LiveQuestions, i
  <2>7. /\ i \in Topics \ LiveTopics /\ topic[i].there = "never" /\ s \in subjects
        /\ p # None => p \in LiveTopics /\ topic[p].subject = s
        /\ row.there = "yes" /\ row.subject = s /\ row.parent = p
    BY <1>1, <2>2, <2>3 DEF i, s, p
  <2>8. /\ late \subseteq late' /\ late' \subseteq late \cup {i}
        /\ \A d \in Editors :
             editor[d].pc \in {"deletingTopic", "deletingSubject"}
               /\ editor[d].it \in {s, p} => i \in late'
    BY <2>4 DEF i, s, p
  <2> HIDE DEF c
  <2>9. ContentTreeTypeOK'
    <3>1. ASSUME NEW t \in Topics, topic'[t] \notin {NoTopic, GoneTopic}
          PROVE  /\ topic'[t].there = "yes" /\ topic'[t].subject \in subjects
                 /\ topic'[t].parent # None =>
                      /\ topic'[t].parent \in LiveTopics'
                      /\ topic'[topic'[t].parent].subject = topic'[t].subject
      <4>1. CASE t = i
        BY <2>6, <2>7, <4>1, RowsLinked
      <4>2. CASE t # i
        BY <2>6, <2>7, <3>1, <4>2, RowsLinked DEF TreeInv, ContentTreeTypeOK
      <4> QED
        BY <4>1, <4>2
    <3>2. \A d \in Editors : editor'[d].pc \in EditorSteps
      BY <1>0, EditorsTyped, Zenon
    <3> QED
      BY <1>0, <2>6, <2>7, <2>8, <3>1, <3>2 DEF TreeInv, ContentTreeTypeOK, EditorSteps
  <2>10. ASSUME NEW d \in Editors \ {e}, NEW r \in EditorRequests, r = editor[d]
         PROVE  Sound(r)'
    <3>1. Sound(r)
      BY <2>10 DEF TreeInv
    <3>2. \A u : TopicsOf(u)' \subseteq TopicsOf(u) \cup {i}
      BY <2>6, RowsLinked DEF TopicsOf
    <3>3. \A u : i \in TopicsOf(u)' => u = s
      BY <2>6, <2>7 DEF TopicsOf
    <3>4. \A q \in LiveQuestions : question[q].topic # i
      BY <2>7, RowsLinked
    <3>6. r.pc = "creatingTopic" => r.it # i
      BY <2>5, <2>10
    <3>7. r.pc \in {"deletingTopic", "deletingSubject"} /\ r.it \in {s, p} => i \in late'
      BY <2>8, <2>10
    <3> USE <1>0, <2>6, <2>7, <3>1
    <3>8. /\ r.pc \in {"creatingTopic", "creatingQuestion"} =>
               r.subject \in Subjects /\ (r.topic # None => Fits(r.topic, r.subject)')
          /\ r.pc = "creatingTopic" => r.it \in Topics /\ topic'[r.it].there = "never"
          /\ r.pc = "creatingQuestion" => r.it \in Questions /\ question'[r.it].there = "never"
      BY <3>6 DEF Sound, Fits
    <3>9. r.pc \in {"walking", "moving"} =>
             /\ r.it \in Topics /\ topic'[r.it].there # "never"
             /\ r.topic \in Topics /\ topic'[r.topic].there # "never"
             /\ topic'[r.it].there = "yes" /\ topic'[r.topic].there = "yes" =>
                  topic'[r.it].subject = topic'[r.topic].subject
      BY DEF Sound
    <3>10. r.pc = "deletingTopic" =>
             /\ r.it \in Topics
             /\ \A x \in LiveTopics' : topic'[x].parent = r.it => x \in late'
             /\ \A q \in LiveQuestions' : question'[q].topic = r.it => q \in late'
      BY <2>8, <3>7, RowsLinked DEF Sound
    <3>11. r.pc = "deletingSubject" =>
             /\ r.it \in Subjects
             /\ \A x \in LiveTopics' : topic'[x].subject = r.it => x \in late'
             /\ \A q \in LiveQuestions' :
                  question'[q].subject = r.it \/ question'[q].topic \in TopicsOf(r.it)' => q \in late'
      BY <2>8, <3>2, <3>4, <3>7, RowsLinked DEF Sound
    <3>12. r.pc = "placingQuestion" =>
             /\ r.it \in Questions /\ question'[r.it].there # "never"
             /\ r.checked =>
                  /\ r.subject = None /\ r.topic \in Topics /\ topic'[r.topic].there # "never"
                  /\ r.it \in LiveQuestions' \ unplaced' /\ r.topic \in LiveTopics' =>
                       topic'[r.topic].subject = question'[r.it].subject
      BY DEF Sound
    <3> QED
      BY <3>8, <3>9, <3>10, <3>11, <3>12 DEF Sound
  <2>11. QuestionTopicInSubject'
    BY <1>0, <2>6, <2>7, RowsLinked DEF TreeInv, QuestionTopicInSubject
  <2>12. NothingUsedIsTaken'
    BY <1>0, <2>8 DEF TreeInv, NothingUsedIsTaken
  <2> QED
    BY <1>0, <2>6, <2>9, <2>10, <2>11, <2>12, EditorEnds, Zenon DEF TreeInv, TreeTyped
<1>2. CASE ~(c.subject \in subjects /\ c.topic \in LiveTopics \cup {None})
  BY <1>0, <1>2, EmptyRows, CallsLeft, EditorMoves, Zenon DEF CreateTopic, Sound
<1> QED
  BY <1>1, <1>2

LEMMA TopicMoved ==
  ASSUME TreeInv, NEW e \in Editors, MoveTopic(e)
  PROVE  TreeInv'
<1> DEFINE c == editor[e]
<1>0. /\ c.pc = "moving" /\ editor' = [editor EXCEPT ![e] = NoEditor]
      /\ UNCHANGED <<subjects, question, calls, unplaced, bereft>>
  BY DEF MoveTopic, EndCall, GoOnAs
<1>1. CASE {c.it, c.topic} \subseteq LiveTopics
  <2> DEFINE i == c.it
             p == c.topic
             row == [topic[i] EXCEPT !.parent = p]
  <2>1. /\ topic' = [topic EXCEPT ![i].parent = p] /\ LateIf(i, {p})
    BY <1>1 DEF MoveTopic
  <2>2. crossed' \subseteq Topics
    <3>1. \A d \in Movers : editor[d].it \in Topics
      BY DEF TreeInv, Sound, Movers
    <3>2. {editor[d].it : d \in Movers \ {e}} \subseteq Topics /\ c.it \in Topics
      BY <1>1, <3>1, RowsLinked
    <3>3. crossed \subseteq Topics
      BY DEF TreeInv, ContentTreeTypeOK
    <3> QED
      BY <1>1, <3>2, <3>3 DEF MoveTopic
  <2>3. /\ i \in LiveTopics /\ p \in LiveTopics /\ topic[p].subject = topic[i].subject
    BY <1>0, <1>1 DEF TreeInv, Sound, LiveTopics
  <2>4. /\ late \subseteq late' /\ late' \subseteq late \cup {i}
        /\ \A d \in Editors : /\ editor[d].pc = "deletingTopic" /\ editor[d].it = p => i \in late'
    BY <2>1, LateMarks
  <2>5. /\ row \in TopicRows /\ row.there = "yes" /\ row.subject = topic[i].subject
        /\ row.parent = p /\ row \notin {NoTopic, GoneTopic}
    <3>1. topic[i] \in TopicRows /\ topic[i].there = "yes" /\ p \in Topics
      BY <2>3 DEF TreeInv, TreeTyped, LiveTopics
    <3> QED
      BY <3>1, EmptyRows DEF TopicRows
  <2>6. topic' = [topic EXCEPT ![i] = row]
    BY <2>1, <2>3, RowsLinked DEF TreeInv, TreeTyped
  <2> HIDE DEF row, i, p
  <2>7. /\ topic' \in [Topics -> TopicRows] /\ topic'[i] = row
        /\ \A t \in Topics \ {i} : topic'[t] = topic[t]
        /\ \A t \in Topics : topic'[t].there = topic[t].there /\ topic'[t].subject = topic[t].subject
    BY <2>3, <2>5, <2>6 DEF TreeInv, TreeTyped, LiveTopics
  <2>8. LiveTopics' = LiveTopics /\ LiveQuestions' = LiveQuestions
    BY <1>0, <2>7 DEF LiveTopics, LiveQuestions
  <2> HIDE DEF c
  <2>9. ContentTreeTypeOK'
    <3>1. ASSUME NEW t \in Topics, topic'[t] \notin {NoTopic, GoneTopic}
          PROVE  /\ topic'[t].there = "yes" /\ topic'[t].subject \in subjects
                 /\ topic'[t].parent # None =>
                      /\ topic'[t].parent \in LiveTopics'
                      /\ topic'[topic'[t].parent].subject = topic'[t].subject
      <4>1. CASE t = i
        BY <2>3, <2>5, <2>7, <2>8, <4>1, RowsLinked
      <4>2. CASE t # i
        <5>1. topic[t] = topic'[t] /\ topic[t].there = "yes"
          BY <2>7, <3>1, <4>2 DEF TreeInv, ContentTreeTypeOK
        <5> QED
          BY <2>7, <2>8, <5>1, RowsLinked DEF LiveTopics
      <4> QED
        BY <4>1, <4>2
    <3>2. \A d \in Editors : editor'[d].pc \in EditorSteps
      BY <1>0, EditorsTyped, Zenon
    <3>3. late' \cup bereft' \subseteq Topics \cup Questions
      BY <1>0, <2>3, <2>4, RowsLinked DEF TreeInv, ContentTreeTypeOK
    <3> QED
      BY <1>0, <2>2, <2>8, <3>1, <3>2, <3>3 DEF TreeInv, ContentTreeTypeOK, EditorSteps
  <2>10. ASSUME NEW d \in Editors \ {e}, NEW r \in EditorRequests, r = editor[d]
         PROVE  Sound(r)'
    <3>1. Sound(r)
      BY <2>10 DEF TreeInv
    <3>2. \A u : TopicsOf(u)' = TopicsOf(u)
      BY <2>7, <2>8, RowsLinked DEF TopicsOf
    <3>3. \A t, s : Fits(t, s) => Fits(t, s)'
      BY <2>7 DEF Fits
    <3> USE <1>0, <2>7, <2>8, <3>1
    <3>4. r.pc = "deletingTopic" =>
             /\ r.it \in Topics
             /\ \A x \in LiveTopics' : topic'[x].parent = r.it => x \in late'
             /\ \A q \in LiveQuestions' : question'[q].topic = r.it => q \in late'
      <4>1. r.pc = "deletingTopic" /\ r.it = p => i \in late'
        BY <2>4, <2>10
      <4> QED
        BY <2>4, <2>5, <4>1, RowsLinked DEF Sound
    <3>5. r.pc = "deletingSubject" =>
             /\ r.it \in Subjects
             /\ \A x \in LiveTopics' : topic'[x].subject = r.it => x \in late'
             /\ \A q \in LiveQuestions' :
                  question'[q].subject = r.it \/ question'[q].topic \in TopicsOf(r.it)' => q \in late'
      BY <2>4, <3>2, RowsLinked DEF Sound
    <3>6. r.pc = "placingQuestion" =>
             /\ r.it \in Questions /\ question'[r.it].there # "never"
             /\ r.checked =>
                  /\ r.subject = None /\ r.topic \in Topics /\ topic'[r.topic].there # "never"
                  /\ r.it \in LiveQuestions' \ unplaced' /\ r.topic \in LiveTopics' =>
                       topic'[r.topic].subject = question'[r.it].subject
      BY DEF Sound
    <3> QED
      BY <3>3, <3>4, <3>5, <3>6 DEF Sound
  <2>11. QuestionTopicInSubject'
    BY <1>0, <2>7, <2>8, RowsLinked DEF TreeInv, QuestionTopicInSubject
  <2>12. NothingUsedIsTaken'
    BY <1>0, <2>4 DEF TreeInv, NothingUsedIsTaken
  <2>13. question' \in [Questions -> QuestionRows]
    BY <1>0 DEF TreeInv, TreeTyped
  <2> QED
    BY <1>0, <2>7, <2>9, <2>10, <2>11, <2>12, <2>13, EditorEnds, Zenon
<1>2. CASE ~({c.it, c.topic} \subseteq LiveTopics)
  BY <1>0, <1>2, EmptyRows, CallsLeft, EditorMoves, Zenon DEF MoveTopic, Sound
<1> QED
  BY <1>1, <1>2

LEMMA QuestionCreated ==
  ASSUME TreeInv, NEW e \in Editors, CreateQuestion(e)
  PROVE  TreeInv'
<1> DEFINE c == editor[e]
           row == [there |-> "yes", subject |-> c.subject, topic |-> c.topic]
<1>0. /\ c.pc = "creatingQuestion" /\ editor' = [editor EXCEPT ![e] = NoEditor]
      /\ UNCHANGED <<subjects, topic, calls, crossed, unplaced, bereft>>
  BY DEF CreateQuestion, EndCall, GoOnAs
<1>1. CASE c.subject \in subjects /\ c.topic \in LiveTopics \cup {None}
  <2>1. question' = [question EXCEPT ![c.it] = row] /\ LateIf(c.it, {c.subject, c.topic})
    BY <1>1 DEF CreateQuestion
  <2>2. /\ c \in EditorRequests /\ Sound(c)
        /\ c.it \in Questions /\ question[c.it].there = "never" /\ c.it \notin LiveQuestions
        /\ c.subject \in Subjects
        /\ c.topic # None => c.topic \in LiveTopics /\ topic[c.topic].subject = c.subject
    BY <1>0, <1>1 DEF TreeInv, TreeTyped, Sound, Fits, LiveTopics, LiveQuestions
  <2>3. row \in QuestionRows /\ row.there = "yes" /\ row.subject = c.subject /\ row.topic = c.topic
    BY <2>2 DEF EditorRequests, QuestionRows
  <2> DEFINE i == c.it
             s == c.subject
             p == c.topic
  <2>4. /\ late \subseteq late' /\ late' \subseteq late \cup {i}
        /\ \A d \in Editors :
             /\ editor[d].pc \in {"deletingTopic", "deletingSubject"}
                  /\ editor[d].it \in {s, p} => i \in late'
             /\ editor[d].pc = "deletingSubject" /\ p \in TopicsOf(editor[d].it) => i \in late'
    BY <2>1, LateMarks DEF TopicsOf
  <2>5. \A d \in Editors \ {e} : editor[d].pc = "creatingQuestion" => editor[d].it # i
    BY <1>0 DEF TreeInv, Apart
  <2> HIDE DEF row
  <2>6. /\ question' \in [Questions -> QuestionRows] /\ question'[i] = row
        /\ \A q \in Questions \ {i} : question'[q] = question[q]
        /\ LiveQuestions' = LiveQuestions \cup {i} /\ LiveTopics' = LiveTopics
    BY <1>0, <2>1, <2>2, <2>3 DEF TreeInv, TreeTyped, LiveTopics, LiveQuestions
  <2>7. /\ i \in Questions \ LiveQuestions /\ question[i].there = "never" /\ s \in subjects
        /\ p # None => p \in LiveTopics /\ topic[p].subject = s
        /\ row.there = "yes" /\ row.subject = s /\ row.topic = p
    BY <1>1, <2>2, <2>3
  <2> HIDE DEF i, s, p
  <2> HIDE DEF c
  <2>8. ContentTreeTypeOK'
    <3>1. ASSUME NEW q \in Questions, question'[q] \notin {NoQuestion, GoneQuestion}
          PROVE  /\ question'[q].there = "yes" /\ question'[q].subject \in subjects
                 /\ question'[q].topic \in LiveTopics \cup {None}
      <4>1. CASE q = i
        BY <2>6, <2>7, <4>1
      <4>2. CASE q # i
        BY <2>6, <3>1, <4>2 DEF TreeInv, ContentTreeTypeOK
      <4> QED
        BY <4>1, <4>2
    <3>2. \A d \in Editors : editor'[d].pc \in EditorSteps
      BY <1>0, EditorsTyped, Zenon
    <3>3. late' \cup bereft' \subseteq Topics \cup Questions
      BY <1>0, <2>4, <2>7 DEF TreeInv, ContentTreeTypeOK
    <3> QED
      BY <1>0, <2>6, <3>1, <3>2, <3>3 DEF TreeInv, ContentTreeTypeOK, EditorSteps
  <2>9. ASSUME NEW d \in Editors \ {e}, NEW r \in EditorRequests, r = editor[d]
        PROVE  Sound(r)'
    <3>1. Sound(r)
      BY <2>9 DEF TreeInv
    <3>2. \A u : TopicsOf(u)' = TopicsOf(u)
      BY <1>0 DEF TopicsOf, LiveTopics
    <3>3. \A t, u : Fits(t, u) => Fits(t, u)'
      BY <1>0 DEF Fits
    <3>4. r.pc = "creatingQuestion" => r.it # i
      BY <2>5, <2>9
    <3>5. /\ r.pc \in {"deletingTopic", "deletingSubject"} /\ r.it \in {s, p} => i \in late'
          /\ r.pc = "deletingSubject" /\ p \in TopicsOf(r.it) => i \in late'
      BY <2>4, <2>9
    <3> USE <1>0, <2>6, <2>7, <3>1
    <3>6. r.pc = "creatingQuestion" => r.it \in Questions /\ question'[r.it].there = "never"
      BY <3>4 DEF Sound
    <3>7. r.pc = "deletingTopic" =>
             /\ r.it \in Topics
             /\ \A x \in LiveTopics' : topic'[x].parent = r.it => x \in late'
             /\ \A q \in LiveQuestions' : question'[q].topic = r.it => q \in late'
      BY <2>4, <3>5, RowsLinked DEF Sound
    <3>8. r.pc = "deletingSubject" =>
             /\ r.it \in Subjects
             /\ \A x \in LiveTopics' : topic'[x].subject = r.it => x \in late'
             /\ \A q \in LiveQuestions' :
                  question'[q].subject = r.it \/ question'[q].topic \in TopicsOf(r.it)' => q \in late'
      BY <2>4, <3>2, <3>5, RowsLinked DEF Sound
    <3>9. r.pc = "placingQuestion" =>
             /\ r.it \in Questions /\ question'[r.it].there # "never"
             /\ r.checked =>
                  /\ r.subject = None /\ r.topic \in Topics /\ topic'[r.topic].there # "never"
                  /\ r.it \in LiveQuestions' \ unplaced' /\ r.topic \in LiveTopics' =>
                       topic'[r.topic].subject = question'[r.it].subject
      BY DEF Sound
    <3> QED
      BY <3>3, <3>6, <3>7, <3>8, <3>9 DEF Sound
  <2>10. QuestionTopicInSubject'
    BY <1>0, <2>6, <2>7, RowsLinked DEF TreeInv, QuestionTopicInSubject
  <2>11. NothingUsedIsTaken'
    BY <1>0, <2>4 DEF TreeInv, NothingUsedIsTaken
  <2>12. topic' \in [Topics -> TopicRows]
    BY <1>0 DEF TreeInv, TreeTyped
  <2> QED
    BY <1>0, <2>6, <2>8, <2>9, <2>10, <2>11, <2>12, EditorEnds, Zenon
<1>2. CASE ~(c.subject \in subjects /\ c.topic \in LiveTopics \cup {None})
  BY <1>0, <1>2, EmptyRows, CallsLeft, EditorMoves, Zenon DEF CreateQuestion, Sound
<1> QED
  BY <1>1, <1>2

LEMMA QuestionPlaced ==
  ASSUME TreeInv, NEW e \in Editors, PlaceQuestion(e)
  PROVE  TreeInv'
<1> DEFINE c == editor[e]
           i == c.it
           s == c.subject
           p == c.topic
           Allowed == /\ i \in LiveQuestions
                      /\ s \in subjects \cup {None} /\ p \in LiveTopics \cup {None}
<1>0. /\ c.pc = "placingQuestion" /\ editor' = [editor EXCEPT ![e] = NoEditor]
      /\ UNCHANGED <<subjects, topic, calls, crossed, bereft>>
  BY DEF PlaceQuestion, EndCall, GoOnAs
<1>1. CASE Allowed
  <2> DEFINE row == [question[i] EXCEPT !.subject = IF s = None THEN @ ELSE s,
                                        !.topic = IF p = None THEN @ ELSE p]
  <2>1. /\ question' = [question EXCEPT ![i].subject = IF s = None THEN @ ELSE s,
                                        ![i].topic = IF p = None THEN @ ELSE p]
        /\ unplaced' = IF c.checked /\ Placers(i) = {e} THEN unplaced ELSE unplaced \cup {i}
        /\ LateIf(i, {s, p})
    BY <1>1 DEF PlaceQuestion
  <2>2. question[i] \in QuestionRows /\ question[i].there = "yes" /\ i \in Questions
    BY <1>1, RowsLinked DEF TreeInv, TreeTyped, LiveQuestions
  <2>3. row \in QuestionRows
    BY <1>1, <2>2, RowsLinked, Zenon DEF QuestionRows
  <2>4. question' = [question EXCEPT ![i] = row]
    BY <2>1, <2>2, Zenon DEF TreeInv, TreeTyped
  <2>5. /\ row.there = "yes"
        /\ (row.subject = s /\ s \in subjects) \/ row.subject = question[i].subject
        /\ (row.topic = p /\ p \in LiveTopics) \/ row.topic = question[i].topic
        /\ s = None => row.subject = question[i].subject
        /\ p # None => row.topic = p
    BY <1>1, <2>2, RowsLinked DEF QuestionRows
  <2> HIDE DEF row
  <2>6. /\ question' \in [Questions -> QuestionRows] /\ question'[i] = row
        /\ \A q \in Questions \ {i} : question'[q] = question[q]
        /\ LiveQuestions' = LiveQuestions /\ LiveTopics' = LiveTopics
    BY <1>0, <2>2, <2>3, <2>4, <2>5 DEF TreeInv, TreeTyped, LiveTopics, LiveQuestions
  <2>7. /\ late \subseteq late' /\ late' \subseteq late \cup {i}
        /\ \A d \in Editors :
             /\ editor[d].pc \in {"deletingTopic", "deletingSubject"}
                  /\ editor[d].it \in {s, p} => i \in late'
             /\ editor[d].pc = "deletingSubject" /\ p \in TopicsOf(editor[d].it) => i \in late'
    BY <2>1, LateMarks DEF TopicsOf
  <2>8. /\ unplaced \subseteq unplaced' /\ unplaced' \subseteq unplaced \cup {i}
        /\ i \notin unplaced' => c.checked /\ Placers(i) = {e}
    BY <2>1
  <2>9. c.checked => /\ s = None /\ p \in Topics
                     /\ i \in LiveQuestions \ unplaced /\ p \in LiveTopics =>
                          topic[p].subject = question[i].subject
    BY <1>0 DEF TreeInv, Sound
  <2>10. i \in LiveQuestions /\ i \in Questions /\ p \in LiveTopics \cup {None}
    BY <1>1, <2>2
  <2>11. \A d \in Editors \ {e} : editor[d].pc = "placingQuestion" /\ editor[d].it = i =>
           i \in unplaced'
    BY <1>0, <2>8 DEF Placers
  <2> HIDE DEF i, s, p
  <2> HIDE DEF c
  <2>12. ContentTreeTypeOK'
    <3>1. ASSUME NEW q \in Questions, question'[q] \notin {NoQuestion, GoneQuestion}
          PROVE  /\ question'[q].there = "yes" /\ question'[q].subject \in subjects
                 /\ question'[q].topic \in LiveTopics \cup {None}
      <4>1. CASE q = i
        BY <2>5, <2>6, <2>10, <4>1, RowsLinked
      <4>2. CASE q # i
        BY <2>6, <3>1, <4>2 DEF TreeInv, ContentTreeTypeOK
      <4> QED
        BY <4>1, <4>2
    <3>2. \A d \in Editors : editor'[d].pc \in EditorSteps
      BY <1>0, EditorsTyped, Zenon
    <3>3. late' \cup bereft' \subseteq Topics \cup Questions /\ unplaced' \subseteq Questions
      BY <1>0, <2>7, <2>8, <2>10 DEF TreeInv, ContentTreeTypeOK
    <3> QED
      BY <1>0, <2>6, <3>1, <3>2, <3>3 DEF TreeInv, ContentTreeTypeOK, EditorSteps
  <2>13. ASSUME NEW d \in Editors \ {e}, NEW r \in EditorRequests, r = editor[d]
         PROVE  Sound(r)'
    <3>1. Sound(r)
      BY <2>13 DEF TreeInv
    <3>2. \A u : TopicsOf(u)' = TopicsOf(u)
      BY <1>0 DEF TopicsOf, LiveTopics
    <3>3. \A t, u : Fits(t, u) => Fits(t, u)'
      BY <1>0 DEF Fits
    <3>4. r.pc = "placingQuestion" /\ r.it = i => i \in unplaced'
      BY <2>11, <2>13
    <3>5. /\ r.pc \in {"deletingTopic", "deletingSubject"} /\ r.it \in {s, p} => i \in late'
          /\ r.pc = "deletingSubject" /\ p \in TopicsOf(r.it) => i \in late'
      BY <2>7, <2>13
    <3>6. \A q \in Questions : question'[q].there = question[q].there
      BY <2>5, <2>6, <2>10 DEF LiveQuestions
    <3> USE <1>0, <2>6, <3>1
    <3>7. r.pc = "creatingQuestion" => r.it \in Questions /\ question'[r.it].there = "never"
      BY <3>6 DEF Sound
    <3>8. r.pc = "deletingTopic" =>
             /\ r.it \in Topics
             /\ \A x \in LiveTopics' : topic'[x].parent = r.it => x \in late'
             /\ \A q \in LiveQuestions' : question'[q].topic = r.it => q \in late'
      BY <2>5, <2>7, <2>10, <3>5, RowsLinked DEF Sound
    <3>9. r.pc = "deletingSubject" =>
             /\ r.it \in Subjects
             /\ \A x \in LiveTopics' : topic'[x].subject = r.it => x \in late'
             /\ \A q \in LiveQuestions' :
                  question'[q].subject = r.it \/ question'[q].topic \in TopicsOf(r.it)' => q \in late'
      BY <2>5, <2>7, <2>10, <3>2, <3>5, RowsLinked DEF Sound
    <3>10. r.pc = "placingQuestion" =>
             /\ r.it \in Questions /\ question'[r.it].there # "never"
             /\ r.checked =>
                  /\ r.subject = None /\ r.topic \in Topics /\ topic'[r.topic].there # "never"
                  /\ r.it \in LiveQuestions' \ unplaced' /\ r.topic \in LiveTopics' =>
                       topic'[r.topic].subject = question'[r.it].subject
      BY <2>8, <3>4, <3>6 DEF Sound
    <3> QED
      BY <3>3, <3>7, <3>8, <3>9, <3>10 DEF Sound
  <2>14. QuestionTopicInSubject'
    <3>1. ASSUME NEW q \in LiveQuestions' \ unplaced', question'[q].topic # None
          PROVE  topic'[question'[q].topic].subject = question'[q].subject
      <4>1. CASE q = i
        BY <1>0, <2>5, <2>6, <2>8, <2>9, <2>10, <3>1, <4>1, RowsLinked
      <4>2. CASE q # i
        BY <1>0, <2>6, <2>8, <3>1, <4>2, RowsLinked DEF TreeInv, QuestionTopicInSubject
      <4> QED
        BY <4>1, <4>2
    <3> QED
      BY <3>1 DEF QuestionTopicInSubject
  <2>15. NothingUsedIsTaken'
    BY <1>0, <2>7 DEF TreeInv, NothingUsedIsTaken
  <2>16. topic' \in [Topics -> TopicRows]
    BY <1>0 DEF TreeInv, TreeTyped
  <2> QED
    BY <1>0, <2>6, <2>12, <2>13, <2>14, <2>15, <2>16, EditorEnds, Zenon DEF c
<1>2. CASE ~Allowed
  BY <1>0, <1>2, EmptyRows, CallsLeft, EditorMoves, Zenon DEF PlaceQuestion, Sound
<1> QED
  BY <1>1, <1>2

LEMMA TopicDeleted ==
  ASSUME TreeInv, NEW e \in Editors, DeleteTopic(e)
  PROVE  TreeInv'
<1> DEFINE t == editor[e].it
<1>0. /\ editor[e].pc = "deletingTopic" /\ editor' = [editor EXCEPT ![e] = NoEditor]
      /\ UNCHANGED <<subjects, calls, crossed, unplaced, late>>
  BY DEF DeleteTopic, EndCall, GoOnAs
<1>1. CASE t \in LiveTopics
  <2>1. /\ topic' = [x \in Topics |->
              IF x = t THEN GoneTopic
              ELSE IF x \in ChildrenOf(t) THEN [topic[x] EXCEPT !.parent = None] ELSE topic[x]]
        /\ question' = [q \in Questions |->
              IF q \in QuestionsUnder(t) THEN [question[q] EXCEPT !.topic = None]
              ELSE question[q]]
        /\ bereft' = bereft \cup ChildrenOf(t) \cup QuestionsUnder(t)
    BY <1>1 DEF DeleteTopic
  <2>2. ChildrenOf(t) \subseteq late /\ QuestionsUnder(t) \subseteq late
    BY <1>0 DEF TreeInv, Sound, ChildrenOf, QuestionsUnder
  <2> HIDE DEF t
  <2>3. /\ t \in Topics /\ t \notin LiveTopics' /\ topic'[t] = GoneTopic
        /\ \A x \in Topics \ {t} :
             /\ topic'[x] \in TopicRows
             /\ topic'[x].there = topic[x].there /\ topic'[x].subject = topic[x].subject
             /\ topic'[x].parent = topic[x].parent \/ topic'[x].parent = None
             /\ topic'[x].parent # t \/ x \notin LiveTopics
             /\ x \notin LiveTopics => topic'[x] = topic[x]
    <3>1. t \in Topics
      BY <1>1, RowsLinked
    <3>2. ASSUME NEW x \in Topics \ {t}
          PROVE  /\ topic'[x] \in TopicRows
                 /\ topic'[x].there = topic[x].there /\ topic'[x].subject = topic[x].subject
                 /\ topic'[x].parent = topic[x].parent \/ topic'[x].parent = None
                 /\ topic'[x].parent # t \/ x \notin LiveTopics
                 /\ x \notin LiveTopics => topic'[x] = topic[x]
      <4>1. topic[x] \in TopicRows
        BY DEF TreeInv, TreeTyped
      <4>2. CASE x \in ChildrenOf(t)
        BY <2>1, <3>1, <4>1, <4>2, ContentTreeAssumption DEF ChildrenOf, TopicRows
      <4>3. CASE x \notin ChildrenOf(t)
        BY <2>1, <4>1, <4>3 DEF ChildrenOf
      <4> QED
        BY <4>2, <4>3
    <3>3. topic'[t] = GoneTopic
      BY <2>1, <3>1
    <3> QED
      BY <3>1, <3>2, <3>3, EmptyRows DEF LiveTopics
  <2>4. topic' \in [Topics -> TopicRows] /\ LiveTopics' = LiveTopics \ {t}
    <3>1. \A x \in Topics : topic'[x] \in TopicRows
      BY <2>3, EmptyRows
    <3> QED
      BY <2>1, <2>3, <3>1 DEF LiveTopics
  <2>5. /\ question' \in [Questions -> QuestionRows] /\ LiveQuestions' = LiveQuestions
        /\ \A q \in Questions :
             /\ question'[q].there = question[q].there /\ question'[q].subject = question[q].subject
             /\ question'[q].topic = question[q].topic \/ question'[q].topic = None
             /\ question'[q].topic # t \/ q \notin LiveQuestions
             /\ q \notin LiveQuestions => question'[q] = question[q]
    <3>1. ASSUME NEW q \in Questions
          PROVE  /\ question'[q] \in QuestionRows
                 /\ question'[q].there = question[q].there
                 /\ question'[q].subject = question[q].subject
                 /\ question'[q].topic = question[q].topic \/ question'[q].topic = None
                 /\ question'[q].topic # t \/ q \notin LiveQuestions
                 /\ q \notin LiveQuestions => question'[q] = question[q]
      <4>1. question[q] \in QuestionRows
        BY DEF TreeInv, TreeTyped
      <4>2. CASE q \in QuestionsUnder(t)
        BY <2>1, <2>3, <4>1, <4>2, ContentTreeAssumption DEF QuestionsUnder, QuestionRows
      <4>3. CASE q \notin QuestionsUnder(t)
        BY <2>1, <4>1, <4>3 DEF QuestionsUnder
      <4> QED
        BY <4>2, <4>3
    <3> QED
      BY <2>1, <3>1 DEF LiveQuestions
  <2>6. ContentTreeTypeOK'
    <3>1. ASSUME NEW x \in Topics, topic'[x] \notin {NoTopic, GoneTopic}
          PROVE  /\ topic'[x].there = "yes" /\ topic'[x].subject \in subjects
                 /\ topic'[x].parent # None =>
                      /\ topic'[x].parent \in LiveTopics'
                      /\ topic'[topic'[x].parent].subject = topic'[x].subject
      <4>1. x # t
        BY <2>3, <3>1
      <4>2. x \in LiveTopics
        BY <2>3, <3>1, <4>1 DEF TreeInv, ContentTreeTypeOK, LiveTopics
      <4> QED
        BY <2>3, <2>4, <4>1, <4>2, RowsLinked DEF LiveTopics
    <3>2. ASSUME NEW q \in Questions, question'[q] \notin {NoQuestion, GoneQuestion}
          PROVE  /\ question'[q].there = "yes" /\ question'[q].subject \in subjects
                 /\ question'[q].topic \in LiveTopics' \cup {None}
      <4>1. q \in LiveQuestions
        BY <2>5, <3>2 DEF TreeInv, ContentTreeTypeOK, LiveQuestions
      <4> QED
        BY <2>4, <2>5, <4>1, RowsLinked DEF LiveQuestions
    <3>3. \A d \in Editors : editor'[d].pc \in EditorSteps
      BY <1>0, EditorsTyped, Zenon
    <3>4. bereft' \subseteq Topics \cup Questions
      BY <2>1 DEF TreeInv, ContentTreeTypeOK, ChildrenOf, QuestionsUnder, LiveTopics,
         LiveQuestions
    <3> QED
      BY <1>0, <3>1, <3>2, <3>3, <3>4 DEF TreeInv, ContentTreeTypeOK, EditorSteps
  <2>7. ASSUME NEW d \in Editors \ {e}, NEW r \in EditorRequests, r = editor[d]
        PROVE  Sound(r)'
    <3>1. Sound(r)
      BY <2>7 DEF TreeInv
    <3>2. \A u : TopicsOf(u)' \subseteq TopicsOf(u)
      BY <2>3, <2>4, RowsLinked DEF TopicsOf
    <3>3. \A x \in Topics : /\ topic[x].there = "never" => topic'[x].there = "never"
                            /\ topic[x].there # "never" => topic'[x].there # "never"
                            /\ topic'[x].there = "yes" => /\ topic[x].there = "yes"
                                                          /\ topic'[x].subject = topic[x].subject
      BY <1>1, <2>3, EmptyRows DEF LiveTopics
    <3>4. \A x, s : Fits(x, s) => Fits(x, s)'
      BY <3>3 DEF Fits
    <3>5. /\ r.pc = "creatingTopic" => r.it \in Topics /\ topic'[r.it].there = "never"
          /\ r.pc = "creatingQuestion" => r.it \in Questions /\ question'[r.it].there = "never"
          /\ r.pc \in {"walking", "moving"} =>
               /\ r.it \in Topics /\ topic'[r.it].there # "never"
               /\ r.topic \in Topics /\ topic'[r.topic].there # "never"
               /\ topic'[r.it].there = "yes" /\ topic'[r.topic].there = "yes" =>
                    topic'[r.it].subject = topic'[r.topic].subject
      BY <2>5, <3>1, <3>3 DEF Sound
    <3>6. r.pc = "deletingTopic" =>
             /\ r.it \in Topics
             /\ \A x \in LiveTopics' : topic'[x].parent = r.it => x \in late'
             /\ \A q \in LiveQuestions' : question'[q].topic = r.it => q \in late'
      BY <1>0, <2>3, <2>4, <2>5, <3>1, RowsLinked DEF Sound
    <3>7. r.pc = "deletingSubject" =>
             /\ r.it \in Subjects
             /\ \A x \in LiveTopics' : topic'[x].subject = r.it => x \in late'
             /\ \A q \in LiveQuestions' :
                  question'[q].subject = r.it \/ question'[q].topic \in TopicsOf(r.it)' => q \in late'
      <4>1. None \notin TopicsOf(r.it)'
        BY <3>2, RowsLinked DEF TopicsOf
      <4> QED
        BY <1>0, <2>3, <2>4, <2>5, <3>1, <3>2, <4>1, RowsLinked DEF Sound
    <3>8. r.pc = "placingQuestion" =>
             /\ r.it \in Questions /\ question'[r.it].there # "never"
             /\ r.checked =>
                  /\ r.subject = None /\ r.topic \in Topics /\ topic'[r.topic].there # "never"
                  /\ r.it \in LiveQuestions' \ unplaced' /\ r.topic \in LiveTopics' =>
                       topic'[r.topic].subject = question'[r.it].subject
      BY <1>0, <2>3, <2>4, <2>5, <3>1, <3>3 DEF Sound
    <3> QED
      BY <3>1, <3>4, <3>5, <3>6, <3>7, <3>8 DEF Sound
  <2>8. QuestionTopicInSubject'
    BY <1>0, <2>3, <2>5, RowsLinked DEF TreeInv, QuestionTopicInSubject
  <2>9. NothingUsedIsTaken'
    BY <1>0, <2>1, <2>2 DEF TreeInv, NothingUsedIsTaken
  <2> QED
    BY <1>0, <2>4, <2>5, <2>6, <2>7, <2>8, <2>9, EditorEnds, Zenon
<1>2. CASE t \notin LiveTopics
  BY <1>0, <1>2, EmptyRows, CallsLeft, EditorMoves, Zenon DEF DeleteTopic, Sound
<1> QED
  BY <1>1, <1>2

LEMMA SubjectDeleted ==
  ASSUME TreeInv, NEW e \in Editors, DeleteSubject(e)
  PROVE  TreeInv'
<1> DEFINE s == editor[e].it
<1>1. /\ editor[e].pc = "deletingSubject" /\ editor' = [editor EXCEPT ![e] = NoEditor]
      /\ subjects' = subjects \ {s}
      /\ topic' = [t \in Topics |-> IF t \in TopicsOf(s) THEN GoneTopic ELSE topic[t]]
      /\ question' = [q \in Questions |->
           IF q \in QuestionsOf(s) THEN GoneQuestion
           ELSE IF question[q].topic \in TopicsOf(s) THEN [question[q] EXCEPT !.topic = None]
           ELSE question[q]]
      /\ bereft' = bereft \cup TopicsOf(s) \cup QuestionsOf(s)
                     \cup UNION {QuestionsUnder(t) : t \in TopicsOf(s)}
      /\ UNCHANGED <<calls, crossed, unplaced, late>>
  BY DEF DeleteSubject, EndCall, GoOnAs
<1>2. /\ \A x \in LiveTopics : topic[x].subject = s => x \in late
      /\ \A q \in LiveQuestions :
           question[q].subject = s \/ question[q].topic \in TopicsOf(s) => q \in late
  BY <1>1 DEF TreeInv, Sound
<1> HIDE DEF s
<1>3. bereft' \subseteq bereft \cup late
  <2>1. TopicsOf(s) \subseteq late /\ QuestionsOf(s) \subseteq late
    BY <1>2 DEF TopicsOf, QuestionsOf
  <2>2. ASSUME NEW t \in TopicsOf(s) PROVE QuestionsUnder(t) \subseteq late
    BY <1>2, <2>2 DEF QuestionsUnder
  <2> QED
    BY <1>1, <2>1, <2>2
<1>4. /\ topic' \in [Topics -> TopicRows]
      /\ \A x \in Topics : \/ x \in TopicsOf(s) /\ topic'[x] = GoneTopic
                           \/ x \notin TopicsOf(s) /\ topic'[x] = topic[x]
  BY <1>1, EmptyRows DEF TreeInv, TreeTyped
<1>5. LiveTopics' = LiveTopics \ TopicsOf(s)
  BY <1>4, EmptyRows DEF LiveTopics
<1>6. ASSUME NEW q \in Questions
      PROVE  /\ question'[q] \in QuestionRows
             /\ question'[q].there = question[q].there \/ question'[q].there = "gone"
             /\ question'[q].there = "gone" => question[q].there # "never"
             /\ question'[q].there = "yes" =>
                  /\ question[q].there = "yes" /\ q \notin QuestionsOf(s)
                  /\ question'[q].subject = question[q].subject
                  /\ \/ question'[q].topic = None
                     \/ /\ question'[q].topic = question[q].topic
                        /\ question[q].topic \notin TopicsOf(s)
             /\ q \notin LiveQuestions => question'[q] = question[q]
  <2>1. question[q] \in QuestionRows
    BY DEF TreeInv, TreeTyped
  <2>0. q \notin LiveQuestions => question[q].topic = None /\ None \notin TopicsOf(s)
    BY RowsLinked
    DEF TreeInv, ContentTreeTypeOK, LiveQuestions, NoQuestion, GoneQuestion, TopicsOf
  <2>2. CASE q \in QuestionsOf(s)
    BY <1>1, <2>2, EmptyRows DEF QuestionsOf, LiveQuestions
  <2>3. CASE q \notin QuestionsOf(s) /\ question[q].topic \in TopicsOf(s)
    BY <1>1, <2>0, <2>1, <2>3, ContentTreeAssumption DEF QuestionRows, LiveQuestions
  <2>4. CASE q \notin QuestionsOf(s) /\ question[q].topic \notin TopicsOf(s)
    BY <1>1, <2>1, <2>4
  <2> QED
    BY <2>2, <2>3, <2>4
<1>7. question' \in [Questions -> QuestionRows] /\ LiveQuestions' = LiveQuestions \ QuestionsOf(s)
  BY <1>1, <1>6, EmptyRows DEF LiveQuestions, QuestionsOf
<1>8. ContentTreeTypeOK'
  <2>1. ASSUME NEW x \in Topics, topic'[x] \notin {NoTopic, GoneTopic}
        PROVE  /\ topic'[x].there = "yes" /\ topic'[x].subject \in subjects'
               /\ topic'[x].parent # None =>
                    /\ topic'[x].parent \in LiveTopics'
                    /\ topic'[topic'[x].parent].subject = topic'[x].subject
    <3>1. x \in LiveTopics /\ x \notin TopicsOf(s) /\ topic'[x] = topic[x]
      BY <1>4, <2>1 DEF TreeInv, ContentTreeTypeOK, LiveTopics
    <3> QED
      BY <1>1, <1>4, <1>5, <3>1, RowsLinked DEF TopicsOf, LiveTopics
  <2>2. ASSUME NEW q \in Questions, question'[q] \notin {NoQuestion, GoneQuestion}
        PROVE  /\ question'[q].there = "yes" /\ question'[q].subject \in subjects'
               /\ question'[q].topic \in LiveTopics' \cup {None}
    <3>1. q \in LiveQuestions
      BY <1>6, <2>2 DEF TreeInv, ContentTreeTypeOK, LiveQuestions
    <3>2. q \notin QuestionsOf(s)
      BY <1>1, <2>2 DEF QuestionsOf
    <3>3. question'[q].there = "yes"
      BY <1>7, <3>1, <3>2 DEF LiveQuestions
    <3>4. question[q].subject # s
      BY <3>1, <3>2 DEF QuestionsOf
    <3>5. /\ question'[q].subject = question[q].subject
          /\ \/ question'[q].topic = None
             \/ question'[q].topic = question[q].topic /\ question[q].topic \notin TopicsOf(s)
      BY <1>6, <3>3
    <3>6. question[q].subject \in subjects /\ question[q].topic \in LiveTopics \cup {None}
      BY <3>1, RowsLinked
    <3> QED
      BY <1>1, <1>5, <3>3, <3>4, <3>5, <3>6
  <2>3. \A d \in Editors : editor'[d].pc \in EditorSteps
    BY <1>1, EditorsTyped, Zenon
  <2>4. late' \cup bereft' \subseteq Topics \cup Questions
    BY <1>1, <1>3 DEF TreeInv, ContentTreeTypeOK
  <2>5. subjects' \subseteq Subjects
    BY <1>1, RowsLinked
  <2> QED
    BY <1>1, <2>1, <2>2, <2>3, <2>4, <2>5, Zenon DEF TreeInv, ContentTreeTypeOK, EditorSteps
<1>9. ASSUME NEW d \in Editors \ {e}, NEW r \in EditorRequests, r = editor[d]
      PROVE  Sound(r)'
  <2>1. Sound(r)
    BY <1>9 DEF TreeInv
  <2>2. \A u : TopicsOf(u)' \subseteq TopicsOf(u)
    BY <1>4, <1>5, RowsLinked DEF TopicsOf
  <2>3. \A x \in Topics : /\ topic[x].there = "never" => topic'[x].there = "never"
                          /\ topic[x].there # "never" => topic'[x].there # "never"
                          /\ topic'[x].there = "yes" => topic'[x] = topic[x]
    BY <1>4, EmptyRows DEF TopicsOf, LiveTopics
  <2>4. \A x, u : Fits(x, u) => Fits(x, u)'
    BY <2>3 DEF Fits
  <2>5. \A q \in Questions : /\ question[q].there = "never" => question'[q].there = "never"
                             /\ question[q].there # "never" => question'[q].there # "never"
    BY <1>6 DEF LiveQuestions
  <2>6. /\ r.pc = "creatingTopic" => r.it \in Topics /\ topic'[r.it].there = "never"
        /\ r.pc = "creatingQuestion" => r.it \in Questions /\ question'[r.it].there = "never"
        /\ r.pc \in {"walking", "moving"} =>
             /\ r.it \in Topics /\ topic'[r.it].there # "never"
             /\ r.topic \in Topics /\ topic'[r.topic].there # "never"
             /\ topic'[r.it].there = "yes" /\ topic'[r.topic].there = "yes" =>
                  topic'[r.it].subject = topic'[r.topic].subject
    BY <2>1, <2>3, <2>5 DEF Sound
  <2>7. ASSUME NEW q \in LiveQuestions'
        PROVE  /\ q \in LiveQuestions /\ question'[q].subject = question[q].subject
               /\ question'[q].topic \in {None, question[q].topic}
    BY <1>6, <1>7, RowsLinked DEF LiveQuestions
  <2>8. r.pc = "deletingTopic" =>
           /\ r.it \in Topics
           /\ \A x \in LiveTopics' : topic'[x].parent = r.it => x \in late'
           /\ \A q \in LiveQuestions' : question'[q].topic = r.it => q \in late'
    BY <1>1, <1>4, <1>5, <2>1, <2>7, RowsLinked, Zenon DEF Sound
  <2>9. r.pc = "deletingSubject" =>
           /\ r.it \in Subjects
           /\ \A x \in LiveTopics' : topic'[x].subject = r.it => x \in late'
           /\ \A q \in LiveQuestions' :
                question'[q].subject = r.it \/ question'[q].topic \in TopicsOf(r.it)' => q \in late'
    <3>1. None \notin TopicsOf(r.it)'
      BY <2>2, RowsLinked DEF TopicsOf
    <3> QED
      BY <1>1, <1>4, <1>5, <2>1, <2>2, <2>7, <3>1, RowsLinked DEF Sound
  <2>10. r.pc = "placingQuestion" =>
           /\ r.it \in Questions /\ question'[r.it].there # "never"
           /\ r.checked =>
                /\ r.subject = None /\ r.topic \in Topics /\ topic'[r.topic].there # "never"
                /\ r.it \in LiveQuestions' \ unplaced' /\ r.topic \in LiveTopics' =>
                     topic'[r.topic].subject = question'[r.it].subject
    BY <1>1, <1>4, <1>5, <2>1, <2>3, <2>5, <2>7, Zenon DEF Sound
  <2> QED
    BY <2>1, <2>4, <2>6, <2>8, <2>9, <2>10 DEF Sound
<1>10. QuestionTopicInSubject'
  <2>1. ASSUME NEW q \in LiveQuestions' \ unplaced', question'[q].topic # None
        PROVE  topic'[question'[q].topic].subject = question'[q].subject
    <3>1. /\ q \in LiveQuestions \ unplaced /\ question'[q].subject = question[q].subject
          /\ question'[q].topic = question[q].topic /\ question[q].topic \notin TopicsOf(s)
      BY <1>1, <1>6, <1>7, <2>1, RowsLinked, Zenon DEF LiveQuestions
    <3>2. question[q].topic \in Topics
      BY <2>1, <3>1, RowsLinked
    <3> QED
      BY <1>4, <2>1, <3>1, <3>2 DEF TreeInv, QuestionTopicInSubject
  <2> QED
    BY <2>1 DEF QuestionTopicInSubject
<1>11. NothingUsedIsTaken'
  BY <1>1, <1>3 DEF TreeInv, NothingUsedIsTaken
<1> QED
  BY <1>1, <1>4, <1>7, <1>8, <1>9, <1>10, <1>11, EditorEnds, Zenon DEF s

LEMMA TreeStep == TreeInv /\ [ContentTreeNext]_cvars => TreeInv'
<1> SUFFICES ASSUME TreeInv, [ContentTreeNext]_cvars PROVE TreeInv'
  OBVIOUS
<1>1. CASE UNCHANGED cvars
  BY <1>1 DEF cvars, TreeInv, TreeTyped, ContentTreeTypeOK, Sound, Fits, Apart, LiveTopics,
              LiveQuestions, TopicsOf, QuestionTopicInSubject, NothingUsedIsTaken
<1>2. CASE ContentTreeNext
  <2>1. PICK e \in Editors :
          \/ EditorStep(e)
          \/ \E t \in Topics :
               \/ BeginDeleteTopic(e, t)
               \/ \E p \in Topics : BeginMoveTopic(e, t, p)
               \/ \E s \in Subjects, p \in Topics \cup {None} : BeginCreateTopic(e, t, s, p)
          \/ \E s \in Subjects : BeginDeleteSubject(e, s)
          \/ \E q \in Questions, t \in Topics \cup {None} :
               \/ \E s \in Subjects : BeginCreateQuestion(e, q, s, t)
               \/ \E s \in Subjects \cup {None} : BeginPlaceQuestion(e, q, s, t)
    BY <1>2 DEF ContentTreeNext
  <2>2. CASE EditorStep(e)
    BY <2>2, TopicCreated, WalkGoesUp, TopicMoved, TopicDeleted, SubjectDeleted, QuestionCreated,
       QuestionPlaced DEF EditorStep
  <2>3. CASE \E t \in Topics :
               \/ BeginDeleteTopic(e, t)
               \/ \E p \in Topics : BeginMoveTopic(e, t, p)
               \/ \E s \in Subjects, p \in Topics \cup {None} : BeginCreateTopic(e, t, s, p)
    BY <2>3, TopicDeletionBegins, MoveBegins, TopicCreationBegins
  <2>4. CASE \E s \in Subjects : BeginDeleteSubject(e, s)
    BY <2>4, SubjectDeletionBegins
  <2>5. CASE \E q \in Questions, t \in Topics \cup {None} :
               \/ \E s \in Subjects : BeginCreateQuestion(e, q, s, t)
               \/ \E s \in Subjects \cup {None} : BeginPlaceQuestion(e, q, s, t)
    BY <2>5, QuestionCreationBegins, PlacementBegins
  <2> QED
    BY <2>1, <2>2, <2>3, <2>4, <2>5
<1> QED
  BY <1>1, <1>2

(* The tree *)

\* What a walk has passed: topics that lead from the new parent up to the one it moves, and
\* of which none was moved meanwhile, would lead it past the place it has come to.
Walked(c) ==
  c.pc \in {"walking", "moving"} /\ c.it \notin crossed =>
    \A C \in SUBSET (Topics \ crossed) :
      c.topic \in C /\ (\A x \in C : x # c.it => ParentOf(x) \in C)
        => c.cursor \in C /\ c.cursor # c.it
WalkSound(c) == Walked(c) /\ (c.pc = "moving" => c.cursor = None)

TreeGrows == TopicsAcyclic /\ \A e \in Editors : WalkSound(editor[e])

LEMMA TreeRoots == ContentTreeInit => TreeGrows
<1> SUFFICES ASSUME ContentTreeInit PROVE TreeGrows
  OBVIOUS
<1>1. PICK s \in Subjects, there \in SUBSET Topics \ {Topics} :
        topic = [t \in Topics |->
                  IF t \in there THEN [there |-> "yes", subject |-> s, parent |-> None]
                  ELSE NoTopic]
  BY DEF ContentTreeInit
<1>2. ASSUME NEW t \in Topics PROVE ParentOf(t) = None
  <2>1. topic[t] = NoTopic \/ topic[t].parent = None
    BY <1>1
  <2> QED
    BY <2>1, EmptyRows DEF ParentOf, LiveTopics
<1>3. TopicsAcyclic
  BY <1>2, ContentTreeAssumption DEF TopicsAcyclic
<1>4. \A e \in Editors : WalkSound(editor[e])
  BY EmptyRows DEF ContentTreeInit, WalkSound, Walked
<1> QED
  BY <1>3, <1>4 DEF TreeGrows

\* A step that gives no topic a parent: what is left of the tree is as it was.
LEMMA ParentsFall ==
  ASSUME TreeGrows, crossed \subseteq crossed',
         \A t \in Topics : ParentOf(t)' \in {ParentOf(t), None},
         \A d \in Editors : \/ editor'[d] = editor[d]
                            \/ editor'[d].pc \notin {"walking", "moving"}
                            \/ WalkSound(editor[d])'
  PROVE  TreeGrows'
<1>1. ASSUME NEW C \in SUBSET (Topics \ crossed'), NEW t \in C, ParentOf(t)' \in C
      PROVE  ParentOf(t) \in C
  BY <1>1, ContentTreeAssumption
<1>2. TopicsAcyclic'
  BY <1>1 DEF TreeGrows, TopicsAcyclic
<1>3. ASSUME NEW c, WalkSound(c) PROVE WalkSound(c)'
  <2>1. ASSUME c.pc \in {"walking", "moving"} /\ c.it \notin crossed',
               NEW C \in SUBSET (Topics \ crossed'), c.topic \in C,
               \A x \in C : x # c.it => ParentOf(x)' \in C
        PROVE  c.cursor \in C /\ c.cursor # c.it
    <3>1. C \in SUBSET (Topics \ crossed) /\ c.it \notin crossed
      BY <2>1
    <3>2. \A x \in C : x # c.it => ParentOf(x) \in C
      BY <1>1, <2>1
    <3> QED
      BY <1>3, <2>1, <3>1, <3>2 DEF WalkSound, Walked
  <2>2. Walked(c)'
    BY <2>1 DEF Walked
  <2> QED
    BY <1>3, <2>2 DEF WalkSound
<1>4. ASSUME NEW d \in Editors PROVE WalkSound(editor[d])'
  <2>1. CASE editor'[d] = editor[d]
    <3> PICK c : c = editor[d]
      OBVIOUS
    <3>1. WalkSound(c)'
      BY <1>3 DEF TreeGrows
    <3> QED
      BY <2>1, <3>1 DEF WalkSound, Walked
  <2>2. CASE editor'[d].pc \notin {"walking", "moving"}
    BY <2>2 DEF WalkSound, Walked
  <2> QED
    BY <2>1, <2>2
<1> QED
  BY <1>2, <1>4 DEF TreeGrows

LEMMA TopicsUntouched ==
  ASSUME TreeInv, TreeGrows, NEW e \in Editors, NEW c,
         c.pc \in {"walking", "moving"} => WalkSound(c), editor' = [editor EXCEPT ![e] = c],
         UNCHANGED <<topic, crossed>>
  PROVE  TreeGrows'
<1>1. \A t \in Topics : ParentOf(t)' = ParentOf(t)
  BY DEF ParentOf, LiveTopics
<1>2. ASSUME NEW d \in Editors, editor'[d] # editor[d]
      PROVE  editor'[d].pc \notin {"walking", "moving"} \/ WalkSound(editor[d])'
  <2>1. editor'[d] = c
    BY <1>2 DEF TreeInv, TreeTyped
  <2>2. CASE WalkSound(c)
    <3>1. ASSUME Walked(c) PROVE Walked(c)'
      <4>1. ASSUME c.pc \in {"walking", "moving"} /\ c.it \notin crossed,
                   NEW C \in SUBSET (Topics \ crossed), c.topic \in C,
                   \A x \in C : x # c.it => ParentOf(x)' \in C
            PROVE  c.cursor \in C /\ c.cursor # c.it
        <5>1. \A x \in C : x # c.it => ParentOf(x) \in C
          BY <1>1, <4>1
        <5> QED
          BY <3>1, <4>1, <5>1 DEF Walked
      <4> QED
        BY <4>1 DEF Walked
    <3> QED
      BY <2>1, <2>2, <3>1 DEF WalkSound, Walked
  <2>3. CASE ~WalkSound(c)
    BY <2>1, <2>3
  <2> QED
    BY <2>2, <2>3
<1> QED
  BY <1>1, <1>2, ParentsFall

LEMMA WalkBegun ==
  ASSUME TreeInv, TreeGrows, NEW e \in Editors, NEW t \in Topics, NEW p \in Topics,
         BeginMoveTopic(e, t, p)
  PROVE  TreeGrows'
<1> DEFINE c == [NoEditor EXCEPT !.pc = "walking", !.it = t, !.topic = p, !.cursor = p]
<1>1. p # t /\ editor' = [editor EXCEPT ![e] = c] /\ UNCHANGED <<topic, crossed>>
  BY DEF BeginMoveTopic, Call
<1>2. c.pc = "walking" /\ c.it = t /\ c.topic = p /\ c.cursor = p
  BY DEF NoEditor
<1> HIDE DEF c
<1>3. WalkSound(c)
  BY <1>1, <1>2 DEF WalkSound, Walked
<1> QED
  BY <1>1, <1>3, TopicsUntouched, Zenon

LEMMA WalkedUp ==
  ASSUME TreeInv, TreeGrows, NEW e \in Editors, WalkUp(e)
  PROVE  TreeGrows'
<1> DEFINE c == editor[e]
           above == ReadParent(c.cursor)
           d == [c EXCEPT !.pc = IF above = None THEN "moving" ELSE "walking",
                          !.cursor = above, !.steps = @ + 1]
<1>1. /\ c.pc = "walking" /\ UNCHANGED <<topic, crossed>>
      /\ \/ editor' = [editor EXCEPT ![e] = NoEditor]
         \/ editor' = [editor EXCEPT ![e] = d] /\ above # c.it
  BY DEF WalkUp, EndCall, GoOnAs
<1>2. c \in EditorRequests /\ WalkSound(c)
  BY DEF TreeInv, TreeTyped, TreeGrows
<1>3. above = ParentOf(c.cursor)
  BY DEF ReadParent
<1> HIDE DEF c, above
<1>4. CASE editor' = [editor EXCEPT ![e] = NoEditor]
  BY <1>1, <1>4, EmptyRows, TopicsUntouched, Zenon
<1>5. CASE editor' = [editor EXCEPT ![e] = d] /\ above # c.it
  <2>1. /\ d.it = c.it /\ d.topic = c.topic /\ d.cursor = above
        /\ d.pc = IF above = None THEN "moving" ELSE "walking"
    BY <1>2 DEF EditorRequests
  <2> HIDE DEF d
  <2>2. ASSUME d.it \notin crossed, NEW C \in SUBSET (Topics \ crossed), d.topic \in C,
               \A x \in C : x # d.it => ParentOf(x) \in C
        PROVE  d.cursor \in C /\ d.cursor # d.it
    <3>1. c.cursor \in C /\ c.cursor # c.it
      BY <1>1, <1>2, <2>1, <2>2 DEF WalkSound, Walked
    <3> QED
      BY <1>3, <1>5, <2>1, <2>2, <3>1
  <2>3. WalkSound(d)
    BY <2>1, <2>2 DEF WalkSound, Walked
  <2> QED
    BY <1>1, <1>5, <2>3, TopicsUntouched, Zenon
<1> QED
  BY <1>1, <1>4, <1>5

\* A topic that is new has none under it.
LEMMA TopicAdded ==
  ASSUME TreeInv, TreeGrows, NEW e \in Editors, CreateTopic(e)
  PROVE  TreeGrows'
<1> PICK c : c = editor[e]
  OBVIOUS
<1> PICK row : row = [there |-> "yes", subject |-> c.subject, parent |-> c.topic]
  BY Zenon
<1>1. /\ c.pc = "creatingTopic" /\ editor' = [editor EXCEPT ![e] = NoEditor]
      /\ UNCHANGED crossed
      /\ \/ topic' = [topic EXCEPT ![c.it] = row] /\ c.topic \in LiveTopics \cup {None}
         \/ topic' = topic
  BY DEF CreateTopic, EndCall, GoOnAs
<1>2. CASE topic' = topic
  BY <1>1, <1>2, EmptyRows, TopicsUntouched, Zenon
<1>3. CASE topic' = [topic EXCEPT ![c.it] = row] /\ c.topic \in LiveTopics \cup {None}
  <2>1. c.it \in Topics /\ topic[c.it].there = "never" /\ c.it \notin LiveTopics
    BY <1>1 DEF TreeInv, Sound, LiveTopics
  <2>2. /\ \A t \in Topics \ {c.it} : ParentOf(t)' = ParentOf(t) /\ ParentOf(t) # c.it
        /\ ParentOf(c.it)' = c.topic /\ c.topic # c.it
    <3>1. \A t \in Topics \ {c.it} : topic'[t] = topic[t]
      BY <1>3, <2>1 DEF TreeInv, TreeTyped
    <3>2. topic'[c.it].there = "yes" /\ topic'[c.it].parent = c.topic
      BY <1>3, <2>1 DEF TreeInv, TreeTyped
    <3>3. \A t \in Topics \ {c.it} : ParentOf(t) # c.it
      BY <2>1, RowsLinked DEF ParentOf
    <3> QED
      BY <1>3, <2>1, <3>1, <3>2, <3>3, RowsLinked DEF ParentOf, LiveTopics
  <2>3. None \notin Topics
    BY RowsLinked
  <2>4. TopicsAcyclic'
    <3>1. ASSUME NEW C \in SUBSET (Topics \ crossed), C # {}, \A t \in C : ParentOf(t)' \in C
          PROVE  FALSE
      <4> DEFINE B == C \ {c.it}
      <4>1. B \in SUBSET (Topics \ crossed) /\ \A t \in B : ParentOf(t) \in B
        BY <2>2, <3>1
      <4>2. B # {}
        BY <2>2, <3>1
      <4> HIDE DEF B
      <4> QED
        BY <4>1, <4>2 DEF TreeGrows, TopicsAcyclic
    <3> QED
      BY <1>1, <3>1 DEF TopicsAcyclic
  <2>5. ASSUME NEW d \in Editors PROVE WalkSound(editor[d])'
    <3>1. CASE d = e
      BY <1>1, <3>1, EmptyRows DEF TreeInv, TreeTyped, WalkSound, Walked
    <3>2. CASE d # e
      <4> PICK r : r = editor[d]
        OBVIOUS
      <4>1. editor'[d] = r /\ WalkSound(r) /\ Sound(r)
        BY <1>1, <3>2 DEF TreeInv, TreeTyped, TreeGrows
      <4>2. ASSUME r.pc \in {"walking", "moving"} /\ r.it \notin crossed,
                   NEW C \in SUBSET (Topics \ crossed), r.topic \in C,
                   \A x \in C : x # r.it => ParentOf(x)' \in C
            PROVE  r.cursor \in C /\ r.cursor # r.it
        <5> DEFINE B == C \ {c.it}
        <5>1. r.it # c.it /\ r.topic # c.it
          BY <2>1, <4>1, <4>2 DEF Sound
        <5>2. /\ B \in SUBSET (Topics \ crossed) /\ r.topic \in B /\ B \subseteq C
              /\ \A x \in B : x # r.it => ParentOf(x) \in B
          BY <2>2, <4>2, <5>1
        <5> HIDE DEF B
        <5>3. r.cursor \in B /\ r.cursor # r.it
          BY <4>1, <4>2, <5>2 DEF WalkSound, Walked
        <5> QED
          BY <5>2, <5>3
      <4>3. Walked(r)'
        BY <1>1, <4>2 DEF Walked
      <4> QED
        BY <4>1, <4>3 DEF WalkSound, Walked
    <3> QED
      BY <3>1, <3>2
  <2> QED
    BY <2>4, <2>5 DEF TreeGrows
<1> QED
  BY <1>1, <1>2, <1>3

\* A topic gets the parent its walk began from: nothing leads from there back to it, or it is
\* among those moved while another was.
LEMMA TopicLifted ==
  ASSUME TreeInv, TreeGrows, NEW e \in Editors, MoveTopic(e)
  PROVE  TreeGrows'
<1> PICK c : c = editor[e]
  OBVIOUS
<1> DEFINE others == {editor[d].it : d \in Movers \ {e}}
<1>1. /\ c.pc = "moving" /\ editor' = [editor EXCEPT ![e] = NoEditor]
      /\ \/ UNCHANGED <<topic, crossed>>
         \/ /\ {c.it, c.topic} \subseteq LiveTopics
            /\ topic' = [topic EXCEPT ![c.it].parent = c.topic]
            /\ crossed' = IF others = {} THEN crossed ELSE crossed \cup others \cup {c.it}
  BY Zenon DEF MoveTopic, EndCall, GoOnAs
<1>2. CASE UNCHANGED <<topic, crossed>>
  BY <1>1, <1>2, EmptyRows, TopicsUntouched, Zenon
<1>3. CASE /\ {c.it, c.topic} \subseteq LiveTopics
           /\ topic' = [topic EXCEPT ![c.it].parent = c.topic]
           /\ crossed' = IF others = {} THEN crossed ELSE crossed \cup others \cup {c.it}
  <2>1. c.it \in Topics /\ c.topic \in Topics /\ None \notin Topics /\ WalkSound(c)
    BY <1>3, RowsLinked DEF TreeGrows
  <2>2. /\ \A t \in Topics \ {c.it} : ParentOf(t)' = ParentOf(t)
        /\ ParentOf(c.it)' = c.topic
    <3>1. \A t \in Topics \ {c.it} : topic'[t] = topic[t]
      BY <1>3, <2>1 DEF TreeInv, TreeTyped
    <3>2. topic'[c.it].there = topic[c.it].there /\ topic'[c.it].parent = c.topic
      BY <1>3, <2>1 DEF TreeInv, TreeTyped, TopicRows
    <3> QED
      BY <1>3, <2>1, <3>1, <3>2 DEF ParentOf, LiveTopics
  <2>3. crossed \subseteq crossed'
    BY <1>3
  <2>4. ASSUME NEW d \in Editors \ {e}, editor[d].pc \in {"walking", "moving"}
        PROVE  editor[d].it \in crossed'
    BY <1>3, <2>4 DEF Movers
  <2> HIDE DEF others
  <2>5. TopicsAcyclic'
    <3>1. ASSUME NEW C \in SUBSET (Topics \ crossed'), C # {}, \A t \in C : ParentOf(t)' \in C
          PROVE  FALSE
      <4>1. C \in SUBSET (Topics \ crossed)
        BY <2>3
      <4>2. CASE c.it \notin C
        <5>1. \A t \in C : ParentOf(t) \in C
          BY <2>2, <3>1, <4>2
        <5> QED
          BY <3>1, <4>1, <5>1 DEF TreeGrows, TopicsAcyclic
      <4>3. CASE c.it \in C
        <5>1. c.topic \in C /\ \A x \in C : x # c.it => ParentOf(x) \in C
          BY <2>2, <3>1, <4>3
        <5>2. c.cursor \in C /\ c.cursor = None
          BY <1>1, <2>1, <4>1, <4>3, <5>1 DEF WalkSound, Walked
        <5> QED
          BY <2>1, <5>2
      <4> QED
        BY <4>2, <4>3
    <3> QED
      BY <3>1 DEF TopicsAcyclic
  <2>6. ASSUME NEW d \in Editors PROVE WalkSound(editor[d])'
    <3>1. CASE d = e
      BY <1>1, <3>1, EmptyRows DEF TreeInv, TreeTyped, WalkSound, Walked
    <3>2. CASE d # e
      <4>1. editor'[d] = editor[d] /\ WalkSound(editor[d])
        BY <1>1, <3>2 DEF TreeInv, TreeTyped, TreeGrows
      <4> QED
        BY <2>4, <3>2, <4>1 DEF WalkSound, Walked
    <3> QED
      BY <3>1, <3>2
  <2> QED
    BY <2>5, <2>6 DEF TreeGrows
<1> QED
  BY <1>1, <1>2, <1>3, Zenon

LEMMA TreeCut ==
  ASSUME TreeInv, TreeGrows, NEW e \in Editors, DeleteTopic(e) \/ DeleteSubject(e)
  PROVE  TreeGrows'
<1>1. editor' = [editor EXCEPT ![e] = NoEditor] /\ UNCHANGED crossed
  BY DEF DeleteTopic, DeleteSubject, EndCall, GoOnAs
<1>2. ASSUME NEW t \in Topics PROVE ParentOf(t)' \in {ParentOf(t), None}
  <2>1. CASE topic'[t] = topic[t]
    BY <2>1 DEF ParentOf, LiveTopics
  <2>2. CASE topic'[t] = GoneTopic
    BY <2>2, EmptyRows DEF ParentOf, LiveTopics
  <2>3. CASE topic'[t] = [topic[t] EXCEPT !.parent = None]
    <3>1. topic[t] \in TopicRows
      BY DEF TreeInv, TreeTyped
    <3>2. topic'[t].parent = None
      BY <2>3, <3>1 DEF TopicRows
    <3> QED
      BY <3>2 DEF ParentOf
  <2>4. topic'[t] \in {topic[t], GoneTopic, [topic[t] EXCEPT !.parent = None]}
    <3>1. CASE DeleteTopic(e)
      BY <3>1 DEF DeleteTopic
    <3>2. CASE DeleteSubject(e)
      BY <3>2 DEF DeleteSubject
    <3> QED
      BY <3>1, <3>2
  <2> QED
    BY <2>1, <2>2, <2>3, <2>4
<1>3. \A d \in Editors : editor'[d] = editor[d] \/ editor'[d].pc \notin {"walking", "moving"}
  BY <1>1, EmptyRows DEF TreeInv, TreeTyped
<1> QED
  BY <1>1, <1>2, <1>3, ParentsFall

LEMMA TreeGrown == TreeInv /\ TreeGrows /\ [ContentTreeNext]_cvars => TreeGrows'
<1> SUFFICES ASSUME TreeInv, TreeGrows, [ContentTreeNext]_cvars PROVE TreeGrows'
  OBVIOUS
<1>1. CASE UNCHANGED cvars
  <2>1. UNCHANGED <<topic, crossed, editor>>
    BY <1>1 DEF cvars
  <2>2. \A t \in Topics : ParentOf(t)' = ParentOf(t)
    BY <2>1 DEF ParentOf, LiveTopics
  <2> QED
    BY <2>1, <2>2, ParentsFall
<1>2. ASSUME NEW e \in Editors, EditorStep(e) PROVE TreeGrows'
  <2>1. CASE CreateQuestion(e) \/ PlaceQuestion(e)
    <3>1. editor' = [editor EXCEPT ![e] = NoEditor] /\ UNCHANGED <<topic, crossed>>
      BY <2>1 DEF CreateQuestion, PlaceQuestion, EndCall, GoOnAs
    <3> QED
      BY <3>1, EmptyRows, TopicsUntouched, Zenon
  <2> QED
    BY <1>2, <2>1, TopicAdded, WalkedUp, TopicLifted, TreeCut DEF EditorStep
<1>3. ASSUME NEW e \in Editors, NEW c, c.pc \notin {"walking", "moving"}, Call(e, c),
             UNCHANGED <<topic, crossed>>
      PROVE  TreeGrows'
  BY <1>3, TopicsUntouched, Zenon DEF Call
<1>4. ASSUME NEW e \in Editors, NEW t \in Topics,
             \/ BeginDeleteTopic(e, t)
             \/ \E s \in Subjects, p \in Topics \cup {None} : BeginCreateTopic(e, t, s, p)
      PROVE  TreeGrows'
  <2>1. CASE BeginDeleteTopic(e, t)
    <3> PICK c : c = [NoEditor EXCEPT !.pc = "deletingTopic", !.it = t]
      OBVIOUS
    <3>1. c.pc = "deletingTopic"
      BY DEF NoEditor
    <3> QED
      BY <1>3, <2>1, <3>1, Zenon DEF BeginDeleteTopic
  <2>2. ASSUME NEW s \in Subjects, NEW p \in Topics \cup {None}, BeginCreateTopic(e, t, s, p)
        PROVE  TreeGrows'
    <3> PICK c : c = [NoEditor EXCEPT !.pc = "creatingTopic", !.it = t, !.subject = s, !.topic = p]
      OBVIOUS
    <3>1. c.pc = "creatingTopic"
      BY DEF NoEditor
    <3> QED
      BY <1>3, <2>2, <3>1, Zenon DEF BeginCreateTopic
  <2> QED
    BY <1>4, <2>1, <2>2
<1>5. ASSUME NEW e \in Editors, NEW s \in Subjects, BeginDeleteSubject(e, s) PROVE TreeGrows'
  <2> PICK c : c = [NoEditor EXCEPT !.pc = "deletingSubject", !.it = s]
    OBVIOUS
  <2>1. c.pc = "deletingSubject"
    BY DEF NoEditor
  <2> QED
    BY <1>3, <1>5, <2>1, Zenon DEF BeginDeleteSubject
<1>6. ASSUME NEW e \in Editors, NEW q \in Questions, NEW t \in Topics \cup {None},
             \/ \E s \in Subjects : BeginCreateQuestion(e, q, s, t)
             \/ \E s \in Subjects \cup {None} : BeginPlaceQuestion(e, q, s, t)
      PROVE  TreeGrows'
  <2>1. ASSUME NEW s \in Subjects, BeginCreateQuestion(e, q, s, t) PROVE TreeGrows'
    <3> PICK c : c = [NoEditor EXCEPT !.pc = "creatingQuestion", !.it = q, !.subject = s,
                                      !.topic = t]
      OBVIOUS
    <3>1. c.pc = "creatingQuestion"
      BY DEF NoEditor
    <3> QED
      BY <1>3, <2>1, <3>1, Zenon DEF BeginCreateQuestion
  <2>2. ASSUME NEW s \in Subjects \cup {None}, BeginPlaceQuestion(e, q, s, t) PROVE TreeGrows'
    <3> PICK c : c = [NoEditor EXCEPT !.pc = "placingQuestion", !.it = q, !.subject = s,
                        !.topic = t,
                        !.checked = t # None /\ s = None /\ question[q].topic # None]
      OBVIOUS
    <3>1. c.pc = "placingQuestion"
      BY DEF NoEditor
    <3> QED
      BY <1>3, <2>2, <3>1, Zenon DEF BeginPlaceQuestion
  <2> QED
    BY <1>6, <2>1, <2>2
<1> QED
  BY <1>1, <1>2, <1>4, <1>5, <1>6, WalkBegun DEF ContentTreeNext

(***************************************************************************)
(* AssetUse                                                                *)
(***************************************************************************)

Refs == SUBSET Assets
Referrals == [pc : {"referring"}, it : Things, named : Refs, stale : BOOLEAN]
PieceUpdates ==
  [pc : {"updating"}, it : Pieces, given : [Fields -> Assets \cup {NoAsset, Kept}], named : Refs,
   stale : BOOLEAN]
Deletions == [pc : {"deleting"}, it : Things, found : Refs, stale : BOOLEAN]
WriterRequests == {Resting} \cup Referrals \cup PieceUpdates \cup Deletions
NoteContents == [{"file"} -> Assets \cup {NoAsset}]
Lookings == [pc : {"looking"}, asset : Assets, left : SUBSET Things, users : SUBSET Things]
Openings == [pc : {"open"}, via : Things, public : BOOLEAN, users : SUBSET Things]

UseTyped ==
  /\ asset \in [Assets -> {"none", "begun", "stored", "short", "confirmed"}]
  /\ content \in [Things -> Contents \cup NoteContents \cup {Absent}]
  /\ \A p \in Pieces : content[p] \in Contents \cup {Absent}
  /\ \A n \in Notes : content[n] \in NoteContents \cup {Absent}
  /\ public \subseteq {p \in Things : There(p)}
  /\ refs \in [Assets -> SUBSET Things]
  /\ writer \in [Writers -> WriterRequests]
  /\ student \in {NoOpening} \cup Lookings \cup Openings
  /\ writes \in 0 .. MaxWrites /\ astray \subseteq Things

\* A creation that nobody has overtaken: its references are still to come.
Awaited(p) ==
  \E w \in Writers :
    writer[w].pc = "referring" /\ writer[w].it = p /\ ~writer[w].stale

\* A piece refers to what its content names, or to nothing while its creation is to refer.
UseSound(p) ==
  /\ p \notin astray => \/ RefsOf(p) = NamedIn(content[p])
                        \/ RefsOf(p) = {} /\ Awaited(p)
  /\ RefsOf(p) \subseteq Confirmed

\* A request that nobody has overtaken names what the content will be when it is done, a
\* deletion the references there are.
WriterSound(r) ==
  /\ r.pc = "referring" /\ ~r.stale =>
       r.named = NamedIn(content[r.it]) /\ RefsOf(r.it) = {}
  /\ r.pc = "updating" =>
       /\ r.named \subseteq Confirmed
       /\ ~r.stale /\ There(r.it) => r.named = NamedIn(Merged(content[r.it], r.given))
  /\ r.pc = "deleting" /\ ~r.stale => RefsOf(r.it) = r.found

\* What a student may still look at named the file, or had gone astray, when he asked.
StudentSound ==
  /\ student.pc = "looking" => student.left \subseteq student.users
  /\ student.pc = "open" => student.public /\ student.via \in student.users

OneCreation ==
  \A v, w \in Writers :
    /\ writer[v].pc = "referring" /\ writer[w].pc = "referring" /\ writer[v].it = writer[w].it
    => v = w

UseInv ==
  /\ UseTyped /\ StudentSound /\ OneCreation
  /\ \A p \in Things : UseSound(p)
  /\ \A w \in Writers : WriterSound(writer[w])

LEMMA EmptyUse ==
  /\ Resting \in WriterRequests /\ Resting.pc = "away"
  /\ NoOpening.pc = "away" /\ NamedIn(Absent) = {}
  BY DEF Resting, WriterRequests, NoOpening, NamedIn, Absent

LEMMA ContentThere ==
  /\ \A c \in Contents : c # Absent /\ NamedIn(c) \subseteq Assets
  /\ \A c \in NoteContents : c # Absent /\ NamedIn(c) = {c.file} \ {NoAsset}
  /\ \A c \in NoteContents : NamedIn(c) \subseteq Assets
<1>1. DOMAIN Absent = {}
  BY DEF Absent
<1>2. ASSUME NEW c \in Contents PROVE c # Absent /\ NamedIn(c) \subseteq Assets
  BY <1>1, AssetUseAssumption DEF Contents, NamedIn
<1>3. ASSUME NEW c \in NoteContents
      PROVE  /\ c # Absent /\ NamedIn(c) = {c.file} \ {NoAsset}
             /\ NamedIn(c) \subseteq Assets
  <2>1. DOMAIN c = {"file"} /\ c["file"] \in Assets \cup {NoAsset}
    BY DEF NoteContents
  <2> QED
    BY <1>1, <2>1 DEF NamedIn
<1> QED
  BY <1>2, <1>3

LEMMA UseBegins == AssetUseInit => UseInv
<1> SUFFICES ASSUME AssetUseInit PROVE UseInv
  OBVIOUS
<1>1. /\ asset \in [Assets -> {"none", "confirmed"}] /\ content = [p \in Things |-> Absent]
      /\ public = {} /\ refs = [a \in Assets |-> {}] /\ writer = [w \in Writers |-> Resting]
      /\ student = NoOpening /\ writes = MaxWrites /\ astray = {}
  BY DEF AssetUseInit
<1>2. UseTyped
  <2>1. Pieces \subseteq Things /\ Notes \subseteq Things
    BY DEF Things
  <2>2. \A p \in Things : content[p] = Absent
    BY <1>1
  <2>3. writes \in 0 .. MaxWrites
    BY <1>1, AssetUseAssumption
  <2> QED
    BY <1>1, <2>1, <2>2, <2>3, EmptyUse DEF UseTyped
<1>3. \A p \in Things : UseSound(p)
  BY <1>1, EmptyUse DEF UseSound, RefsOf
<1>4. \A w \in Writers : WriterSound(writer[w])
  BY <1>1, EmptyUse DEF WriterSound
<1> QED
  BY <1>1, <1>2, <1>3, <1>4, EmptyUse DEF UseInv, StudentSound, OneCreation

\* What the invariant says of references, openings and shapes.
LEMMA UseTells == UseInv => AssetUseTypeOK /\ AssetsReferenced /\ OpenedThroughUse
<1> SUFFICES ASSUME UseInv PROVE AssetUseTypeOK /\ AssetsReferenced /\ OpenedThroughUse
  OBVIOUS
<1>1. AssetUseTypeOK
  <2>1. \A w \in Writers : writer[w].pc \in {"away", "referring", "updating", "deleting"}
    BY EmptyUse DEF UseInv, UseTyped, WriterRequests, Referrals, PieceUpdates, Deletions
  <2>2. student.pc \in {"away", "looking", "open"}
    BY EmptyUse DEF UseInv, UseTyped, Lookings, Openings
  <2> QED
    BY <2>1, <2>2 DEF UseInv, UseTyped, AssetUseTypeOK, NoteContents
<1>2. ASSUME NEW p \in Things \ astray, RefsOf(p) # NamedIn(content[p])
      PROVE  \E w \in RequestsOn(p) : writer[w].pc = "referring"
  <2>1. PICK w \in Writers : writer[w].pc = "referring" /\ writer[w].it = p
    BY <1>2 DEF UseInv, UseSound, Awaited
  <2> QED
    BY <2>1, EmptyUse DEF RequestsOn
<1>3. ASSUME NEW a \in Assets, refs[a] # {} PROVE a \in Confirmed
  <2>1. PICK p \in Things : p \in refs[a]
    BY <1>3 DEF UseInv, UseTyped
  <2> QED
    BY <2>1 DEF UseInv, UseSound, RefsOf
<1> QED
  BY <1>1, <1>2, <1>3 DEF AssetsReferenced, OpenedThroughUse, UseInv, StudentSound

LEMMA UseChecked ==
  ASSUME UseInv
  PROVE  /\ refs \in [Assets -> SUBSET Things] /\ writer \in [Writers -> WriterRequests]
         /\ content \in [Things -> Contents \cup NoteContents \cup {Absent}]
         /\ asset \in [Assets -> {"none", "begun", "stored", "short", "confirmed"}]
         /\ astray \subseteq Things /\ Pieces \subseteq Things /\ Notes \subseteq Things
         /\ Pieces \cap Notes = {}
         /\ writes \in 0 .. MaxWrites /\ (writes > 0 => writes - 1 \in 0 .. MaxWrites)
         /\ \A p \in Pieces : content[p] \in Contents \cup {Absent}
         /\ \A n \in Notes : content[n] \in NoteContents \cup {Absent}
  BY AssetUseAssumption DEF UseInv, UseTyped, Things

\* A request by what it is doing.
LEMMA WriterKinds ==
  ASSUME UseInv, NEW w \in Writers
  PROVE  /\ writer[w].pc = "referring" => writer[w] \in Referrals
         /\ writer[w].pc = "updating" => writer[w] \in PieceUpdates
         /\ writer[w].pc = "deleting" => writer[w] \in Deletions
         /\ writer[w] = Resting <=> writer[w].pc = "away"
         /\ writer[w].pc \in {"away", "referring", "updating", "deleting"}
         /\ writer[w] \in WriterRequests /\ WriterSound(writer[w])
<1>1. writer[w] \in WriterRequests /\ WriterSound(writer[w])
  BY DEF UseInv, UseTyped
<1> QED
  BY <1>1, EmptyUse DEF WriterRequests, Referrals, PieceUpdates, Deletions

\* The references of p are what is named, and nobody else's change.
LEMMA ReferencesSet ==
  ASSUME UseInv, NEW p \in Things, NEW named \in Refs, refs' = References(p, named)
  PROVE  /\ refs' \in [Assets -> SUBSET Things] /\ RefsOf(p)' = named
         /\ \A q \in Things \ {p} : RefsOf(q)' = RefsOf(q)
<1>1. refs \in [Assets -> SUBSET Things]
  BY UseChecked
<1>2. ASSUME NEW a \in Assets
      PROVE  refs'[a] = IF a \in named THEN refs[a] \cup {p} ELSE refs[a] \ {p}
  BY DEF References
<1>3. refs' \in [Assets -> SUBSET Things]
  BY <1>1 DEF References
<1> QED
  BY <1>1, <1>2, <1>3 DEF RefsOf, Refs

\* A step that concerns one piece or note only.
LEMMA OnePieceChanges ==
  ASSUME UseInv, NEW p \in Things, UseTyped', StudentSound', OneCreation', UNCHANGED asset,
         UseSound(p)',
         \A q \in Things \ {p} :
           /\ content'[q] = content[q] /\ RefsOf(q)' = RefsOf(q)
           /\ q \in astray' <=> q \in astray,
         \A v \in Writers :
           \/ writer'[v] = writer[v] /\ (writer[v].pc # "away" => writer[v].it # p)
           \/ WriterSound(writer[v])',
         \A v \in Writers :
           writer[v].pc = "referring" /\ writer[v].it # p => writer'[v] = writer[v]
  PROVE  UseInv'
<1>1. Confirmed' = Confirmed
  BY DEF Confirmed
<1>2. ASSUME NEW q \in Things, q # p PROVE UseSound(q)'
  <2>1. /\ UseSound(q) /\ content'[q] = content[q] /\ RefsOf(q)' = RefsOf(q)
        /\ q \in astray' <=> q \in astray
    BY <1>2 DEF UseInv
  <2>2. Awaited(q) => Awaited(q)'
    BY <1>2 DEF Awaited
  <2> QED
    BY <1>1, <2>1, <2>2 DEF UseSound
<1>3. ASSUME NEW v \in Writers PROVE WriterSound(writer[v])'
  <2>1. CASE writer'[v] = writer[v] /\ (writer[v].pc # "away" => writer[v].it # p)
    <3>1. writer[v].pc # "away" => writer[v].it \in Things \ {p}
      BY <2>1, UseChecked, WriterKinds DEF Referrals, PieceUpdates, Deletions
    <3>2. WriterSound(writer[v])
      BY WriterKinds
    <3>3. \A q \in Things \ {p} : /\ content'[q] = content[q] /\ RefsOf(q)' = RefsOf(q)
                                  /\ There(q)' <=> There(q)
      BY DEF There
    <3> QED
      BY <1>1, <2>1, <3>1, <3>2, <3>3 DEF WriterSound
  <2> QED
    BY <2>1
<1> QED
  BY <1>2, <1>3 DEF UseInv

\* Overtaken requests keep what they are about and know no more that it is so.
LEMMA OthersOvertaken ==
  ASSUME UseInv, NEW w \in Writers, NEW p \in Things, writer' = Overtaken(w, p)
  PROVE  /\ writer' \in [Writers -> WriterRequests]
         /\ \A v \in Writers :
              \/ writer'[v] = Resting
              \/ /\ writer'[v].pc = writer[v].pc /\ writer'[v].it = writer[v].it
                 /\ writer[v].pc # "deleting" => writer'[v].named = writer[v].named
                 /\ writer'[v].stale
                 /\ writer[v].it = p /\ writer[v].pc # "away"
              \/ writer'[v] = writer[v] /\ (writer[v].pc # "away" => writer[v].it # p)
         /\ \A v \in Writers :
              writer[v].pc = "referring" /\ writer[v].it # p =>
                writer'[v] = IF v = w THEN Resting ELSE writer[v]
<1>1. ASSUME NEW v \in Writers
      PROVE  /\ writer'[v] \in WriterRequests
             /\ \/ writer'[v] = Resting
                \/ /\ writer'[v].pc = writer[v].pc /\ writer'[v].it = writer[v].it
                   /\ writer[v].pc # "deleting" => writer'[v].named = writer[v].named
                   /\ writer'[v].stale
                   /\ writer[v].it = p /\ writer[v].pc # "away"
                \/ writer'[v] = writer[v] /\ (writer[v].pc # "away" => writer[v].it # p)
             /\ writer[v].pc = "referring" /\ writer[v].it # p =>
                  writer'[v] = IF v = w THEN Resting ELSE writer[v]
  <2>1. CASE v = w
    BY <2>1, EmptyUse DEF Overtaken
  <2>2. CASE v # w /\ writer[v] # Resting /\ writer[v].it = p
    <3>1. writer'[v] = Late(writer[v]) /\ writer[v].pc # "away"
      BY <2>2, WriterKinds DEF Overtaken
    <3>2. CASE writer[v] \in Referrals
      <4>1. writer'[v] = [writer[v] EXCEPT !.stale = TRUE]
        BY <3>1, <3>2 DEF Late, Referrals
      <4> QED
        BY <2>2, <3>1, <3>2, <4>1, Zenon DEF Referrals, WriterRequests
    <3>3. CASE writer[v] \in PieceUpdates
      <4>1. writer'[v] = [writer[v] EXCEPT !.stale = TRUE]
        BY <3>1, <3>3 DEF Late, PieceUpdates
      <4> QED
        BY <2>2, <3>1, <3>3, <4>1, Zenon DEF PieceUpdates, WriterRequests
    <3>4. CASE writer[v] \in Deletions
      <4>1. writer'[v] = [writer[v] EXCEPT !.stale = TRUE, !.found = {}] /\ {} \in Refs
        BY <3>1, <3>4 DEF Late, Deletions, Refs
      <4>2. /\ writer'[v] \in Deletions /\ writer'[v].pc = "deleting" /\ writer'[v].stale
            /\ writer'[v].it = writer[v].it
        BY <3>4, <4>1 DEF Deletions
      <4> QED
        BY <2>2, <3>1, <3>4, <4>2 DEF Deletions, WriterRequests
    <3> QED
      BY <2>2, <3>1, <3>2, <3>3, <3>4, WriterKinds
  <2>3. CASE v # w /\ ~(writer[v] # Resting /\ writer[v].it = p)
    BY <2>3, WriterKinds DEF Overtaken
  <2> QED
    BY <2>1, <2>2, <2>3
<1>2. writer' \in [Writers -> WriterRequests]
  BY <1>1 DEF Overtaken
<1> QED
  BY <1>1, <1>2

\* Files only become more confirmed, and what is shown or opened is nobody's reference.
LEMMA FilesMove ==
  ASSUME UseInv, NEW a \in Assets, Upload(a) \/ ConfirmUpload(a)
  PROVE  UseInv'
<1>1. /\ asset' \in [Assets -> {"none", "begun", "stored", "short", "confirmed"}]
      /\ Confirmed \subseteq Confirmed'
      /\ UNCHANGED <<content, public, refs, writer, student, writes, astray>>
  BY UseChecked DEF Upload, ConfirmUpload, Confirmed
<1>2. UseTyped'
  BY <1>1 DEF UseInv, UseTyped, There
<1>3. \A p \in Things : UseSound(p)'
  BY <1>1 DEF UseInv, UseSound, RefsOf, Awaited
<1>4. \A w \in Writers : WriterSound(writer[w])'
  BY <1>1 DEF UseInv, WriterSound, There, RefsOf
<1> QED
  BY <1>1, <1>2, <1>3, <1>4 DEF UseInv, StudentSound, OneCreation

LEMMA ShownOrHidden ==
  ASSUME UseInv, NEW p \in Things, ShowOrHide(p)
  PROVE  UseInv'
<1>1. /\ There(p) /\ public' \subseteq public \cup {p}
      /\ UNCHANGED <<asset, content, refs, writer, student, writes, astray>>
  BY DEF ShowOrHide
<1>2. UseTyped'
  BY <1>1 DEF UseInv, UseTyped, There
<1>3. \A q \in Things : UseSound(q)'
  BY <1>1 DEF UseInv, UseSound, RefsOf, Awaited, Confirmed
<1>4. \A w \in Writers : WriterSound(writer[w])'
  BY <1>1 DEF UseInv, WriterSound, There, RefsOf, Confirmed
<1> QED
  BY <1>1, <1>2, <1>3, <1>4 DEF UseInv, StudentSound, OneCreation

\* The student's request is as sound after the step as before.
LEMMA StudentMoves ==
  ASSUME UseInv, student' \in {NoOpening} \cup Lookings \cup Openings, StudentSound',
         UNCHANGED <<asset, content, public, refs, writer, writes, astray>>
  PROVE  UseInv'
<1>1. UseTyped'
  BY DEF UseInv, UseTyped, There
<1>2. \A q \in Things : UseSound(q)'
  BY DEF UseInv, UseSound, RefsOf, Awaited, Confirmed
<1>3. \A w \in Writers : WriterSound(writer[w])'
  BY DEF UseInv, WriterSound, There, RefsOf, Confirmed
<1> QED
  BY <1>1, <1>2, <1>3 DEF UseInv, OneCreation

LEMMA StudentOpens ==
  ASSUME UseInv,
         \/ Close
         \/ \E a \in Assets : BeginOpen(a)
         \/ \E p \in Things : LookAt(p)
  PROVE  UseInv'
<1>1. CASE Close
  BY <1>1, EmptyUse, StudentMoves DEF Close, StudentSound
<1>2. ASSUME NEW a \in Assets, BeginOpen(a) PROVE UseInv'
  <2> DEFINE users == {p \in Things : a \in NamedIn(content[p])} \cup astray
             r == [pc |-> "looking", asset |-> a, left |-> refs[a], users |-> users]
  <2>1. /\ student' = r
        /\ UNCHANGED <<asset, content, public, refs, writer, writes, astray>>
    BY <1>2 DEF BeginOpen
  <2>2. refs[a] \subseteq users /\ users \subseteq Things /\ refs[a] \subseteq Things
    <3>1. refs[a] \subseteq Things /\ astray \subseteq Things
      BY UseChecked
    <3>2. ASSUME NEW p \in refs[a] PROVE p \in users
      <4>1. p \in Things /\ a \in RefsOf(p) /\ UseSound(p)
        BY <3>1, <3>2 DEF UseInv, RefsOf
      <4> QED
        BY <4>1 DEF UseSound
    <3> QED
      BY <3>1, <3>2
  <2> HIDE DEF users
  <2>3. r \in Lookings /\ r.pc = "looking" /\ r.left = refs[a] /\ r.users = users
    BY <2>2 DEF Lookings
  <2> HIDE DEF r
  <2>4. StudentSound'
    BY <2>1, <2>2, <2>3 DEF StudentSound
  <2> QED
    BY <2>1, <2>3, <2>4, StudentMoves
<1>3. ASSUME NEW p \in Things, LookAt(p) PROVE UseInv'
  <2>1. /\ student.pc = "looking" /\ p \in student.left
        /\ UNCHANGED <<asset, content, public, refs, writer, writes, astray>>
    BY <1>3 DEF LookAt
  <2>2. student \in Lookings /\ student.left \subseteq student.users
    BY <2>1, EmptyUse DEF UseInv, UseTyped, StudentSound, Openings, Lookings
  <2>3. CASE /\ p \in public
             /\ student' = [pc |-> "open", via |-> p, public |-> p \in public,
                            users |-> student.users]
    <3>1. student' \in Openings /\ student'.pc = "open" /\ student'.via = p /\ student'.public
          /\ student'.users = student.users
      BY <2>2, <2>3, Zenon DEF Lookings, Openings
    <3>2. StudentSound'
      BY <2>1, <2>2, <3>1 DEF StudentSound
    <3> QED
      BY <2>1, <3>1, <3>2, StudentMoves
  <2>4. CASE student' = NoOpening
    BY <2>1, <2>4, EmptyUse, StudentMoves DEF StudentSound
  <2>5. CASE student' = [student EXCEPT !.left = @ \ {p}]
    <3>1. /\ student' \in Lookings /\ student'.pc = "looking"
          /\ student'.left \subseteq student.left /\ student'.users = student.users
      BY <2>1, <2>2, <2>5 DEF Lookings
    <3>2. StudentSound'
      BY <2>2, <3>1 DEF StudentSound
    <3> QED
      BY <2>1, <3>1, <3>2, StudentMoves
  <2> QED
    BY <1>3, <2>3, <2>4, <2>5 DEF LookAt, Shows
<1> QED
  BY <1>1, <1>2, <1>3

\* A piece or note that left no trace has no references and nobody works on it.
LEMMA FreshIsBare ==
  ASSUME UseInv, NEW p \in Things, Fresh(p)
  PROVE  /\ content[p] = Absent /\ RefsOf(p) = {} /\ p \notin astray /\ p \notin public
         /\ \A v \in Writers : writer[v].pc # "away" => writer[v].it # p
<1>1. content[p] = Absent /\ p \notin astray /\ RequestsOn(p) = {}
  BY DEF Fresh, There
<1>2. \A v \in Writers : writer[v].pc # "away" => writer[v].it # p
  BY <1>1, WriterKinds DEF RequestsOn
<1>3. ~Awaited(p)
  BY <1>2 DEF Awaited
<1>4. UseSound(p)
  BY DEF UseInv
<1>5. p \notin public
  BY <1>1 DEF UseInv, UseTyped, There
<1> QED
  BY <1>1, <1>2, <1>3, <1>4, <1>5, EmptyUse DEF UseSound

\* Something new is there, with the references it is to have or a request that will make
\* them.
LEMMA NewPiece ==
  ASSUME UseInv, NEW w \in Writers, NEW p \in Things, NEW c, NEW r \in WriterRequests, Fresh(p),
         \/ p \in Pieces /\ c \in Contents
         \/ p \in Notes /\ c \in NoteContents,
         content' = [content EXCEPT ![p] = c], writer[w] = Resting,
         writer' = [writer EXCEPT ![w] = r],
         \/ r = Resting /\ NamedIn(c) \subseteq Confirmed /\ refs' = References(p, NamedIn(c))
         \/ r = Resting /\ NamedIn(c) = {} /\ refs' = refs
         \/ /\ r \in Referrals /\ r.it = p /\ r.named = NamedIn(c) /\ ~r.stale
            /\ refs' = refs,
         writes' \in 0 .. MaxWrites, UNCHANGED <<asset, public, student, astray>>
  PROVE  UseInv'
<1>1. /\ content[p] = Absent /\ RefsOf(p) = {} /\ p \notin astray /\ p \notin public
      /\ \A v \in Writers : writer[v].pc # "away" => writer[v].it # p
  BY FreshIsBare
<1>2. /\ content' \in [Things -> Contents \cup NoteContents \cup {Absent}] /\ content'[p] = c
      /\ \A q \in Things \ {p} : content'[q] = content[q]
  BY UseChecked
<1>3. /\ writer' \in [Writers -> WriterRequests] /\ writer'[w] = r
      /\ \A v \in Writers \ {w} : writer'[v] = writer[v]
  BY UseChecked
<1>4. /\ refs' \in [Assets -> SUBSET Things]
      /\ \A q \in Things \ {p} : RefsOf(q)' = RefsOf(q)
      /\ r = Resting => RefsOf(p)' = NamedIn(c) /\ NamedIn(c) \subseteq Confirmed
      /\ r # Resting => RefsOf(p)' = {}
  <2>1. CASE r = Resting /\ NamedIn(c) \subseteq Confirmed /\ refs' = References(p, NamedIn(c))
    <3>1. NamedIn(c) \in Refs
      BY <2>1 DEF Confirmed, Refs
    <3> QED
      BY <2>1, <3>1, ReferencesSet
  <2>2. CASE refs' = refs
    <3>1. \A q : RefsOf(q)' = RefsOf(q)
      BY <2>2 DEF RefsOf
    <3>2. r = Resting => NamedIn(c) = {} \/ (RefsOf(p)' = NamedIn(c) /\ NamedIn(c) \subseteq Confirmed)
      <4>1. CASE r = Resting /\ NamedIn(c) \subseteq Confirmed /\ refs' = References(p, NamedIn(c))
        BY <2>1, <4>1
      <4>2. CASE r \in Referrals
        BY <4>2, EmptyUse DEF Referrals
      <4> QED
        BY <4>1, <4>2
    <3> QED
      BY <1>1, <2>2, <3>1, <3>2, UseChecked, Zenon
  <2> QED
    BY <2>1, <2>2
<1>5. content'[p] # Absent
  BY <1>2, ContentThere
<1>6. UseTyped'
  <2>1. /\ \A x \in Pieces : content'[x] \in Contents \cup {Absent}
        /\ \A n \in Notes : content'[n] \in NoteContents \cup {Absent}
    BY <1>2, UseChecked
  <2>2. public' \subseteq {q \in Things : There(q)'}
    BY <1>1, <1>2, <1>5 DEF UseInv, UseTyped, There
  <2> QED
    BY <1>2, <1>3, <1>4, <2>1, <2>2 DEF UseInv, UseTyped
<1>7. OneCreation'
  <2>1. ASSUME NEW v \in Writers, v # w, writer'[v].pc = "referring"
        PROVE  writer'[v].it # p /\ writer[v].pc = "referring" /\ writer'[v] = writer[v]
    BY <1>1, <1>3, <2>1
  <2>2. writer'[w].pc = "referring" => writer'[w].it = p
    BY <1>3, EmptyUse
  <2> QED
    BY <1>3, <2>1, <2>2 DEF UseInv, OneCreation
<1>8. UseSound(p)'
  <2>1. Confirmed' = Confirmed
    BY DEF Confirmed
  <2>2. r # Resting => Awaited(p)'
    BY <1>3 DEF Awaited, Referrals
  <2> QED
    BY <1>2, <1>4, <2>1, <2>2 DEF UseSound
<1>9. WriterSound(writer[w])'
  <2>1. CASE r = Resting
    BY <1>3, <2>1, EmptyUse DEF WriterSound
  <2>2. CASE r # Resting
    BY <1>2, <1>3, <1>4, <2>2 DEF WriterSound, Referrals
  <2> QED
    BY <2>1, <2>2
<1>10. StudentSound'
  BY DEF UseInv, StudentSound
<1> QED
  BY <1>1, <1>2, <1>3, <1>4, <1>6, <1>7, <1>8, <1>9, <1>10, EmptyUse, OnePieceChanges

\* A request that is not to refer goes on, or ends, and nothing it wrote is there yet.
LEMMA WriterMoves ==
  ASSUME UseInv, NEW w \in Writers, NEW r \in WriterRequests, writer[w].pc # "referring",
         r.pc # "referring", WriterSound(r), writer' = [writer EXCEPT ![w] = r],
         writes' \in 0 .. MaxWrites, UNCHANGED <<asset, content, public, refs, student, astray>>
  PROVE  UseInv'
<1>1. /\ writer' \in [Writers -> WriterRequests] /\ writer'[w] = r
      /\ \A v \in Writers \ {w} : writer'[v] = writer[v]
  BY UseChecked
<1>2. UseTyped'
  BY <1>1 DEF UseInv, UseTyped, There
<1>3. ASSUME NEW p \in Things PROVE UseSound(p)'
  <2>1. Awaited(p) => Awaited(p)'
    BY <1>1 DEF Awaited
  <2>2. UseSound(p) /\ RefsOf(p)' = RefsOf(p) /\ Confirmed' = Confirmed
    BY DEF UseInv, RefsOf, Confirmed
  <2> QED
    BY <2>1, <2>2 DEF UseSound
<1>4. ASSUME NEW v \in Writers PROVE WriterSound(writer[v])'
  <2>1. \A x : WriterSound(x)' <=> WriterSound(x)
    BY DEF WriterSound, There, RefsOf, Confirmed
  <2>2. WriterSound(writer'[v])
    BY <1>1, WriterKinds
  <2> QED
    BY <2>2 DEF WriterSound, There, RefsOf, Confirmed
<1>5. OneCreation'
  BY <1>1 DEF UseInv, OneCreation
<1> QED
  BY <1>2, <1>3, <1>4, <1>5 DEF UseInv, StudentSound

\* Whoever writes a piece overtakes the others at it, who then promise nothing.
LEMMA OvertakesOthers ==
  ASSUME UseInv, NEW w \in Writers, NEW p \in Things, writer[w].pc # "referring",
         writer' = Overtaken(w, p), UNCHANGED asset
  PROVE  /\ writer' \in [Writers -> WriterRequests] /\ OneCreation'
         /\ \A v \in Writers :
              \/ writer'[v] = writer[v] /\ (writer[v].pc # "away" => writer[v].it # p)
              \/ WriterSound(writer[v])'
         /\ \A v \in Writers :
              writer[v].pc = "referring" /\ writer[v].it # p => writer'[v] = writer[v]
<1>1. /\ writer' \in [Writers -> WriterRequests]
      /\ \A v \in Writers :
           \/ writer'[v] = Resting
           \/ /\ writer'[v].pc = writer[v].pc /\ writer'[v].it = writer[v].it
              /\ writer[v].pc # "deleting" => writer'[v].named = writer[v].named
              /\ writer'[v].stale
              /\ writer[v].it = p /\ writer[v].pc # "away"
           \/ writer'[v] = writer[v] /\ (writer[v].pc # "away" => writer[v].it # p)
      /\ \A v \in Writers :
           writer[v].pc = "referring" /\ writer[v].it # p =>
             writer'[v] = IF v = w THEN Resting ELSE writer[v]
  BY OthersOvertaken
<1>2. ASSUME NEW v \in Writers, writer'[v].pc = "referring"
      PROVE  writer[v].pc = "referring" /\ writer'[v].it = writer[v].it
  BY <1>1, <1>2, EmptyUse
<1>3. OneCreation'
  BY <1>2 DEF UseInv, OneCreation
<1>4. ASSUME NEW v \in Writers,
             ~(writer'[v] = writer[v] /\ (writer[v].pc # "away" => writer[v].it # p))
      PROVE  WriterSound(writer[v])'
  <2>1. CASE writer'[v] = Resting
    BY <2>1, EmptyUse DEF WriterSound
  <2>2. CASE /\ writer'[v].pc = writer[v].pc /\ writer'[v].it = writer[v].it
             /\ writer[v].pc # "deleting" => writer'[v].named = writer[v].named
             /\ writer'[v].stale
    <3>1. writer[v].pc = "updating" => writer[v].named \subseteq Confirmed
      BY WriterKinds DEF WriterSound
    <3> QED
      BY <2>2, <3>1 DEF WriterSound, Confirmed
  <2> QED
    BY <1>1, <1>4, <2>1, <2>2
<1> QED
  BY <1>1, <1>3, <1>4

\* A piece or note gets content and references in one transaction, or loses both.
LEMMA Rewritten ==
  ASSUME UseInv, NEW w \in Writers, NEW p \in Things, NEW c, NEW named \in Refs,
         \/ p \in Pieces /\ c \in Contents \cup {Absent}
         \/ p \in Notes /\ c \in NoteContents \cup {Absent},
         writer[w].pc # "referring", writer' = Overtaken(w, p),
         content' = [content EXCEPT ![p] = c],
         named \subseteq Confirmed, refs' = References(p, named),
         astray' \in {astray \cup {p}, astray \ {p}}, p \notin astray' => named = NamedIn(c),
         public' \subseteq public, c = Absent => p \notin public',
         writes' \in 0 .. MaxWrites, UNCHANGED <<asset, student>>
  PROVE  UseInv'
<1>1. /\ writer' \in [Writers -> WriterRequests] /\ OneCreation'
      /\ \A v \in Writers :
           \/ writer'[v] = writer[v] /\ (writer[v].pc # "away" => writer[v].it # p)
           \/ WriterSound(writer[v])'
      /\ \A v \in Writers :
           writer[v].pc = "referring" /\ writer[v].it # p => writer'[v] = writer[v]
  BY OvertakesOthers
<1>2. /\ content' \in [Things -> Contents \cup NoteContents \cup {Absent}] /\ content'[p] = c
      /\ \A q \in Things \ {p} : content'[q] = content[q]
  BY UseChecked
<1>3. /\ refs' \in [Assets -> SUBSET Things] /\ RefsOf(p)' = named
      /\ \A q \in Things \ {p} : RefsOf(q)' = RefsOf(q)
  BY ReferencesSet
<1>4. \A q \in Things \ {p} : q \in astray' <=> q \in astray
  OBVIOUS
<1>5. UseTyped'
  <2>1. /\ \A x \in Pieces : content'[x] \in Contents \cup {Absent}
        /\ \A n \in Notes : content'[n] \in NoteContents \cup {Absent}
    BY <1>2, UseChecked
  <2>2. public' \subseteq {q \in Things : There(q)'}
    BY <1>2 DEF UseInv, UseTyped, There
  <2>3. astray' \subseteq Things
    BY UseChecked
  <2> QED
    BY <1>1, <1>2, <1>3, <2>1, <2>2, <2>3 DEF UseInv, UseTyped
<1>6. UseSound(p)'
  BY <1>2, <1>3 DEF UseSound, Confirmed
<1>7. StudentSound'
  BY DEF UseInv, StudentSound
<1> QED
  BY <1>1, <1>2, <1>3, <1>4, <1>5, <1>6, <1>7, OnePieceChanges

LEMMA PieceCreated ==
  ASSUME UseInv, NEW w \in Writers, NEW p \in Pieces, NEW c \in Contents, CreatePiece(w, p, c)
  PROVE  UseInv'
<1> DEFINE r == [pc |-> "referring", it |-> p, named |-> NamedIn(c), stale |-> FALSE]
<1>1. p \in Things /\ NamedIn(c) \in Refs
  BY UseChecked, ContentThere DEF Refs
<1>2. r \in Referrals /\ r.it = p /\ r.named = NamedIn(c) /\ ~r.stale
  BY <1>1 DEF Referrals
<1> HIDE DEF r
<1>3. r \in WriterRequests /\ Resting \in WriterRequests
  BY <1>2 DEF WriterRequests
<1>4. /\ Fresh(p) /\ NamedIn(c) \subseteq Confirmed /\ content' = [content EXCEPT ![p] = c]
      /\ UNCHANGED <<asset, public, student, astray>>
      /\ writer[w] = Resting /\ writes > 0 /\ writes' = writes - 1
      /\ \/ writer' = [writer EXCEPT ![w] = r] /\ refs' = refs
         \/ writer' = [writer EXCEPT ![w] = Resting] /\ refs' = References(p, NamedIn(c))
  BY DEF CreatePiece, Write, r
<1>5. writes' \in 0 .. MaxWrites
  BY <1>4, UseChecked
<1>6. CASE writer' = [writer EXCEPT ![w] = r] /\ refs' = refs
  BY <1>1, <1>2, <1>3, <1>4, <1>5, <1>6, NewPiece, Zenon
<1>7. CASE writer' = [writer EXCEPT ![w] = Resting] /\ refs' = References(p, NamedIn(c))
  BY <1>1, <1>3, <1>4, <1>5, <1>7, NewPiece, Zenon
<1> QED
  BY <1>4, <1>6, <1>7

LEMMA NoteCreated ==
  ASSUME UseInv, NEW w \in Writers, NEW n \in Notes, NEW a \in Assets \cup {NoAsset},
         CreateNote(w, n, a)
  PROVE  UseInv'
<1> DEFINE c == [file |-> a]
           r == [pc |-> "referring", it |-> n, named |-> {a}, stale |-> FALSE]
<1>1. c \in NoteContents /\ c.file = a
  BY DEF NoteContents
<1>2. /\ Fresh(n) /\ content' = [content EXCEPT ![n] = c]
      /\ UNCHANGED <<asset, public, refs, student, astray>>
      /\ writer[w] = Resting /\ writes > 0 /\ writes' = writes - 1
      /\ writer' = [writer EXCEPT ![w] = IF a = NoAsset THEN Resting ELSE r]
  BY DEF CreateNote, Write
<1> HIDE DEF c
<1>3. NamedIn(c) = {a} \ {NoAsset} /\ n \in Things /\ writes' \in 0 .. MaxWrites
  BY <1>1, <1>2, ContentThere, UseChecked
<1>4. CASE a = NoAsset
  <2>1. NamedIn(c) = {} /\ writer' = [writer EXCEPT ![w] = Resting] /\ Resting \in WriterRequests
    BY <1>2, <1>3, <1>4, EmptyUse
  <2> QED
    BY <1>1, <1>2, <1>3, <2>1, NewPiece, Zenon
<1>5. CASE a # NoAsset
  <2>1. NamedIn(c) = {a} /\ {a} \in Refs
    BY <1>3, <1>5 DEF Refs
  <2>2. r \in Referrals /\ r.it = n /\ r.named = NamedIn(c) /\ ~r.stale
    BY <1>3, <2>1 DEF Referrals
  <2>3. writer' = [writer EXCEPT ![w] = r]
    BY <1>2, <1>5
  <2> HIDE DEF r
  <2>4. r \in WriterRequests
    BY <2>2 DEF WriterRequests
  <2> QED
    BY <1>1, <1>2, <1>3, <2>2, <2>3, <2>4, NewPiece, Zenon
<1> QED
  BY <1>4, <1>5

\* A deletion that did not find the references just made is told so; nobody else is.
LEMMA ToldUnfound ==
  ASSUME UseInv, NEW w \in Writers, NEW p \in Things, writer' = Unfound(w, p)
  PROVE  /\ writer' \in [Writers -> WriterRequests] /\ writer'[w] = Resting
         /\ \A v \in Writers \ {w} :
              \/ writer'[v] = writer[v] /\ ~(writer[v].pc = "deleting" /\ writer[v].it = p)
              \/ /\ writer[v].pc = "deleting" /\ writer'[v].pc = "deleting"
                 /\ writer[v].it = p /\ writer'[v].stale
<1>1. ASSUME NEW v \in Writers \ {w}
      PROVE  /\ writer'[v] \in WriterRequests
             /\ \/ writer'[v] = writer[v] /\ ~(writer[v].pc = "deleting" /\ writer[v].it = p)
                \/ /\ writer[v].pc = "deleting" /\ writer'[v].pc = "deleting"
                   /\ writer[v].it = p /\ writer'[v].stale
  <2>1. CASE writer[v].pc = "deleting" /\ writer[v].it = p
    <3>1. writer'[v] = [writer[v] EXCEPT !.stale = TRUE] /\ writer[v] \in Deletions
      BY <2>1, WriterKinds DEF Unfound
    <3>2. writer'[v] \in Deletions /\ writer'[v].pc = "deleting" /\ writer'[v].stale
      BY <3>1 DEF Deletions
    <3> QED
      BY <2>1, <3>2 DEF WriterRequests
  <2>2. CASE ~(writer[v].pc = "deleting" /\ writer[v].it = p)
    BY <2>2, WriterKinds DEF Unfound
  <2> QED
    BY <2>1, <2>2
<1>2. writer'[w] = Resting
  BY DEF Unfound
<1>3. writer' \in [Writers -> WriterRequests]
  BY <1>1, <1>2, EmptyUse DEF Unfound
<1> QED
  BY <1>1, <1>2, <1>3

LEMMA PieceReferred ==
  ASSUME UseInv, NEW w \in Writers, Refer(w)
  PROVE  UseInv'
<1> PICK r : r = writer[w]
  OBVIOUS
<1> PICK p : p = r.it
  OBVIOUS
<1> DEFINE setsThem == /\ r.named \subseteq Confirmed
                       /\ refs' = References(p, r.named \cup RefsOf(p))
                       /\ astray' = IF r.stale THEN astray \cup {p} ELSE astray
                       /\ writer' = Unfound(w, p)
           missed == /\ refs' = refs /\ astray' = astray \cup {p}
                     /\ writer' = [writer EXCEPT ![w] = Resting]
<1>1. /\ r.pc = "referring" /\ (setsThem \/ missed)
      /\ UNCHANGED <<asset, content, public, student, writes>>
  <2>1. setsThem \/ missed
    BY DEF Refer
  <2> QED
    BY <2>1 DEF Refer
<1>2. r \in Referrals /\ p \in Things /\ r.named \in Refs /\ WriterSound(r)
  BY <1>1, WriterKinds DEF Referrals
<1>3. /\ writer' \in [Writers -> WriterRequests] /\ writer'[w] = Resting
      /\ \A v \in Writers \ {w} :
           \/ writer'[v] = writer[v]
           \/ /\ writer[v].pc = "deleting" /\ writer'[v].pc = "deleting" /\ writer[v].it = p
              /\ writer'[v].stale
      /\ \A v \in Writers \ {w} :
           writer[v].pc = "deleting" /\ writer[v].it = p =>
             refs' = refs \/ (writer'[v].pc = "deleting" /\ writer'[v].stale)
  <2>1. CASE setsThem
    BY <1>2, <2>1, ToldUnfound
  <2>2. CASE missed
    BY <2>2, UseChecked, EmptyUse
  <2> QED
    BY <1>1, <2>1, <2>2
<1>4. UseSound(p) /\ RefsOf(p) \in Refs /\ Confirmed' = Confirmed
  BY <1>1, <1>2 DEF UseInv, RefsOf, Refs, Confirmed
<1>5. ~r.stale => r.named = NamedIn(content[p]) /\ RefsOf(p) = {}
  BY <1>1, <1>2 DEF WriterSound
<1>6. /\ refs' \in [Assets -> SUBSET Things] /\ astray' \subseteq Things
      /\ \A q \in Things \ {p} : RefsOf(q)' = RefsOf(q) /\ (q \in astray' <=> q \in astray)
      /\ UseSound(p)'
  <2>1. CASE setsThem
    <3> DEFINE named == r.named \cup RefsOf(p)
    <3>1. named \in Refs /\ named \subseteq Confirmed /\ refs' = References(p, named)
      BY <1>2, <1>4, <2>1 DEF Refs, UseSound
    <3>2. p \notin astray' => named = NamedIn(content[p])
      BY <1>5, <2>1
    <3> HIDE DEF named
    <3>3. /\ refs' \in [Assets -> SUBSET Things] /\ RefsOf(p)' = named
          /\ \A q \in Things \ {p} : RefsOf(q)' = RefsOf(q)
      BY <1>2, <3>1, ReferencesSet
    <3>4. content'[p] = content[p]
      BY <1>1
    <3>5. /\ astray' \subseteq Things
          /\ \A q \in Things \ {p} : q \in astray' <=> q \in astray
      BY <1>2, <2>1, UseChecked
    <3> QED
      BY <1>4, <3>1, <3>2, <3>3, <3>4, <3>5 DEF UseSound
  <2>2. CASE missed
    <3>1. \A q : RefsOf(q)' = RefsOf(q)
      BY <2>2 DEF RefsOf
    <3> QED
      BY <1>2, <1>4, <2>2, <3>1, UseChecked DEF UseSound
  <2> QED
    BY <1>1, <2>1, <2>2
<1>7. UseTyped'
  BY <1>1, <1>3, <1>6 DEF UseInv, UseTyped, There
<1>8. OneCreation' /\ StudentSound'
  BY <1>1, <1>3, EmptyUse DEF UseInv, OneCreation, StudentSound
<1>9. ASSUME NEW v \in Writers
      PROVE  \/ writer'[v] = writer[v] /\ (writer[v].pc # "away" => writer[v].it # p)
             \/ WriterSound(writer[v])'
  <2>1. CASE v = w
    BY <1>3, <2>1, EmptyUse DEF WriterSound
  <2>2. CASE v # w /\ writer[v].pc = "referring"
    BY <1>1, <1>3, <2>2 DEF UseInv, OneCreation
  <2>3. CASE v # w /\ writer[v].pc \notin {"referring", "deleting"}
    <3>1. writer'[v] = writer[v] /\ WriterSound(writer[v])
      BY <1>3, <2>3, WriterKinds
    <3> QED
      BY <1>1, <2>3, <3>1 DEF WriterSound, Confirmed, There
  <2>4. CASE v # w /\ writer[v].pc = "deleting" /\ writer[v].it # p
    BY <1>3, <2>4
  <2>5. CASE v # w /\ writer[v].pc = "deleting" /\ writer[v].it = p
    <3>1. CASE writer'[v].pc = "deleting" /\ writer'[v].stale
      BY <3>1 DEF WriterSound
    <3>2. CASE ~(writer'[v].pc = "deleting" /\ writer'[v].stale)
      <4>1. writer'[v] = writer[v] /\ refs' = refs /\ WriterSound(writer[v])
        BY <1>3, <2>5, <3>2, WriterKinds
      <4>2. RefsOf(p)' = RefsOf(p)
        BY <4>1 DEF RefsOf
      <4> QED
        BY <2>5, <4>1, <4>2 DEF WriterSound
    <3> QED
      BY <3>1, <3>2
  <2> QED
    BY <2>1, <2>2, <2>3, <2>4, <2>5
<1>10. \A v \in Writers : writer[v].pc = "referring" /\ writer[v].it # p => writer'[v] = writer[v]
  BY <1>3, EmptyUse
<1> QED
  BY <1>1, <1>2, <1>6, <1>7, <1>8, <1>9, <1>10, OnePieceChanges

LEMMA MergedContent ==
  ASSUME NEW old \in Contents, NEW given \in [Fields -> Assets \cup {NoAsset, Kept}]
  PROVE  Merged(old, given) \in Contents
  BY AssetUseAssumption DEF Merged, Contents

LEMMA PieceUpdateBegins ==
  ASSUME UseInv, NEW w \in Writers, NEW p \in Pieces,
         NEW given \in [Fields -> Assets \cup {NoAsset, Kept}], BeginUpdatePiece(w, p, given)
  PROVE  UseInv'
<1> DEFINE c == Merged(content[p], given)
           r == [pc |-> "updating", it |-> p, given |-> given, named |-> NamedIn(c),
                 stale |-> FALSE]
<1>1. /\ There(p) /\ NamedIn(c) \subseteq Confirmed
      /\ writer[w] = Resting /\ writes > 0 /\ writes' = writes - 1
      /\ writer' = [writer EXCEPT ![w] = r]
      /\ UNCHANGED <<asset, content, public, refs, student, astray>>
  BY DEF BeginUpdatePiece, Write
<1>2. NamedIn(c) \in Refs
  BY <1>1 DEF Refs, Confirmed
<1>3. /\ r \in PieceUpdates /\ r.pc = "updating" /\ r.it = p /\ r.given = given
      /\ r.named = NamedIn(c) /\ ~r.stale
  BY <1>2 DEF PieceUpdates
<1> HIDE DEF r
<1>4. WriterSound(r)
  BY <1>1, <1>3 DEF WriterSound
<1>5. r \in WriterRequests /\ writer[w].pc # "referring" /\ writes' \in 0 .. MaxWrites
  BY <1>1, <1>3, UseChecked, EmptyUse DEF WriterRequests
<1> QED
  BY <1>1, <1>3, <1>4, <1>5, WriterMoves, Zenon

LEMMA PieceUpdated ==
  ASSUME UseInv, NEW w \in Writers, UpdatePiece(w)
  PROVE  UseInv'
<1> DEFINE r == writer[w]
           p == r.it
           c == Merged(content[p], r.given)
<1>1. r.pc = "updating" /\ UNCHANGED <<asset, public, student, writes>>
  BY DEF UpdatePiece
<1>2. /\ r \in PieceUpdates /\ p \in Pieces /\ p \in Things /\ r.named \in Refs
      /\ r.given \in [Fields -> Assets \cup {NoAsset, Kept}] /\ WriterSound(r)
      /\ writes' \in 0 .. MaxWrites
  BY <1>1, WriterKinds, UseChecked DEF PieceUpdates
<1>3. CASE There(p)
  <2>1. /\ content' = [content EXCEPT ![p] = c] /\ refs' = References(p, r.named)
        /\ astray' = IF r.stale THEN astray \cup {p} ELSE astray \ {p}
        /\ writer' = Overtaken(w, p)
    BY <1>2, <1>3, UseChecked DEF UpdatePiece
  <2>2. c \in Contents
    BY <1>2, <1>3, UseChecked, MergedContent DEF There
  <2>3. r.named \subseteq Confirmed /\ (~r.stale => r.named = NamedIn(c))
    BY <1>1, <1>2, <1>3 DEF WriterSound
  <2>4. c # Absent /\ public' \subseteq public
    BY <1>1, <2>2, ContentThere
  <2>5. astray' \in {astray \cup {p}, astray \ {p}} /\ (p \notin astray' => r.named = NamedIn(c))
    BY <2>1, <2>3
  <2>6. r.pc # "referring"
    BY <1>1
  <2> HIDE DEF c, p
  <2> QED
    BY <1>1, <1>2, <2>1, <2>2, <2>3, <2>4, <2>5, <2>6, Rewritten, Zenon
<1>4. CASE ~There(p)
  <2>1. writer' = [writer EXCEPT ![w] = Resting] /\ UNCHANGED <<content, refs, astray>>
    BY <1>4 DEF UpdatePiece
  <2>2. WriterSound(Resting) /\ Resting \in WriterRequests /\ Resting.pc # "referring"
    BY EmptyUse DEF WriterSound
  <2> QED
    BY <1>1, <1>2, <2>1, <2>2, WriterMoves, Zenon
<1> QED
  BY <1>3, <1>4

LEMMA NoteUpdated ==
  ASSUME UseInv, NEW w \in Writers, NEW n \in Notes, NEW a \in Assets, UpdateNote(w, n, a)
  PROVE  UseInv'
<1> DEFINE c == [content[n] EXCEPT !.file = a]
<1>1. /\ There(n) /\ a \in Confirmed
      /\ writer[w] = Resting /\ writes > 0 /\ writes' = writes - 1
      /\ refs' = References(n, {a}) /\ astray' = astray \ {n} /\ writer' = Overtaken(w, n)
      /\ UNCHANGED <<asset, public, student>>
  BY DEF UpdateNote
<1>2. n \in Things /\ content[n] \in NoteContents
  BY <1>1, UseChecked DEF There
<1>3. content' = [content EXCEPT ![n] = c]
  BY <1>2, UseChecked DEF UpdateNote
<1>4. c \in NoteContents /\ c.file = a
  BY <1>2 DEF NoteContents
<1> HIDE DEF c
<1>5. NamedIn(c) = {a} /\ c # Absent /\ {a} \in Refs
  BY <1>4, ContentThere, AssetUseAssumption DEF Refs
<1>6. /\ writer[w].pc # "referring" /\ writes' \in 0 .. MaxWrites /\ {a} \subseteq Confirmed
      /\ public' \subseteq public /\ astray' \in {astray \cup {n}, astray \ {n}}
  BY <1>1, UseChecked, EmptyUse
<1> QED
  BY <1>1, <1>2, <1>3, <1>4, <1>5, <1>6, Rewritten, Zenon

LEMMA DeletionBegins ==
  ASSUME UseInv, NEW w \in Writers, NEW p \in Things, BeginDelete(w, p)
  PROVE  UseInv'
<1> DEFINE r == [pc |-> "deleting", it |-> p, found |-> RefsOf(p), stale |-> FALSE]
<1>1. /\ writer[w] = Resting /\ writes > 0 /\ writes' = writes - 1
      /\ writer' = [writer EXCEPT ![w] = r]
      /\ UNCHANGED <<asset, content, public, refs, student, astray>>
  BY DEF BeginDelete, Write
<1>2. /\ r \in Deletions /\ r.pc = "deleting" /\ r.it = p /\ r.found = RefsOf(p)
  BY DEF Deletions, Refs, RefsOf
<1> HIDE DEF r
<1>3. WriterSound(r)
  BY <1>2 DEF WriterSound
<1>4. /\ r \in WriterRequests /\ r.pc # "referring" /\ writer[w].pc # "referring"
      /\ writes' \in 0 .. MaxWrites
  BY <1>1, <1>2, UseChecked, EmptyUse DEF WriterRequests
<1> QED
  BY <1>1, <1>3, <1>4, WriterMoves, Zenon

LEMMA ThingDeleted ==
  ASSUME UseInv, NEW w \in Writers, Delete(w)
  PROVE  UseInv'
<1> DEFINE r == writer[w]
           p == r.it
           left == RefsOf(p) \ r.found
<1>1. r.pc = "deleting" /\ UNCHANGED <<asset, student, writes>>
  BY DEF Delete
<1>2. r \in Deletions /\ p \in Things /\ WriterSound(r) /\ writes' \in 0 .. MaxWrites
  BY <1>1, WriterKinds, UseChecked DEF Deletions
<1>3. CASE There(p)
  <2>1. /\ content' = [content EXCEPT ![p] = Absent] /\ public' = public \ {p}
        /\ refs' = References(p, left) /\ writer' = Overtaken(w, p)
        /\ astray' = IF r.stale THEN astray \cup {p} ELSE astray \ {p}
    BY <1>3 DEF Delete
  <2>2. left \in Refs /\ left \subseteq Confirmed
    BY <1>2 DEF UseInv, UseSound, Refs, RefsOf
  <2>3. r.pc # "referring" /\ (~r.stale => left = {})
    BY <1>1, <1>2 DEF WriterSound
  <2>4. /\ astray' \in {astray \cup {p}, astray \ {p}}
        /\ p \notin astray' => left = NamedIn(Absent)
    BY <2>1, <2>3, EmptyUse
  <2>5. \/ p \in Pieces /\ Absent \in Contents \cup {Absent}
        \/ p \in Notes /\ Absent \in NoteContents \cup {Absent}
    BY <1>2 DEF Things
  <2>6. public' \subseteq public /\ p \notin public'
    BY <2>1
  <2> HIDE DEF left, p
  <2> QED
    BY <1>1, <1>2, <2>1, <2>2, <2>3, <2>4, <2>5, <2>6, Rewritten, Zenon
<1>4. CASE ~There(p)
  <2>1. /\ writer' = [writer EXCEPT ![w] = Resting]
        /\ UNCHANGED <<content, public, refs, astray>>
    BY <1>4 DEF Delete
  <2>2. WriterSound(Resting) /\ Resting \in WriterRequests /\ Resting.pc # "referring"
    BY EmptyUse DEF WriterSound
  <2>3. r.pc # "referring"
    BY <1>1
  <2> HIDE DEF p
  <2> QED
    BY <1>1, <1>2, <2>1, <2>2, <2>3, WriterMoves, Zenon
<1> QED
  BY <1>3, <1>4

LEMMA UseStep == UseInv /\ [AssetUseNext]_uvars => UseInv'
<1> SUFFICES ASSUME UseInv, [AssetUseNext]_uvars PROVE UseInv'
  OBVIOUS
<1>1. CASE UNCHANGED uvars
  <2>1. UNCHANGED <<asset, content, public, refs, writer, student, writes, astray>>
    BY <1>1 DEF uvars
  <2>2. StudentSound' /\ student' \in {NoOpening} \cup Lookings \cup Openings
    BY <2>1 DEF UseInv, UseTyped, StudentSound
  <2> QED
    BY <2>1, <2>2, StudentMoves
<1>2. CASE Close \/ (\E a \in Assets : BeginOpen(a)) \/ (\E p \in Things : LookAt(p))
  BY <1>2, StudentOpens
<1>3. ASSUME NEW a \in Assets, Upload(a) \/ ConfirmUpload(a) PROVE UseInv'
  BY <1>3, FilesMove
<1>4. ASSUME NEW p \in Things, ShowOrHide(p) PROVE UseInv'
  BY <1>4, ShownOrHidden
<1>5. ASSUME NEW w \in Writers,
             \/ Refer(w) \/ UpdatePiece(w) \/ Delete(w)
             \/ \E p \in Things : BeginDelete(w, p)
      PROVE  UseInv'
  BY <1>5, PieceReferred, PieceUpdated, ThingDeleted, DeletionBegins
<1>6. ASSUME NEW w \in Writers, NEW p \in Pieces,
             \/ \E c \in Contents : CreatePiece(w, p, c)
             \/ \E g \in [Fields -> Assets \cup {NoAsset, Kept}] : BeginUpdatePiece(w, p, g)
      PROVE  UseInv'
  BY <1>6, PieceCreated, PieceUpdateBegins
<1>7. ASSUME NEW w \in Writers, NEW n \in Notes,
             \/ \E a \in Assets \cup {NoAsset} : CreateNote(w, n, a)
             \/ \E a \in Assets : UpdateNote(w, n, a)
      PROVE  UseInv'
  BY <1>7, NoteCreated, NoteUpdated
<1> QED
  BY <1>1, <1>2, <1>3, <1>4, <1>5, <1>6, <1>7 DEF AssetUseNext

(***************************************************************************)
(* Seeding                                                                 *)
(***************************************************************************)

ChoreNames == {"role", "link", "boss", "bossRole", "template", "offer", "settings",
               "marker?", "student", "marker", "content", "tests", "orders", "pages", "up"}

\* The chores follow one another, and what a process has passed grows by the one it leaves.
LEMMA ChoresInOrder ==
  /\ {Chores[i] : i \in DOMAIN Chores} = ChoreNames
  /\ Following("role") = "link" /\ Following("link") = "boss" /\ Following("boss") = "bossRole"
  /\ Following("bossRole") = "template" /\ Following("template") = "offer"
  /\ Following("offer") = "settings" /\ Following("settings") = "marker?"
  /\ Following("marker?") = "student" /\ Following("student") = "marker"
  /\ Following("marker") = "content" /\ Following("content") = "tests"
  /\ Following("tests") = "orders" /\ Following("orders") = "pages"
  /\ Following("pages") = "up"
  /\ Passed("role") = {}
  /\ \A c \in ChoreNames \ {"up"} : Passed(Following(c)) = Passed(c) \cup {c}
<1> USE DEF Chores
<1>1. DOMAIN Chores = 1 .. 15
  OBVIOUS
<1>2. \A i, j \in 1 .. 15 : Chores[i] = Chores[j] => i = j
  OBVIOUS
<1>3. ASSUME NEW i \in 1 .. 15 PROVE Place(Chores[i]) = i
  <2> HIDE DEF Chores
  <2> QED
    BY <1>1, <1>2 DEF Place
<1>4. /\ Place("role") = 1 /\ Place("link") = 2 /\ Place("boss") = 3 /\ Place("bossRole") = 4
      /\ Place("template") = 5 /\ Place("offer") = 6 /\ Place("settings") = 7
      /\ Place("marker?") = 8 /\ Place("student") = 9 /\ Place("marker") = 10
      /\ Place("content") = 11 /\ Place("tests") = 12 /\ Place("orders") = 13
      /\ Place("pages") = 14
  BY <1>3
<1>5. {Chores[i] : i \in DOMAIN Chores} = ChoreNames
  BY <1>1 DEF ChoreNames
<1>6. ASSUME NEW c \in ChoreNames \ {"up"}
      PROVE  /\ Place(c) \in 1 .. 14 /\ Chores[Place(c)] = c
             /\ Place(Following(c)) = Place(c) + 1
  <2>1. PICK i \in 1 .. 15 : c = Chores[i]
    BY <1>1, <1>5
  <2>2. i # 15
    BY <2>1
  <2>3. Place(c) = i
    BY <1>3, <2>1
  <2>4. i + 1 \in 1 .. 15 /\ Following(c) = Chores[i + 1]
    BY <2>2, <2>3 DEF Following
  <2>5. Place(Chores[i + 1]) = i + 1
    BY <1>3, <2>4
  <2> HIDE DEF Chores
  <2> QED
    BY <2>1, <2>2, <2>3, <2>4, <2>5
<1>7. ASSUME NEW c \in ChoreNames \ {"up"} PROVE Passed(Following(c)) = Passed(c) \cup {c}
  <2> HIDE DEF Chores
  <2> PICK n : n = Place(c)
    OBVIOUS
  <2>1. n \in 1 .. 14 /\ Chores[n] = c /\ Place(Following(c)) = n + 1
    BY <1>6
  <2>2. 1 .. (n + 1) - 1 = (1 .. n - 1) \cup {n}
    BY <2>1
  <2> QED
    BY <2>1, <2>2 DEF Passed
<1>8. Passed("role") = {}
  BY <1>4 DEF Passed
<1>9. /\ Following("role") = "link" /\ Following("link") = "boss" /\ Following("boss") = "bossRole"
      /\ Following("bossRole") = "template" /\ Following("template") = "offer"
      /\ Following("offer") = "settings" /\ Following("settings") = "marker?"
      /\ Following("marker?") = "student" /\ Following("student") = "marker"
      /\ Following("marker") = "content" /\ Following("content") = "tests"
      /\ Following("tests") = "orders" /\ Following("orders") = "pages"
      /\ Following("pages") = "up"
  BY <1>4 DEF Following
<1> QED
  BY <1>5, <1>7, <1>8, <1>9

LEMMA PassedTold ==
  /\ Passed("settings") = {"role", "link", "boss", "bossRole", "template", "offer"}
  /\ Passed("marker?") = Passed("settings") \cup {"settings"}
  /\ Passed("content") = Passed("marker?") \cup {"marker?", "student", "marker"}
  /\ Passed("up") = Passed("content") \cup {"content", "tests", "orders", "pages"}
<1> DEFINE Next1(c, d) == Passed(d) = Passed(c) \cup {c}
<1>1. /\ Next1("role", "link") /\ Next1("link", "boss") /\ Next1("boss", "bossRole")
      /\ Next1("bossRole", "template") /\ Next1("template", "offer")
      /\ Next1("offer", "settings") /\ Next1("settings", "marker?")
      /\ Next1("marker?", "student") /\ Next1("student", "marker")
      /\ Next1("marker", "content") /\ Next1("content", "tests")
      /\ Next1("tests", "orders") /\ Next1("orders", "pages") /\ Next1("pages", "up")
  BY ChoresInOrder DEF ChoreNames
<1> QED
  BY <1>1, ChoresInOrder

Whats == SeedRows \cup {"boss", "blocked", "draft", "settings"}
Pcs == {"down", "at", "creating", "promoting", "published?", "latest?", "first", "completing",
        "archiving", "adding"}
BootRows == [pc : Pcs, chore : ChoreNames, found : {0} \cup Editions, others : SUBSET Editions,
             changed : SUBSET Whats]
PublicationRows == [pc : {"none", "archiving", "setting"}, it : {0} \cup Editions,
                    others : SUBSET Editions, late : BOOLEAN]
InTransaction == {"archiving", "adding"}

\* Where a process is within a chore goes with the chore.
Placed(x) ==
  /\ x.pc = "down" => x = Down
  /\ x.pc = "creating" => x.chore \in {"template", "offer", "boss", "student"} \cup SampleRows
  /\ x.pc = "promoting" => x.chore = "boss"
  /\ x.pc \in {"published?", "latest?", "first", "completing", "archiving", "adding"} =>
       x.chore = "settings"

BootsOK == boot \in [Boots -> BootRows] /\ \A b \in Boots : Placed(boot[b])
VersionsOK ==
  /\ numbered \in 0 .. MaxSettings /\ live \subseteq 1 .. numbered /\ full \subseteq 1 .. numbered
  /\ base \in [{0} \cup Editions -> {0} \cup Editions] /\ base[0] = 0
  /\ \A v \in Editions : base[v] < v /\ (v > numbered => base[v] = 0)
  /\ publishing \in PublicationRows
  /\ publishing.pc # "none" => publishing.it \in 1 .. numbered
RowsOK ==
  /\ rows \in [SeedRows -> Nat]
  /\ \A r \in SeedRows \ {"content", "tests"} : rows[r] <= 1
  /\ boss \in [type : {"none", "STUDENT", "ADMIN"}, blocked : BOOLEAN]
SeedShape == BootsOK /\ VersionsOK /\ RowsOK

\* A set of numbers up to some number that is not empty has a greatest.
LEMMA Greatest ==
  ASSUME NEW n \in Nat
  PROVE  \A s \in SUBSET (1 .. n) : s # {} => \E v \in s : \A w \in s : w <= v
<1> DEFINE G == {s \in SUBSET (1 .. n) : s # {} => \E v \in s : \A w \in s : w <= v}
<1>1. ASSUME NEW s \in SUBSET (1 .. n), \A x \in s : s \ {x} \in G PROVE s \in G
  <2>1. ASSUME NEW x \in s PROVE \E v \in s : \A w \in s : w <= v
    <3>1. CASE s \ {x} = {}
      BY <3>1
    <3>2. CASE s \ {x} # {}
      <4>1. PICK v \in s \ {x} : \A w \in s \ {x} : w <= v
        BY <1>1, <3>2
      <4>2. v \in Int /\ x \in Int
        OBVIOUS
      <4>3. CASE x <= v
        BY <4>1, <4>3
      <4>4. CASE v <= x
        <5>1. \A w \in s : w <= x
          BY <4>1, <4>2, <4>4
        <5> QED
          BY <5>1
      <4> QED
        BY <4>2, <4>3, <4>4
    <3> QED
      BY <3>1, <3>2
  <2> QED
    BY <2>1, Zenon
<1>2. IsFiniteSet(1 .. n)
  BY FS_Interval
<1> HIDE DEF G
<1>3. \A s \in SUBSET (1 .. n) : s \in G
  BY <1>1, <1>2, SetInduction, Zenon
<1> QED
  BY <1>3 DEF G

\* The version served is the greatest one published.
LatestOf(L) == IF L = {} THEN 0 ELSE CHOOSE v \in L : \A w \in L : w <= v
LatestIs(L, v) ==
  v \in {0} \cup Editions /\ (L = {} => v = 0) /\ (L # {} => v \in L /\ \A w \in L : w <= v)

LEMMA LatestIsGreatest ==
  ASSUME NEW L, NEW n \in Nat, n <= MaxSettings, L \subseteq 1 .. n
  PROVE  LatestIs(L, LatestOf(L))
<1>1. CASE L # {}
  <2>1. \E v \in L : \A w \in L : w <= v
    BY <1>1, Greatest, Zenon
  <2>2. LatestOf(L) \in L /\ \A w \in L : w <= LatestOf(L)
    BY <1>1, <2>1, Zenon DEF LatestOf
  <2>3. L \subseteq Editions
    BY SeedingAssumption DEF Editions
  <2> QED
    BY <1>1, <2>2, <2>3, Zenon DEF LatestIs
<1> QED
  BY <1>1 DEF LatestIs, LatestOf

LEMMA ServedIs ==
  ASSUME VersionsOK
  PROVE  /\ Served \in {0} \cup Editions
         /\ live = {} => Served = 0
         /\ live # {} => Served \in live /\ \A w \in live : w <= Served
<1>1. numbered \in Nat /\ numbered <= MaxSettings /\ live \subseteq 1 .. numbered
  BY SeedingAssumption DEF VersionsOK
<1>2. LatestIs(live, LatestOf(live))
  BY <1>1, LatestIsGreatest, Zenon
<1>3. LatestOf(live) = Served
  BY DEF Served, LatestOf
<1> QED
  BY <1>2, <1>3 DEF LatestIs

\* The chores of the processes but for one, which is now at c.
Moves(b, c) ==
  /\ boot'[b].chore = c
  /\ \A o \in Boots \ {b} : boot'[o] = boot[o]

LEMMA ToStays ==
  ASSUME BootsOK, NEW b \in Boots, NEW pc \in Pcs \ {"down"}, NEW found \in {0} \cup Editions,
         To(b, pc, found), Placed([boot[b] EXCEPT !.pc = pc, !.found = found])
  PROVE  /\ BootsOK' /\ Moves(b, boot[b].chore)
         /\ boot'[b].pc = pc /\ boot'[b].changed = boot[b].changed /\ boot'[b].found = found
<1> PICK row : row = [boot[b] EXCEPT !.pc = pc, !.found = found]
  OBVIOUS
<1>1. boot[b] \in BootRows
  BY DEF BootsOK
<1>2. row \in BootRows /\ row.chore = boot[b].chore /\ row.pc = pc /\ row.changed = boot[b].changed
      /\ row.found = found
  BY <1>1, Zenon DEF BootRows
<1>3. boot' = [boot EXCEPT ![b] = row]
  BY <1>1, Zenon DEF To, BootsOK
<1>4. /\ boot' \in [Boots -> BootRows] /\ boot'[b] = row
      /\ \A o \in Boots \ {b} : boot'[o] = boot[o]
  BY <1>2, <1>3 DEF BootsOK
<1>5. \A o \in Boots : Placed(boot'[o])
  BY <1>4 DEF BootsOK
<1> QED
  BY <1>2, <1>4, <1>5 DEF BootsOK, Moves

LEMMA NextMoves ==
  ASSUME BootsOK, NEW b \in Boots, boot[b].chore # "up", NextChore(b)
  PROVE  /\ BootsOK' /\ Moves(b, Following(boot[b].chore))
         /\ boot'[b].pc = "at" /\ boot'[b].changed = boot[b].changed /\ boot'[b].found = 0
<1> PICK c : c = Following(boot[b].chore)
  OBVIOUS
<1> PICK row : row = [boot[b] EXCEPT !.pc = "at", !.chore = c, !.found = 0, !.others = {}]
  OBVIOUS
<1>1. boot[b] \in BootRows
  BY DEF BootsOK
<1>2. c \in ChoreNames
  BY <1>1, ChoresInOrder DEF ChoreNames, BootRows
<1>3. /\ row \in BootRows /\ row.chore = c /\ row.pc = "at" /\ row.changed = boot[b].changed
      /\ row.found = 0
  BY <1>1, <1>2 DEF BootRows, Pcs
<1>4. boot' = [boot EXCEPT ![b] = row]
  BY <1>1, Zenon DEF NextChore, BootsOK
<1>5. /\ boot' \in [Boots -> BootRows] /\ boot'[b] = row
      /\ \A o \in Boots \ {b} : boot'[o] = boot[o]
  BY <1>3, <1>4 DEF BootsOK
<1>6. Placed(row)
  BY <1>3 DEF Placed
<1>7. \A o \in Boots : Placed(boot'[o])
  BY <1>5, <1>6 DEF BootsOK
<1> QED
  BY <1>3, <1>5, <1>7 DEF BootsOK, Moves

LEMMA DownIsRow ==
  Down \in BootRows /\ Placed(Down) /\ Down.pc = "down" /\ Down.chore = "role" /\ Down.found = 0
  BY DEF Down, BootRows, Pcs, ChoreNames, Placed

LEMMA LeaveMoves ==
  ASSUME BootsOK, NEW b \in Boots, Leave(b)
  PROVE  BootsOK' /\ Moves(b, "role") /\ boot'[b] = Down /\ torn' = (torn \/ InSamples(b))
<1>1. /\ boot' \in [Boots -> BootRows] /\ boot'[b] = Down
      /\ \A o \in Boots \ {b} : boot'[o] = boot[o]
  BY DownIsRow DEF Leave, BootsOK
<1>2. \A o \in Boots : Placed(boot'[o])
  BY <1>1, DownIsRow DEF BootsOK
<1> QED
  BY <1>1, <1>2, DownIsRow DEF BootsOK, Moves, Leave

\* An administrator's change is noted with every process that has started.
LEMMA ActNotes ==
  ASSUME BootsOK, NEW what \in Whats, Noticed(what)
  PROVE  /\ BootsOK'
         /\ \A b \in Boots : /\ boot'[b].pc = boot[b].pc /\ boot'[b].chore = boot[b].chore
                             /\ boot'[b] = Down \/ boot'[b].changed = boot[b].changed \cup {what}
                             /\ boot'[b].found = boot[b].found
                             /\ boot'[b].others = boot[b].others
<1>1. ASSUME NEW b \in Boots
      PROVE  /\ boot'[b] \in BootRows /\ Placed(boot'[b])
             /\ boot'[b].pc = boot[b].pc /\ boot'[b].chore = boot[b].chore
             /\ boot'[b] = Down \/ boot'[b].changed = boot[b].changed \cup {what}
             /\ boot'[b].found = boot[b].found /\ boot'[b].others = boot[b].others
  <2>1. CASE boot[b] = Down
    BY <2>1, DownIsRow DEF Noticed
  <2>2. CASE boot[b] # Down
    <3> PICK row : row = [boot[b] EXCEPT !.changed = @ \cup {what}]
      BY Zenon
    <3>1. boot'[b] = row
      BY <2>2 DEF Noticed
    <3>2. boot[b] \in BootRows /\ Placed(boot[b])
      BY DEF BootsOK
    <3>3. /\ row \in BootRows /\ row.pc = boot[b].pc /\ row.chore = boot[b].chore
          /\ row.changed = boot[b].changed \cup {what}
          /\ row.found = boot[b].found /\ row.others = boot[b].others
      BY <3>2 DEF BootRows
    <3>4. Placed(row)
      BY <2>2, <3>2, <3>3 DEF Placed
    <3> QED
      BY <3>1, <3>3, <3>4
  <2> QED
    BY <2>1, <2>2
<1>2. boot' = [b \in Boots |-> boot'[b]]
  BY DEF Noticed
<1>3. boot' \in [Boots -> BootRows]
  BY <1>1, <1>2
<1> QED
  BY <1>1, <1>3 DEF BootsOK

\* What a process has passed is there, and one that creates the settings found none.
Durable == RoleRows \cup TemplateRows \cup OfferRows
LeftBy(chore, changed) ==
  LET due == Passed(chore) \ changed IN
  /\ \A r \in due \cap Durable : rows[r] = 1
  /\ "boss" \in due => boss.type = "ADMIN"
  /\ "settings" \in due => Complete(Served)
Awaits(pc, changed) ==
  pc \in {"published?", "latest?", "first"} =>
    live = {} \/ Complete(Served) \/ "settings" \in changed
PassInv ==
  \A b \in Boots : /\ LeftBy(boot[b].chore, boot[b].changed)
                   /\ Awaits(boot[b].pc, boot[b].changed)

\* What is there stays, but for what an administrator changes.
LastsBut(what) ==
  /\ \A r \in Durable \ {what} : rows[r] = 1 => rows'[r] = 1
  /\ boss.type = "ADMIN" => boss'.type = "ADMIN" \/ what = "boss"
  /\ Complete(Served) => Complete(Served)' \/ what = "settings"
  /\ live = {} => live' = {} \/ Complete(Served)' \/ what = "settings"
Gained(chore, changed) ==
  /\ chore \in Durable => rows[chore] = 1
  /\ chore = "boss" => boss.type = "ADMIN"
  /\ chore = "settings" => Complete(Served) \/ "settings" \in changed

\* What a step does to what processes have passed.
PassStep ==
  \/ \E what \in Whats :
       /\ LastsBut(what)
       /\ \A b \in Boots : \/ boot'[b] = Down
                           \/ /\ boot'[b].pc = boot[b].pc /\ boot'[b].chore = boot[b].chore
                              /\ boot'[b].changed = boot[b].changed \cup {what}
  \/ /\ LastsBut("nothing")
     /\ \E b \in Boots, c \in ChoreNames, ch \in SUBSET Whats :
          /\ c = boot[b].chore /\ ch = boot[b].changed
          /\ \A o \in Boots \ {b} : boot'[o] = boot[o]
          /\ \/ boot'[b] = Down
             \/ /\ boot'[b].changed = ch
                /\ \/ boot'[b].chore = c /\ Awaits(boot[b].pc, ch)'
                   \/ /\ boot'[b].chore = Following(c) /\ c # "up"
                      /\ boot'[b].pc = "at" /\ Gained(c, ch)'
                   \/ c = "marker?" /\ boot'[b].chore = "up" /\ boot'[b].pc = "at"
  \/ \A b \in Boots : boot'[b] = Down

LEMMA DoneStays ==
  ASSUME RowsOK, RowsOK', NEW what, LastsBut(what), NEW c \in ChoreNames,
         NEW ch, NEW ch2, ch \subseteq ch2, what = "nothing" \/ what \in ch2, LeftBy(c, ch)
  PROVE  LeftBy(c, ch2)'
<1>1. ASSUME NEW r \in (Passed(c) \ ch2) \cap Durable PROVE rows'[r] = 1
  <2>1. r \in Durable /\ rows[r] = 1 /\ r # what
    BY DEF LeftBy, Durable, RoleRows, TemplateRows, OfferRows
  <2> QED
    BY <2>1 DEF LastsBut
<1>2. "boss" \in Passed(c) \ ch2 => boss'.type = "ADMIN"
  BY DEF LeftBy, LastsBut
<1>3. "settings" \in Passed(c) \ ch2 => Complete(Served)'
  BY DEF LeftBy, LastsBut
<1> QED
  BY <1>1, <1>2, <1>3 DEF LeftBy

LEMMA AwaitsStays ==
  ASSUME NEW what, LastsBut(what), NEW pc, NEW ch, NEW ch2, ch \subseteq ch2,
         what = "nothing" \/ what \in ch2, Awaits(pc, ch)
  PROVE  Awaits(pc, ch2)'
  BY DEF Awaits, LastsBut

LEMMA DownIsDone == \A b \in Boots : boot'[b] = Down =>
  LeftBy(boot[b].chore, boot[b].changed)' /\ Awaits(boot[b].pc, boot[b].changed)'
<1>1. LeftBy("role", {})' /\ Awaits("down", {})'
  BY ChoresInOrder DEF LeftBy, Awaits
<1> QED
  BY <1>1 DEF Down, LeftBy, Awaits

\* What a process passes joins what it has passed.
LEMMA DoneGrows ==
  ASSUME NEW c \in ChoreNames \ {"up"}, NEW ch, LeftBy(c, ch)', Gained(c, ch)'
  PROVE  LeftBy(Following(c), ch)'
<1>1. Passed(Following(c)) = Passed(c) \cup {c}
  BY ChoresInOrder
<1> QED
  BY <1>1 DEF LeftBy, Gained

\* The samples are none of what a process must leave.
LEMMA DoneSkips ==
  ASSUME NEW ch, LeftBy("marker?", ch)' PROVE LeftBy("up", ch)'
<1>1. /\ Passed("up") \cap Durable = Passed("marker?") \cap Durable
      /\ "boss" \in Passed("up") => "boss" \in Passed("marker?")
      /\ "settings" \in Passed("up") => "settings" \in Passed("marker?")
  BY PassedTold DEF Durable, RoleRows, TemplateRows, OfferRows
<1>2. \A r \in (Passed("up") \ ch) \cap Durable : r \in (Passed("marker?") \ ch) \cap Durable
  BY <1>1
<1> QED
  BY <1>1, <1>2 DEF LeftBy

LEMMA PassKept ==
  ASSUME BootsOK, RowsOK, RowsOK', PassInv, PassStep
  PROVE  PassInv'
<1>0. \A b \in Boots : boot[b].chore \in ChoreNames
  BY DEF BootsOK, BootRows
<1>1. ASSUME NEW what \in Whats, LastsBut(what), NEW b \in Boots,
             boot'[b].pc = boot[b].pc, boot'[b].chore = boot[b].chore,
             boot'[b].changed = boot[b].changed \cup {what}
      PROVE  LeftBy(boot[b].chore, boot[b].changed)' /\ Awaits(boot[b].pc, boot[b].changed)'
  <2> PICK c, pc, ch, ch2 : /\ c = boot[b].chore /\ pc = boot[b].pc /\ ch = boot[b].changed
                            /\ ch2 = ch \cup {what}
    BY Zenon
  <2>1. LeftBy(c, ch) /\ Awaits(pc, ch) /\ c \in ChoreNames
    BY <1>0 DEF PassInv
  <2>2. ch \subseteq ch2 /\ what \in ch2
    OBVIOUS
  <2>3. LeftBy(c, ch2)'
    BY <1>1, <2>1, <2>2, DoneStays
  <2>4. Awaits(pc, ch2)'
    BY <1>1, <2>1, <2>2, AwaitsStays
  <2> QED
    BY <1>1, <2>3, <2>4 DEF LeftBy, Awaits
<1>2. ASSUME LastsBut("nothing"), NEW o \in Boots, boot'[o] = boot[o]
      PROVE  LeftBy(boot[o].chore, boot[o].changed)' /\ Awaits(boot[o].pc, boot[o].changed)'
  <2> PICK c, pc, ch : c = boot[o].chore /\ pc = boot[o].pc /\ ch = boot[o].changed
    OBVIOUS
  <2>1. LeftBy(c, ch) /\ Awaits(pc, ch) /\ c \in ChoreNames
    BY <1>0 DEF PassInv
  <2>2. LeftBy(c, ch)'
    BY <1>2, <2>1, DoneStays
  <2>3. Awaits(pc, ch)'
    BY <1>2, <2>1, AwaitsStays
  <2> QED
    BY <1>2, <2>2, <2>3 DEF LeftBy, Awaits
<1>3. ASSUME LastsBut("nothing"), NEW b \in Boots, NEW c \in ChoreNames, NEW ch \in SUBSET Whats,
             c = boot[b].chore, ch = boot[b].changed, boot'[b].changed = ch,
             \/ boot'[b].chore = c /\ Awaits(boot[b].pc, ch)'
             \/ /\ boot'[b].chore = Following(c) /\ c # "up"
                /\ boot'[b].pc = "at" /\ Gained(c, ch)'
             \/ c = "marker?" /\ boot'[b].chore = "up" /\ boot'[b].pc = "at"
      PROVE  LeftBy(boot[b].chore, boot[b].changed)' /\ Awaits(boot[b].pc, boot[b].changed)'
  <2>1. LeftBy(c, ch)
    BY <1>3 DEF PassInv
  <2>2. LeftBy(c, ch)'
    BY <1>3, <2>1, DoneStays
  <2> PICK c2 : c2 = boot'[b].chore
    OBVIOUS
  <2>3. LeftBy(c2, ch)'
    <3>1. CASE c2 = c
      BY <2>2, <3>1
    <3>2. CASE c2 = Following(c) /\ c # "up" /\ Gained(c, ch)'
      <4>1. LeftBy(Following(c), ch)'
        BY <2>2, <3>2, DoneGrows
      <4> QED
        BY <3>2, <4>1 DEF LeftBy
    <3>3. CASE c = "marker?" /\ c2 = "up"
      BY <2>2, <3>3, DoneSkips
    <3> QED
      BY <1>3, <3>1, <3>2, <3>3
  <2>4. Awaits(boot[b].pc, ch)'
    BY <1>3 DEF Awaits
  <2> QED
    BY <1>3, <2>3, <2>4 DEF LeftBy, Awaits
<1>4. ASSUME NEW b \in Boots
      PROVE  LeftBy(boot[b].chore, boot[b].changed)' /\ Awaits(boot[b].pc, boot[b].changed)'
  BY <1>1, <1>2, <1>3, DownIsDone DEF PassStep
<1> QED
  BY <1>4 DEF PassInv

\* The samples come after their marker, are passed once they are there, and are those of one
\* process unless two went into them.
SampleInv ==
  /\ rows["marker"] = 0 => \A r \in SampleRows : rows[r] = 0
  /\ \A b \in Boots : InSamples(b) =>
       /\ rows["marker"] # 0
       /\ \A r \in SampleRows \cap Passed(boot[b].chore) : rows[r] >= 1
       /\ ~together => /\ boot[b].chore = "content" => rows["content"] = 0
                       /\ boot[b].chore \in {"content", "tests"} => rows["tests"] = 0
                       /\ \A o \in Boots : InSamples(o) => o = b
  /\ together \/ \A r \in SampleRows : rows[r] <= 1
  /\ \/ torn \/ rows["marker"] = 0
     \/ \E b \in Boots : InSamples(b)
     \/ \A r \in SampleRows : rows[r] >= 1

\* What a step does to the samples and to where processes are among the chores.
MarkSame == rows'["marker"] = rows["marker"]
SamplesSame == \A r \in SampleRows : rows'[r] = rows[r]
SampleStep ==
  \/ /\ \A b \in Boots : boot'[b].chore = boot[b].chore
     /\ MarkSame /\ SamplesSame /\ torn' = torn /\ together' = together
  \/ /\ \A b \in Boots : boot[b].chore \notin SampleRows /\ boot'[b].chore = "role"
     /\ MarkSame /\ SamplesSame /\ torn' = torn /\ together' = together
  \/ \E b \in Boots, c \in ChoreNames, d \in ChoreNames :
       /\ c = boot[b].chore /\ boot'[b].chore = d
       /\ \A o \in Boots \ {b} : boot'[o] = boot[o]
       /\ \/ /\ d = "role" /\ MarkSame /\ SamplesSame /\ together' = together
             /\ torn' = (torn \/ InSamples(b))
          \/ /\ c \notin SampleRows \cup {"marker"} /\ MarkSame /\ SamplesSame
             /\ torn' = torn /\ together' = together
             /\ \/ d = Following(c) /\ c # "up" /\ (c = "marker?" => rows["marker"] = 0)
                \/ d = "up" /\ c = "marker?"
          \/ /\ c = "marker" /\ d = "content" /\ rows'["marker"] = 1 /\ SamplesSame
             /\ torn' = torn /\ together' = (together \/ rows["marker"] = 1)
          \/ /\ c \in SampleRows /\ d = Following(c) /\ MarkSame
             /\ torn' = torn /\ together' = together
             /\ \/ rows[c] # 0 /\ SamplesSame
                \/ /\ rows'[c] = rows[c] + 1 /\ (c \in {"orders", "pages"} => rows[c] = 0)
                   /\ \A r \in SampleRows \ {c} : rows'[r] = rows[r]

LEMMA SamplesPassed ==
  /\ SampleRows \cap Passed("content") = {}
  /\ \A c \in SampleRows : /\ Following(c) \in ChoreNames /\ c # "up"
                           /\ Passed(Following(c)) = Passed(c) \cup {c}
                           /\ Following(c) # "content"
                           /\ Following(c) = "tests" => c = "content"
                           /\ Following(c) \notin SampleRows => Following(c) = "up"
  /\ SampleRows \subseteq Passed("up")
  /\ \A c \in ChoreNames \ ({"marker", "up"} \cup SampleRows) : Following(c) \notin SampleRows
  BY ChoresInOrder, PassedTold DEF ChoreNames, SampleRows

LEMMA SamplesKept ==
  ASSUME RowsOK, BootsOK, SampleInv, SampleStep
  PROVE  SampleInv'
<1>0. /\ \A r \in SampleRows : rows[r] \in Nat
      /\ rows["marker"] \in 0 .. 1 /\ rows["orders"] \in 0 .. 1 /\ rows["pages"] \in 0 .. 1
  BY DEF RowsOK, SeedRows, SampleRows, RoleRows, TemplateRows, OfferRows
<1>1. CASE /\ \A b \in Boots : boot'[b].chore = boot[b].chore
           /\ MarkSame /\ SamplesSame /\ torn' = torn /\ together' = together
  <2>1. /\ \A b \in Boots : InSamples(b)' <=> InSamples(b)
        /\ \A r \in SampleRows : rows'[r] = rows[r]
        /\ "content" \in SampleRows /\ "tests" \in SampleRows
    BY <1>1 DEF InSamples, SamplesSame, SampleRows
  <2> QED
    BY <1>1, <2>1 DEF SampleInv, MarkSame
<1>2. CASE /\ \A b \in Boots : boot[b].chore \notin SampleRows /\ boot'[b].chore = "role"
           /\ MarkSame /\ SamplesSame /\ torn' = torn /\ together' = together
  <2>1. "role" \notin SampleRows
    BY DEF SampleRows
  <2> QED
    BY <1>2, <2>1 DEF SampleInv, InSamples, MarkSame, SamplesSame
<1>3. ASSUME NEW b \in Boots, NEW d \in ChoreNames, boot'[b].chore = d,
             \A o \in Boots \ {b} : boot'[o] = boot[o],
             d = "role" /\ MarkSame /\ SamplesSame /\ together' = together,
             torn' = (torn \/ InSamples(b))
      PROVE  SampleInv'
  <2>1. "role" \notin SampleRows
    BY DEF SampleRows
  <2>2. ~InSamples(b)' /\ \A o \in Boots \ {b} : InSamples(o)' <=> InSamples(o)
    BY <1>3, <2>1 DEF InSamples
  <2>3. /\ rows'["marker"] = 0 => \A r \in SampleRows : rows'[r] = 0
        /\ together' \/ \A r \in SampleRows : rows'[r] <= 1
    BY <1>3 DEF SampleInv, MarkSame, SamplesSame
  <2>4. ASSUME NEW o \in Boots, InSamples(o)'
        PROVE  /\ rows'["marker"] # 0
               /\ \A r \in SampleRows \cap Passed(boot'[o].chore) : rows'[r] >= 1
               /\ ~together' => /\ boot'[o].chore = "content" => rows'["content"] = 0
                                /\ boot'[o].chore \in {"content", "tests"} => rows'["tests"] = 0
                                /\ \A p \in Boots : InSamples(p)' => p = o
    <3>1. o # b /\ InSamples(o) /\ boot'[o] = boot[o]
      BY <1>3, <2>2, <2>4
    <3> QED
      BY <1>3, <2>2, <3>1 DEF SampleInv, MarkSame, SamplesSame, SampleRows
  <2>5. \/ torn' \/ rows'["marker"] = 0
        \/ \E o \in Boots : InSamples(o)'
        \/ \A r \in SampleRows : rows'[r] >= 1
    BY <1>3, <2>2, Zenon DEF SampleInv, MarkSame, SamplesSame
  <2> QED
    BY <2>3, <2>4, <2>5 DEF SampleInv
<1>4. ASSUME NEW b \in Boots, NEW c \in ChoreNames, NEW d \in ChoreNames,
             c = boot[b].chore, boot'[b].chore = d,
             \A o \in Boots \ {b} : boot'[o] = boot[o],
             c \notin SampleRows, d \notin SampleRows,
             MarkSame, SamplesSame, torn' = torn, together' = together
      PROVE  SampleInv'
  <2>1. \A o \in Boots : InSamples(o)' <=> InSamples(o)
    BY <1>4 DEF InSamples
  <2>2. \A o \in Boots : InSamples(o)' => boot'[o].chore = boot[o].chore
    BY <1>4 DEF InSamples
  <2>3. \A r \in SampleRows : rows'[r] = rows[r]
    BY <1>4 DEF SamplesSame
  <2>4. "content" \in SampleRows /\ "tests" \in SampleRows
    BY DEF SampleRows
  <2> QED
    BY <1>4, <2>1, <2>2, <2>3, <2>4 DEF SampleInv, MarkSame
<1>5. ASSUME NEW b \in Boots, boot[b].chore = "marker", boot'[b].chore = "content",
             \A o \in Boots \ {b} : boot'[o] = boot[o],
             rows'["marker"] = 1, SamplesSame, torn' = torn,
             together' = (together \/ rows["marker"] = 1)
      PROVE  SampleInv'
  <2>1. InSamples(b)' /\ ~InSamples(b) /\ \A o \in Boots \ {b} : InSamples(o)' <=> InSamples(o)
    BY <1>5 DEF InSamples, SampleRows
  <2>2. \A r \in SampleRows : rows'[r] = rows[r]
    BY <1>5 DEF SamplesSame
  <2>3. "content" \in SampleRows /\ "tests" \in SampleRows
    BY DEF SampleRows
  <2>4. ~together' => ~together /\ rows["marker"] = 0
    <3>1. ~together' => ~together /\ rows["marker"] # 1
      BY <1>5, Zenon
    <3>2. rows["marker"] # 1 => rows["marker"] = 0
      BY <1>0
    <3> QED
      BY <3>1, <3>2
  <2>5. ~together' => \A r \in SampleRows : rows[r] = 0
    BY <2>4 DEF SampleInv
  <2>6. ~together' => \A o \in Boots : ~InSamples(o)
    BY <2>4 DEF SampleInv
  <2>7. ASSUME NEW o \in Boots, InSamples(o)'
        PROVE  /\ rows'["marker"] # 0
               /\ \A r \in SampleRows \cap Passed(boot'[o].chore) : rows'[r] >= 1
               /\ ~together' => /\ boot'[o].chore = "content" => rows'["content"] = 0
                                /\ boot'[o].chore \in {"content", "tests"} => rows'["tests"] = 0
                                /\ \A p \in Boots : InSamples(p)' => p = o
    <3>1. CASE o = b
      BY <1>5, <2>1, <2>2, <2>3, <2>5, <2>6, <3>1, SamplesPassed
    <3>2. CASE o # b
      <4>1. InSamples(o) /\ boot'[o] = boot[o] /\ together'
        BY <1>5, <2>1, <2>6, <2>7, <3>2
      <4> QED
        BY <1>5, <2>2, <4>1 DEF SampleInv
    <3> QED
      BY <3>1, <3>2
  <2>8. together' \/ \A r \in SampleRows : rows'[r] <= 1
    BY <2>2, <2>4 DEF SampleInv
  <2> QED
    BY <1>5, <2>1, <2>7, <2>8 DEF SampleInv
<1>6. ASSUME NEW b \in Boots, NEW c \in SampleRows, NEW d \in ChoreNames,
             c = boot[b].chore, boot'[b].chore = d, d = Following(c),
             \A o \in Boots \ {b} : boot'[o] = boot[o],
             MarkSame, torn' = torn, together' = together,
             \/ rows[c] # 0 /\ SamplesSame
             \/ /\ rows'[c] = rows[c] + 1 /\ (c \in {"orders", "pages"} => rows[c] = 0)
                /\ \A r \in SampleRows \ {c} : rows'[r] = rows[r]
      PROVE  SampleInv'
  <2>1. InSamples(b) /\ \A o \in Boots \ {b} : InSamples(o)' <=> InSamples(o)
    BY <1>6 DEF InSamples
  <2>2. rows["marker"] # 0 /\ rows'["marker"] # 0
    BY <1>6, <2>1 DEF SampleInv, MarkSame
  <2>3. /\ \A r \in SampleRows : rows'[r] >= rows[r] /\ (r # c => rows'[r] = rows[r])
        /\ rows'[c] >= 1
    BY <1>0, <1>6 DEF SamplesSame
  <2>4. ~together => /\ \A o \in Boots \ {b} : ~InSamples(o)
                     /\ rows'[c] <= 1
                     /\ c = "content" => rows'["tests"] = 0
    <3>1. SUFFICES ASSUME ~together
                   PROVE  /\ \A o \in Boots \ {b} : ~InSamples(o)
                          /\ rows'[c] <= 1
                          /\ c = "content" => rows'["tests"] = 0
      OBVIOUS
    <3>2. /\ c = "content" => rows["content"] = 0
          /\ c \in {"content", "tests"} => rows["tests"] = 0
          /\ \A o \in Boots \ {b} : ~InSamples(o)
      BY <1>6, <2>1, <3>1 DEF SampleInv
    <3>3. rows[c] <= 1
      BY <3>1 DEF SampleInv
    <3>4. "tests" \in SampleRows /\ c \in {"content", "tests", "orders", "pages"}
      BY DEF SampleRows
    <3>5. c = "content" => rows'["tests"] = 0
      BY <2>3, <3>2, <3>4
    <3>6. rows'[c] <= 1
      BY <1>0, <1>6, <3>2, <3>3, <3>4 DEF SamplesSame
    <3> QED
      BY <3>2, <3>5, <3>6
  <2>5. \A r \in SampleRows \cap Passed(d) : rows'[r] >= 1
    <3>1. Passed(d) = Passed(c) \cup {c}
      BY <1>6, SamplesPassed
    <3>2. \A r \in SampleRows \cap Passed(c) : rows[r] >= 1
      BY <1>6, <2>1 DEF SampleInv
    <3>3. \A r \in SampleRows : rows'[r] \in Nat
      BY <1>0, <1>6 DEF SamplesSame
    <3> QED
      BY <1>0, <2>3, <3>1, <3>2, <3>3
  <2>6. ASSUME NEW o \in Boots, InSamples(o)'
        PROVE  /\ rows'["marker"] # 0
               /\ \A r \in SampleRows \cap Passed(boot'[o].chore) : rows'[r] >= 1
               /\ ~together' => /\ boot'[o].chore = "content" => rows'["content"] = 0
                                /\ boot'[o].chore \in {"content", "tests"} => rows'["tests"] = 0
                                /\ \A p \in Boots : InSamples(p)' => p = o
    <3>1. CASE o = b
      <4>1. d # "content" /\ (d = "tests" => c = "content")
        BY <1>6, SamplesPassed
      <4>2. \A p \in Boots : ~together' /\ InSamples(p)' => p = o
        BY <1>6, <2>1, <2>4, <3>1
      <4> QED
        BY <1>6, <2>2, <2>4, <2>5, <3>1, <4>1, <4>2
    <3>2. CASE o # b
      <4>1. InSamples(o) /\ boot'[o] = boot[o] /\ together'
        BY <1>6, <2>1, <2>4, <2>6, <3>2
      <4>2. \A r \in SampleRows \cap Passed(boot[o].chore) : rows[r] >= 1
        BY <4>1 DEF SampleInv
      <4>3. \A r \in SampleRows : rows'[r] \in Nat
        BY <1>0, <1>6 DEF SamplesSame
      <4> QED
        BY <1>0, <2>2, <2>3, <4>1, <4>2, <4>3
    <3> QED
      BY <3>1, <3>2
  <2>7. together' \/ \A r \in SampleRows : rows'[r] <= 1
    BY <1>6, <2>3, <2>4 DEF SampleInv
  <2>8. \/ torn' \/ rows'["marker"] = 0
        \/ \E o \in Boots : InSamples(o)'
        \/ \A r \in SampleRows : rows'[r] >= 1
    <3>1. CASE d \in SampleRows
      BY <1>6, <3>1 DEF InSamples
    <3>2. CASE d \notin SampleRows
      <4>1. SampleRows \subseteq Passed(d)
        BY <1>6, <3>2, SamplesPassed
      <4> QED
        BY <2>5, <4>1
    <3> QED
      BY <3>1, <3>2
  <2> QED
    BY <2>2, <2>6, <2>7, <2>8 DEF SampleInv
<1>7. \A c \in ChoreNames \ ({"marker", "up"} \cup SampleRows) : Following(c) \notin SampleRows
  BY SamplesPassed
<1>8. "up" \notin SampleRows /\ "marker?" \notin SampleRows
  BY DEF SampleRows
<1> QED
  BY <1>1, <1>2, <1>3, <1>4, <1>5, <1>6, <1>7, <1>8 DEF SampleStep

\* The processes that may still create these samples, and those that have, are no more than
\* there are.
Heading(r) == {b \in Boots : boot[b].chore \in {"student", "marker", "content", r}}
CountInv ==
  \A r \in {"content", "tests"} : rows[r] + Cardinality(Heading(r)) <= Cardinality(Boots)

LEMMA CountsKept ==
  ASSUME RowsOK, BootsOK, SampleInv, CountInv, SampleStep
  PROVE  CountInv'
<1> SUFFICES ASSUME NEW r \in {"content", "tests"}
             PROVE  rows'[r] + Cardinality(Heading(r)') <= Cardinality(Boots)
  BY Zenon DEF CountInv, Heading
<1>0. /\ rows[r] \in Nat /\ r \in SampleRows /\ IsFiniteSet(Boots)
      /\ rows["marker"] = 0 => rows[r] = 0
  BY SeedingAssumption DEF RowsOK, SeedRows, SampleRows, SampleInv
<1>1. /\ Heading(r) \subseteq Boots /\ Heading(r)' \subseteq Boots
      /\ IsFiniteSet(Heading(r)) /\ IsFiniteSet(Heading(r)')
      /\ Cardinality(Heading(r)) \in Nat /\ Cardinality(Heading(r)') \in Nat
      /\ Cardinality(Boots) \in Nat /\ Cardinality(Heading(r)') <= Cardinality(Boots)
      /\ Heading(r)' \subseteq Heading(r) =>
           Cardinality(Heading(r)') <= Cardinality(Heading(r))
  <2>1. Heading(r) \subseteq Boots /\ Heading(r)' \subseteq Boots
    BY DEF Heading
  <2> PICK s, t : s = Heading(r) /\ t = Heading(r)'
    OBVIOUS
  <2>2. IsFiniteSet(s) /\ IsFiniteSet(t) /\ (t \subseteq s => Cardinality(t) <= Cardinality(s))
        /\ Cardinality(t) <= Cardinality(Boots)
    BY <1>0, <2>1, FS_Subset
  <2>3. Cardinality(s) \in Nat /\ Cardinality(t) \in Nat /\ Cardinality(Boots) \in Nat
    BY <1>0, <2>2, FS_CardinalityType
  <2> QED
    BY <2>1, <2>2, <2>3
<1>2. rows[r] + Cardinality(Heading(r)) <= Cardinality(Boots)
  BY DEF CountInv
<1>3. CASE Heading(r)' \subseteq Heading(r) /\ rows'[r] = rows[r]
  BY <1>0, <1>1, <1>2, <1>3
<1>4. CASE rows["marker"] = 0 /\ rows'[r] = rows[r]
  BY <1>0, <1>1, <1>4
<1>5. ASSUME NEW b \in Boots, b \in Heading(r), Heading(r)' = Heading(r) \ {b},
             rows'[r] = rows[r] \/ rows'[r] = rows[r] + 1
      PROVE  rows'[r] + Cardinality(Heading(r)') <= Cardinality(Boots)
  <2> PICK s : s = Heading(r)
    OBVIOUS
  <2>1. Cardinality(s \ {b}) = Cardinality(s) - 1
    BY <1>1, <1>5, FS_RemoveElement
  <2> QED
    BY <1>0, <1>1, <1>2, <1>5, <2>1
<1>6. ASSUME NEW b \in Boots, NEW c, NEW d, c = boot[b].chore, boot'[b].chore = d,
             \A o \in Boots \ {b} : boot'[o] = boot[o]
      PROVE  /\ d \notin {"student", "marker", "content", r} => Heading(r)' \subseteq Heading(r)
             /\ c \in {"student", "marker", "content", r} => Heading(r)' \subseteq Heading(r)
             /\ d \notin {"student", "marker", "content", r} /\ c = r =>
                  b \in Heading(r) /\ Heading(r)' = Heading(r) \ {b}
  BY <1>6 DEF Heading
<1>7. /\ \A c \in ChoreNames \ ({"marker?", "up"} \cup SampleRows) :
           Following(c) \in {"student", "marker", "content", r} =>
             c \in {"student", "marker", "content", r}
      /\ \A c \in SampleRows : Following(c) \in {"student", "marker", "content", r} =>
             c \in {"student", "marker", "content", r} /\ c # r
      /\ "role" \notin {"student", "marker", "content", r}
      /\ "up" \notin {"student", "marker", "content", r}
  BY ChoresInOrder DEF ChoreNames, SampleRows
<1>8. ASSUME NEW b \in Boots, NEW c \in ChoreNames, NEW d \in ChoreNames,
             c = boot[b].chore, boot'[b].chore = d,
             \A o \in Boots \ {b} : boot'[o] = boot[o],
             c \in SampleRows, d = Following(c),
             \/ rows[c] # 0 /\ SamplesSame
             \/ /\ rows'[c] = rows[c] + 1
                /\ \A q \in SampleRows \ {c} : rows'[q] = rows[q]
      PROVE  rows'[r] + Cardinality(Heading(r)') <= Cardinality(Boots)
  <2>1. CASE c = r
    <3>1. d \notin {"student", "marker", "content", r}
      BY <1>7, <1>8, <2>1
    <3>2. b \in Heading(r) /\ Heading(r)' = Heading(r) \ {b}
      BY <1>6, <1>8, <2>1, <3>1, Zenon
    <3>3. rows'[r] = rows[r] \/ rows'[r] = rows[r] + 1
      BY <1>0, <1>8, <2>1 DEF SamplesSame
    <3> QED
      BY <1>5, <3>2, <3>3
  <2>2. CASE c # r
    <3>1. Heading(r)' \subseteq Heading(r)
      BY <1>6, <1>7, <1>8
    <3>2. rows'[r] = rows[r]
      BY <1>0, <1>8, <2>2 DEF SamplesSame
    <3> QED
      BY <1>3, <3>1, <3>2
  <2> QED
    BY <2>1, <2>2
<1>9. CASE SamplesSame /\ (rows["marker"] = 0 \/ Heading(r)' \subseteq Heading(r))
  BY <1>0, <1>3, <1>4, <1>9 DEF SamplesSame
<1>10. ASSUME NEW b \in Boots, NEW c \in ChoreNames, NEW d \in ChoreNames,
              c = boot[b].chore, boot'[b].chore = d,
              \A o \in Boots \ {b} : boot'[o] = boot[o], SamplesSame,
              \/ d = "role" \/ (d = "up" /\ c = "marker?") \/ (c = "marker" /\ d = "content")
              \/ /\ d = Following(c) /\ c \notin SampleRows \cup {"up"}
                 /\ c = "marker?" => rows["marker"] = 0
       PROVE  rows'[r] + Cardinality(Heading(r)') <= Cardinality(Boots)
  <2>1. rows["marker"] = 0 \/ Heading(r)' \subseteq Heading(r)
    BY <1>6, <1>7, <1>10
  <2> QED
    BY <1>9, <1>10, <2>1
<1>11. CASE (\A b \in Boots : boot'[b].chore = boot[b].chore) /\ SamplesSame
  <2>1. Heading(r)' \subseteq Heading(r)
    BY <1>11 DEF Heading
  <2> QED
    BY <1>9, <1>11, <2>1
<1>12. CASE (\A b \in Boots : boot'[b].chore = "role") /\ SamplesSame
  <2>1. Heading(r)' \subseteq Heading(r)
    BY <1>7, <1>12 DEF Heading
  <2> QED
    BY <1>9, <1>12, <2>1
<1> QED
  BY <1>8, <1>10, <1>11, <1>12 DEF SampleStep

\* What is served derives from what an administrator published.
AncestryInv == (live = {} => mine = 0) /\ CompletedFromMine

AncestryStep ==
  \/ UNCHANGED <<live, base, mine>> /\ (undone => undone')
  \/ \E v \in Editions : live' = {v} /\ mine' = v /\ base' = base
  \/ \E v \in Editions : live = {} /\ live' = {v} /\ base' = base /\ mine' = mine
  \/ undone' /\ live' # {}
  \/ \E v \in Editions : /\ v = numbered + 1 /\ v \in live' /\ live' \subseteq {Served, v}
                         /\ base' = [base EXCEPT ![v] = Served]
                         /\ mine' = mine /\ (undone => undone')

LEMMA AncestryKept ==
  ASSUME VersionsOK, VersionsOK', AncestryInv, AncestryStep
  PROVE  AncestryInv'
<1>0. Served \in {0} \cup Editions /\ Served' \in {0} \cup Editions
      /\ (live = {} => Served = 0)
      /\ (live # {} => Served \in live /\ \A w \in live : w <= Served)
      /\ (live' # {} => Served' \in live' /\ \A w \in live' : w <= Served')
  <2>1. Served' \in {0} \cup Editions
        /\ (live' # {} => Served' \in live' /\ \A w \in live' : w <= Served')
    <3>1. numbered' \in Nat /\ numbered' <= MaxSettings /\ live' \subseteq 1 .. numbered'
      BY SeedingAssumption DEF VersionsOK
    <3>2. LatestIs(live', LatestOf(live'))
      BY <3>1, LatestIsGreatest, Zenon
    <3>3. LatestOf(live') = Served'
      BY DEF Served, LatestOf
    <3> QED
      BY <3>2, <3>3 DEF LatestIs
  <2> QED
    BY <2>1, ServedIs
<1>1. CASE UNCHANGED <<live, base, mine>> /\ (undone => undone')
  BY <1>1 DEF AncestryInv, CompletedFromMine, Served, Derives
<1>2. ASSUME NEW v \in Editions, live' = {v}, mine' = v, base' = base PROVE AncestryInv'
  <2>1. Served' = v
    BY <1>0, <1>2
  <2>2. Derives(v, v)'
    BY DEF Derives
  <2> QED
    BY <1>2, <2>1, <2>2 DEF AncestryInv, CompletedFromMine, Derives
<1>3. ASSUME NEW v \in Editions, live = {}, live' = {v}, base' = base, mine' = mine
      PROVE  AncestryInv'
  <2>1. Served' = v /\ mine' = 0
    BY <1>0, <1>3 DEF AncestryInv
  <2> QED
    BY <1>3, <2>1 DEF AncestryInv, CompletedFromMine
<1>4. CASE undone' /\ live' # {}
  BY <1>4 DEF AncestryInv, CompletedFromMine
<1>5. ASSUME NEW v \in Editions, v = numbered + 1, v \in live', live' \subseteq {Served, v},
             base' = [base EXCEPT ![v] = Served], mine' = mine, undone => undone'
      PROVE  AncestryInv'
  <2> PICK s : s = Served
    OBVIOUS
  <2>1. /\ s \in {0} \cup Editions /\ s <= numbered /\ s # v /\ numbered \in Nat
        /\ base \in [{0} \cup Editions -> {0} \cup Editions]
        /\ v \in live' /\ live' \subseteq {s, v} /\ base' = [base EXCEPT ![v] = s]
        /\ base[v] = 0
    <3>1. s = 0 \/ s \in 1 .. numbered
      BY <1>0 DEF VersionsOK
    <3>2. numbered \in Nat /\ v > numbered
      BY <1>5, SeedingAssumption DEF VersionsOK
    <3> QED
      BY <1>0, <1>5, <3>1, <3>2 DEF VersionsOK
  <2>2. Served' = v
    <3>1. v \in Nat /\ v > s
      BY <1>5, <2>1
    <3>2. Served' \in {s, v} /\ v <= Served'
      BY <1>0, <2>1
    <3> QED
      BY <2>1, <3>1, <3>2
  <2>3. base'[v] = s /\ \A x \in Editions \ {v} : base'[x] = base[x]
    BY <2>1
  <2>4. live' # {} /\ live' \subseteq {Served', base'[Served']}
    BY <2>1, <2>2, <2>3
  <2>5. ~undone /\ mine # 0 => Derives(v, mine)'
    <3>1. SUFFICES ASSUME Derives(s, mine), live # {}, NEW C \in SUBSET Editions, v \in C,
                          \A x \in C : base'[x] \in C \cup {0}
                   PROVE  mine \in C
      BY <1>5, <1>0 DEF AncestryInv, CompletedFromMine, Derives
    <3>2. s \in C
      <4>1. s # 0
        BY <1>0, <3>1 DEF VersionsOK
      <4> QED
        BY <2>3, <3>1, <4>1
    <3>3. \A x \in C : base[x] \in C \cup {0}
      BY <2>1, <2>3, <3>1
    <3> QED
      BY <3>1, <3>2, <3>3 DEF Derives
  <2> QED
    BY <1>5, <2>2, <2>4, <2>5 DEF AncestryInv, CompletedFromMine, Derives
<1> QED
  BY <1>1, <1>2, <1>3, <1>4, <1>5 DEF AncestryStep

\* A transaction has found all there is to archive: a publication, unless a version was added
\* since; a process', while the version it read is the one served.
LooksInv ==
  /\ publishing.pc # "none" /\ ~publishing.late =>
       live \subseteq publishing.others \cup {publishing.it}
  /\ \A b \in Boots :
       /\ boot[b].found <= numbered
       /\ boot[b].pc \in InTransaction /\ Served = boot[b].found /\ ~undone =>
            live \subseteq boot[b].others \cup {boot[b].found}

BootLooks ==
  \A b \in Boots :
    \/ boot'[b].pc \notin InTransaction /\ boot'[b].found <= numbered'
    \/ /\ boot'[b].pc = boot[b].pc /\ boot'[b].found = boot[b].found
       /\ boot'[b].others = boot[b].others
    \/ /\ live' = live /\ boot'[b].found = boot[b].found
       /\ boot'[b].others = live \ {boot[b].found}
    \/ /\ live' = live /\ boot'[b].found = boot[b].found /\ boot[b].pc \in InTransaction
       /\ boot'[b].others = boot[b].others \cap live
VersionLooks ==
  /\ numbered' \in {numbered, numbered + 1}
  /\ \/ live' = live /\ publishing' = publishing /\ (undone => undone')
     \/ publishing'.pc = "none" /\ (undone' \/ live' \subseteq {Served'})
     \/ /\ numbered' = numbered + 1 /\ Served' = numbered'
        /\ publishing'.pc = "none" \/ publishing'.late
LooksStep == BootLooks /\ VersionLooks

LEMMA LooksKept ==
  ASSUME BootsOK, VersionsOK, VersionsOK', LooksInv, LooksStep
  PROVE  LooksInv'
<1>0. /\ numbered \in Nat /\ numbered' \in Nat /\ numbered <= numbered'
      /\ \A b \in Boots : boot[b].found \in Nat /\ boot[b].found <= numbered
  BY SeedingAssumption DEF VersionsOK, LooksStep, VersionLooks, BootsOK, BootRows, Editions, LooksInv
<1>1. \A b \in Boots : boot'[b].found <= numbered'
  BY <1>0 DEF LooksStep, BootLooks
<1>2. publishing'.pc # "none" /\ ~publishing'.late =>
        live' \subseteq publishing'.others \cup {publishing'.it}
  BY DEF LooksStep, VersionLooks, LooksInv
<1>3. ASSUME NEW b \in Boots, boot'[b].pc \in InTransaction, Served' = boot'[b].found, ~undone'
      PROVE  live' \subseteq boot'[b].others \cup {boot'[b].found}
  <2>1. boot'[b].found = boot[b].found
    BY <1>3 DEF LooksStep, BootLooks
  <2>2. CASE live' = live /\ ~undone
    <3>1. Served' = Served
      BY <2>2 DEF Served
    <3>2. CASE boot[b].pc \in InTransaction
      <4>1. live \subseteq boot[b].others \cup {boot[b].found}
        BY <1>3, <2>1, <2>2, <3>1, <3>2 DEF LooksInv
      <4> QED
        BY <1>3, <2>1, <2>2, <4>1 DEF LooksStep, BootLooks
    <3>3. CASE boot[b].pc \notin InTransaction
      <4>1. boot'[b].others = live \ {boot[b].found}
        BY <1>3, <3>3 DEF LooksStep, BootLooks
      <4> QED
        BY <2>1, <2>2, <4>1
    <3> QED
      BY <3>2, <3>3
  <2>3. CASE live' \subseteq {Served'}
    BY <1>3, <2>3
  <2>4. CASE numbered' = numbered + 1 /\ Served' = numbered'
    BY <1>0, <1>3, <2>1, <2>4
  <2> QED
    BY <1>3, <2>2, <2>3, <2>4 DEF LooksStep, VersionLooks
<1> QED
  BY <1>1, <1>2, <1>3 DEF LooksInv

\* A process moves that is in no transaction afterwards, and the settings stay.
LEMMA LooksOn ==
  ASSUME NEW b \in Boots, \A o \in Boots \ {b} : boot'[o] = boot[o],
         boot'[b].pc \notin InTransaction, boot'[b].found <= numbered,
         UNCHANGED <<numbered, live, publishing>>, undone => undone'
  PROVE  LooksStep
  BY DEF LooksStep, BootLooks, VersionLooks

\* What every step does.
SeedMove == SeedShape' /\ SampleStep /\ PassStep /\ AncestryStep /\ LooksStep

RowNames == {"role", "link", "bossRole", "template", "offer", "content", "tests", "orders",
             "pages", "student", "marker"}
LEMMA RowsNamed == SeedRows = RowNames /\ RowNames \subseteq ChoreNames
  BY DEF SeedRows, RowNames, RoleRows, TemplateRows, OfferRows, SampleRows, ChoreNames

\* With the rows and the settings as they were, nothing that was there is gone.
LEMMA NothingGone ==
  ASSUME UNCHANGED <<rows, boss, numbered, live, full, base, publishing>>
  PROVE  LastsBut("nothing") /\ MarkSame /\ SamplesSame
  BY DEF LastsBut, MarkSame, SamplesSame, Complete, Served

LEMMA ShapeOn ==
  ASSUME SeedShape, UNCHANGED <<rows, boss, numbered, live, full, base, publishing>>, BootsOK'
  PROVE  SeedShape'
  BY DEF SeedShape, VersionsOK, RowsOK

LEMMA QuietTo ==
  ASSUME SeedShape, NEW b \in Boots, NEW pc \in Pcs \ ({"down"} \cup InTransaction),
         NEW found \in {0} \cup Editions, found <= numbered,
         To(b, pc, found), Placed([boot[b] EXCEPT !.pc = pc, !.found = found]),
         UNCHANGED <<rows, boss, settingsVars, torn, together>>,
         pc \in {"published?", "latest?", "first"} =>
           live = {} \/ Complete(Served) \/ "settings" \in boot[b].changed
  PROVE  SeedMove
<1> PICK c, ch : c = boot[b].chore /\ ch = boot[b].changed
  OBVIOUS
<1>1. /\ BootsOK' /\ Moves(b, boot[b].chore) /\ boot'[b].pc = pc /\ boot'[b].changed = ch
      /\ boot'[b].found = found
  BY ToStays, Zenon DEF SeedShape
<1>2. UNCHANGED <<rows, boss, numbered, live, full, base, publishing, mine, undone>>
  BY DEF settingsVars
<1>3. SeedShape' /\ LastsBut("nothing") /\ MarkSame /\ SamplesSame
  BY <1>1, <1>2, ShapeOn, NothingGone
<1>4. SampleStep
  BY <1>1, <1>3 DEF SampleStep, Moves
<1>5. c \in ChoreNames /\ ch \in SUBSET Whats
  BY DEF SeedShape, BootsOK, BootRows
<1>6. Awaits(boot[b].pc, ch)'
  BY <1>1, <1>2 DEF Awaits, Complete, Served
<1>7. PassStep
  BY <1>1, <1>3, <1>5, <1>6 DEF PassStep, Moves
<1>8. AncestryStep
  BY <1>2 DEF AncestryStep
<1>9. LooksStep
  BY <1>1, <1>2, LooksOn DEF Moves
<1> QED
  BY <1>3, <1>4, <1>7, <1>8, <1>9 DEF SeedMove

LEMMA QuietNext ==
  ASSUME SeedShape, NEW b \in Boots, NEW c \in ChoreNames \ {"up", "marker"},
         c = boot[b].chore, NextChore(b),
         UNCHANGED <<rows, boss, settingsVars, torn, together>>,
         Gained(c, boot[b].changed), c = "marker?" => rows["marker"] = 0,
         c \in SampleRows => rows[c] # 0
  PROVE  SeedMove
<1> PICK ch, d : ch = boot[b].changed /\ d = Following(c)
  OBVIOUS
<1>0. SeedShape /\ numbered \in Nat
  BY SeedingAssumption DEF SeedShape, VersionsOK
<1>1. /\ BootsOK' /\ Moves(b, d) /\ boot'[b].pc = "at" /\ boot'[b].changed = ch
      /\ boot'[b].found = 0
  BY NextMoves DEF SeedShape
<1>2. UNCHANGED <<rows, boss, numbered, live, full, base, publishing, mine, undone>>
  BY DEF settingsVars
<1>3. SeedShape' /\ LastsBut("nothing") /\ MarkSame /\ SamplesSame
  BY <1>1, <1>2, ShapeOn, NothingGone
<1>4. ch \in SUBSET Whats /\ d \in ChoreNames
  BY ChoresInOrder DEF SeedShape, BootsOK, BootRows, ChoreNames
<1>5. SampleStep
  BY <1>1, <1>3, <1>4 DEF SampleStep, Moves
<1>6. Gained(c, ch)'
  <2>1. Gained(c, ch)
    OBVIOUS
  <2> QED
    BY <1>2, <2>1 DEF Gained, Complete, Served
<1>7. PassStep
  BY <1>1, <1>3, <1>4, <1>6 DEF PassStep, Moves
<1>8. AncestryStep
  BY <1>2 DEF AncestryStep
<1>9. LooksStep
  <2>1. boot'[b].pc \notin InTransaction /\ boot'[b].found <= numbered
    BY <1>0, <1>1 DEF InTransaction
  <2> QED
    BY <1>1, <1>2, <2>1, LooksOn DEF Moves
<1> QED
  BY <1>3, <1>5, <1>7, <1>8, <1>9 DEF SeedMove

LEMMA QuietLeave ==
  ASSUME SeedShape, NEW b \in Boots, Leave(b),
         UNCHANGED <<rows, boss, numbered, live, full, base, publishing, mine, together>>,
                     undone => undone'
  PROVE  SeedMove
<1> PICK c, ch : c = boot[b].chore /\ ch = boot[b].changed
  OBVIOUS
<1>1. BootsOK' /\ Moves(b, "role") /\ boot'[b] = Down /\ torn' = (torn \/ InSamples(b))
  BY LeaveMoves DEF SeedShape
<1>2. SeedShape' /\ LastsBut("nothing") /\ MarkSame /\ SamplesSame
  BY <1>1, ShapeOn, NothingGone
<1>3. c \in ChoreNames /\ ch \in SUBSET Whats /\ "role" \in ChoreNames
  BY DEF SeedShape, BootsOK, BootRows, ChoreNames
<1>4. SampleStep
  BY <1>1, <1>2, <1>3 DEF SampleStep, Moves
<1>5. PassStep
  BY <1>1, <1>2, <1>3 DEF PassStep, Moves
<1>6. AncestryStep
  BY DEF AncestryStep
<1>7. LooksStep
  <2>1. boot'[b].pc \notin InTransaction /\ boot'[b].found <= numbered
    BY <1>1, DownIsRow, SeedingAssumption DEF InTransaction, SeedShape, VersionsOK
  <2> QED
    BY <1>1, <2>1, LooksOn DEF Moves
<1> QED
  BY <1>2, <1>4, <1>5, <1>6, <1>7 DEF SeedMove

\* A row is written and the next chore begun.
LEMMA RowNext ==
  ASSUME SeedShape, NEW b \in Boots, NEW c \in SeedRows \ {"marker"},
         c = boot[b].chore, NextChore(b), NEW n \in Nat, rows' = [rows EXCEPT ![c] = n],
         c \in {"content", "tests"} \/ n = 1,
         c \in SampleRows => n = rows[c] + 1 /\ (c \in {"orders", "pages"} => rows[c] = 0),
         UNCHANGED <<boss, settingsVars, torn, together>>
  PROVE  SeedMove
<1> PICK ch, d : ch = boot[b].changed /\ d = Following(c)
  OBVIOUS
<1>0. c \in RowNames /\ c \in ChoreNames \ {"up", "marker"} /\ rows \in [SeedRows -> Nat]
      /\ "marker" \in SeedRows /\ SampleRows \subseteq SeedRows
  BY RowsNamed DEF RowNames, ChoreNames, SeedShape, RowsOK, SampleRows
<1>1. /\ BootsOK' /\ Moves(b, d) /\ boot'[b].pc = "at" /\ boot'[b].changed = ch
      /\ boot'[b].found = 0
  BY <1>0, NextMoves DEF SeedShape
<1>2. UNCHANGED <<boss, numbered, live, full, base, publishing, mine, undone>>
  BY DEF settingsVars
<1>3. /\ rows' \in [SeedRows -> Nat] /\ rows'[c] = n
      /\ \A r \in SeedRows \ {c} : rows'[r] = rows[r]
  BY <1>0
<1>4. SeedShape'
  <2>1. \A r \in SeedRows \ {"content", "tests"} : rows'[r] <= 1
    <3>1. \A r \in SeedRows \ {"content", "tests"} : rows[r] <= 1
      BY DEF SeedShape, RowsOK
    <3> QED
      BY <1>3, <3>1
  <2> QED
    BY <1>1, <1>2, <1>3, <2>1 DEF SeedShape, VersionsOK, RowsOK
<1>5. ch \in SUBSET Whats /\ d \in ChoreNames
  BY <1>0, ChoresInOrder DEF SeedShape, BootsOK, BootRows, ChoreNames
<1>6. MarkSame /\ \A r \in SampleRows \ {c} : rows'[r] = rows[r]
  BY <1>0, <1>3 DEF MarkSame
<1>7. SampleStep
  <2>1. CASE c \in SampleRows
    <3>1. rows'[c] = rows[c] + 1
      BY <1>3, <2>1
    <3> QED
      BY <1>0, <1>1, <1>5, <1>6, <2>1, <3>1 DEF SampleStep, Moves
  <2>2. CASE c \notin SampleRows
    <3>1. SamplesSame /\ c # "marker?"
      BY <1>0, <1>6, <2>2 DEF SamplesSame, RowNames
    <3> QED
      BY <1>0, <1>1, <1>5, <1>6, <2>2, <3>1 DEF SampleStep, Moves
  <2> QED
    BY <2>1, <2>2
<1>8. Durable \subseteq SeedRows /\ "content" \notin Durable /\ "tests" \notin Durable
      /\ "boss" \notin SeedRows /\ "settings" \notin SeedRows
  BY RowsNamed DEF Durable, RowNames, RoleRows, TemplateRows, OfferRows
<1>9. LastsBut("nothing")
  <2>1. \A r \in Durable : rows[r] = 1 => rows'[r] = 1
    BY <1>3, <1>8
  <2> QED
    BY <1>2, <2>1 DEF LastsBut, Complete, Served
<1>10. Gained(c, ch)'
  BY <1>3, <1>8 DEF Gained
<1>11. PassStep
  BY <1>0, <1>1, <1>5, <1>9, <1>10 DEF PassStep, Moves
<1>12. AncestryStep
  BY <1>2 DEF AncestryStep
<1>13. LooksStep
  <2>1. boot'[b].pc \notin InTransaction /\ boot'[b].found <= numbered
    BY <1>1, SeedingAssumption DEF InTransaction, SeedShape, VersionsOK
  <2>2. UNCHANGED <<numbered, live, publishing, undone>>
    BY DEF settingsVars
  <2> QED
    BY <1>1, <2>1, <2>2, LooksOn DEF Moves
<1> QED
  BY <1>4, <1>7, <1>11, <1>12, <1>13 DEF SeedMove

LEMMA AdminActs ==
  ASSUME SeedShape, NEW what \in Whats, Noticed(what), LastsBut(what), RowsOK', VersionsOK',
         MarkSame, SamplesSame, torn' = torn, together' = together, AncestryStep, VersionLooks
  PROVE  SeedMove
<1>1. /\ BootsOK'
      /\ \A b \in Boots : /\ boot'[b].pc = boot[b].pc /\ boot'[b].chore = boot[b].chore
                          /\ boot'[b] = Down \/ boot'[b].changed = boot[b].changed \cup {what}
                          /\ boot'[b].found = boot[b].found
                          /\ boot'[b].others = boot[b].others
  BY ActNotes DEF SeedShape
<1>2. LooksStep
  BY <1>1 DEF LooksStep, BootLooks
<1> QED
  BY <1>1, <1>2 DEF SeedMove, SeedShape, SampleStep, PassStep

\* The next version, complete and the latest: every setting the code knows is there.
LEMMA VersionMoves ==
  ASSUME SeedShape, NEW b \in Boots, boot[b].chore = "settings",
         UNCHANGED <<rows, boss, torn, together>>, NextChore(b),
         NEW v \in Editions, v = numbered + 1, numbered' = v,
         NEW left \in SUBSET live, live' = left \cup {v}, full' = full \cup {v},
         base' = base \/ \E w \in {0} \cup Editions : w < v /\ base' = [base EXCEPT ![v] = w],
         publishing' = IF publishing.pc = "none" THEN publishing
                       ELSE [publishing EXCEPT !.late = TRUE],
         AncestryStep
  PROVE  SeedMove
<1> PICK ch : ch = boot[b].changed
  OBVIOUS
<1>0. VersionsOK /\ numbered \in Nat /\ v \in 1 .. MaxSettings /\ ch \in SUBSET Whats
      /\ "marker?" \in ChoreNames /\ "settings" \in ChoreNames
  BY SeedingAssumption DEF SeedShape, VersionsOK, Editions, BootsOK, BootRows, ChoreNames
<1>1. /\ BootsOK' /\ Moves(b, "marker?") /\ boot'[b].pc = "at" /\ boot'[b].changed = ch
      /\ boot'[b].found = 0
  BY NextMoves, ChoresInOrder DEF SeedShape
<1>2. VersionsOK'
  <2>1. base' \in [{0} \cup Editions -> {0} \cup Editions] /\ base'[0] = 0
    BY <1>0 DEF VersionsOK, Editions
  <2>2. \A u \in Editions : base'[u] < u /\ (u > v => base'[u] = 0)
    BY <1>0 DEF VersionsOK, Editions
  <2>3. live' \subseteq 1 .. v /\ full' \subseteq 1 .. v
    <3>1. v \in 1 .. v /\ \A w \in 1 .. numbered : w \in 1 .. v
      BY <1>0
    <3>2. live \subseteq 1 .. numbered /\ full \subseteq 1 .. numbered
      BY <1>0 DEF VersionsOK
    <3> QED
      BY <3>1, <3>2, Zenon
  <2>4. /\ publishing' \in PublicationRows /\ publishing'.it = publishing.it
        /\ publishing'.pc = publishing.pc /\ (publishing'.pc = "none" \/ publishing'.late)
    BY <1>0 DEF VersionsOK, PublicationRows
  <2>5. publishing'.pc # "none" => publishing'.it \in 1 .. v
    BY <1>0, <2>4 DEF VersionsOK
  <2> QED
    BY <1>0, <2>1, <2>2, <2>3, <2>4, <2>5 DEF VersionsOK
<1>3. Complete(Served)' /\ Served' = v
  <2>1. v \in live' /\ live' \subseteq 1 .. v /\ v \in Nat
    BY <1>0, <1>2 DEF VersionsOK
  <2>2. \A u \in live' : (\A w \in live' : w <= u) <=> u = v
    <3>1. v \in live' /\ \A u \in live' : u \in Nat /\ u <= v
      BY <2>1
    <3> QED
      BY <2>1, <3>1
  <2>3. Served' = v
    BY <2>1, <2>2 DEF Served
  <2> QED
    BY <2>3 DEF Complete
<1>9. LooksStep
  <2>1. boot'[b].pc \notin InTransaction /\ boot'[b].found <= numbered'
    BY <1>0, <1>1 DEF InTransaction
  <2>2. BootLooks
    BY <1>1, <2>1 DEF BootLooks, Moves
  <2>3. publishing'.pc = "none" \/ publishing'.late
    BY <1>0 DEF VersionsOK, PublicationRows
  <2> QED
    BY <1>0, <1>3, <2>2, <2>3 DEF LooksStep, VersionLooks
<1>4. LastsBut("nothing") /\ MarkSame /\ SamplesSame
  BY <1>3 DEF LastsBut, MarkSame, SamplesSame
<1>5. SampleStep
  <2>1. "settings" \notin SampleRows \cup {"marker"}
    BY DEF SampleRows
  <2> QED
    BY <1>0, <1>1, <1>4, <2>1, ChoresInOrder DEF SampleStep, Moves
<1>6. Gained("settings", ch)'
  BY <1>3 DEF Gained, Durable, RoleRows, TemplateRows, OfferRows
<1>7. PassStep
  BY <1>0, <1>1, <1>4, <1>6, ChoresInOrder DEF PassStep, Moves
<1>8. SeedShape'
  BY <1>1, <1>2 DEF SeedShape, RowsOK
<1> QED
  BY <1>5, <1>7, <1>8, <1>9 DEF SeedMove

LEMMA SettingsCreated ==
  ASSUME SeedShape, NEW b \in Boots, CreateSettings(b)
  PROVE  SeedMove
<1>1. boot[b].chore = "settings"
  BY DEF CreateSettings, SeedShape, BootsOK, Placed
<1>2. CASE numbered = boot[b].found
  <2> PICK v : v = boot[b].found + 1
    OBVIOUS
  <2>1. /\ v \in Editions /\ numbered' = v /\ live' = live \cup {v} /\ full' = full \cup {v}
        /\ NextChore(b) /\ UNCHANGED <<rows, boss, base, mine, torn, together>>
        /\ undone' = (undone \/ (numbered' # numbered /\ live # {}))
        /\ publishing' = IF publishing.pc = "none" THEN publishing
                         ELSE [publishing EXCEPT !.late = TRUE]
    BY <1>2 DEF CreateSettings, AddVersion
  <2>2. v = numbered + 1 /\ numbered' # numbered
    BY <1>2, <2>1, SeedingAssumption DEF SeedShape, VersionsOK
  <2>3. AncestryStep
    <3>1. CASE live = {}
      BY <2>1, <3>1 DEF AncestryStep
    <3>2. CASE live # {}
      BY <2>1, <2>2, <3>2, Zenon DEF AncestryStep
    <3> QED
      BY <3>1, <3>2
  <2> QED
    BY <1>1, <2>1, <2>2, <2>3, VersionMoves
<1>3. CASE numbered # boot[b].found
  <2>1. Leave(b) /\ UNCHANGED <<rows, boss, numbered, live, full, base, publishing, mine, together>>
        /\ (undone => undone')
    BY <1>3, Zenon DEF CreateSettings, AddVersion
  <2> QED
    BY <2>1, QuietLeave
<1> QED
  BY <1>2, <1>3

LEMMA SettingsCompleted ==
  ASSUME SeedShape, LooksInv, NEW b \in Boots, CompleteSettings(b)
  PROVE  SeedMove
<1>1. boot[b].chore = "settings"
  BY DEF CompleteSettings, SeedShape, BootsOK, Placed
<1> PICK f : f = boot[b].found
  OBVIOUS
<1>2. CASE numbered = f
  <2> PICK v : v = f + 1
    OBVIOUS
  <2> PICK left : left = live \ boot[b].others
    OBVIOUS
  <2>1. /\ v \in Editions /\ numbered' = v /\ live' = left \cup {v}
        /\ full' = full \cup {v}
        /\ publishing' = IF publishing.pc = "none" THEN publishing
                         ELSE [publishing EXCEPT !.late = TRUE]
        /\ NextChore(b) /\ UNCHANGED <<rows, boss, mine, torn, together>>
        /\ base' = IF numbered' # numbered THEN [base EXCEPT ![numbered'] = f] ELSE base
        /\ undone' = (undone \/ (numbered' # numbered /\ Served # f))
    BY <1>2 DEF CompleteSettings, AddVersion, StillLive
  <2>2. v = numbered + 1 /\ numbered' # numbered /\ f \in {0} \cup Editions /\ f < v
    BY <1>2, <2>1, SeedingAssumption DEF SeedShape, VersionsOK, Editions
  <2>3. base' = [base EXCEPT ![v] = f]
    BY <2>1, <2>2
  <2>4. AncestryStep
    <3>1. CASE Served = f /\ ~undone
      <4>1. left \subseteq {f}
        BY <3>1 DEF LooksInv, InTransaction, CompleteSettings
      <4>2. v \in live' /\ live' \subseteq {Served, v} /\ base' = [base EXCEPT ![v] = Served]
            /\ mine' = mine /\ (undone => undone')
        BY <2>1, <2>3, <3>1, <4>1
      <4> QED
        BY <2>1, <2>2, <4>2, Zenon DEF AncestryStep
    <3>2. CASE ~(Served = f /\ ~undone)
      <4>1. undone' /\ live' # {}
        BY <2>1, <2>2, <3>2
      <4> QED
        BY <4>1 DEF AncestryStep
    <3> QED
      BY <3>1, <3>2
  <2>5. left \in SUBSET live
    OBVIOUS
  <2>6. base' = base \/ \E w \in {0} \cup Editions : w < v /\ base' = [base EXCEPT ![v] = w]
    BY <2>2, <2>3, Zenon
  <2> QED
    BY <1>1, <2>1, <2>2, <2>4, <2>5, <2>6, VersionMoves, Zenon
<1>3. CASE numbered # f
  <2>1. Leave(b) /\ UNCHANGED <<rows, boss, numbered, live, full, publishing, mine, together>>
        /\ (undone => undone') /\ base' = base
    BY <1>3, Zenon DEF CompleteSettings, AddVersion
  <2> QED
    BY <2>1, QuietLeave
<1> QED
  BY <1>2, <1>3

\* A process finds what it is to archive, and takes it.
LEMMA OthersMove ==
  ASSUME SeedShape, NEW b \in Boots, FindOthers(b) \/ TakeOthers(b)
  PROVE  SeedMove
<1> PICK ch, found : ch = boot[b].changed /\ found = boot[b].found
  OBVIOUS
<1>0. /\ boot[b] \in BootRows /\ live \subseteq Editions /\ boot \in [Boots -> BootRows]
      /\ \A o \in Boots : Placed(boot[o])
  BY SeedingAssumption DEF SeedShape, BootsOK, VersionsOK, Editions
<1>1. PICK pc \in InTransaction, others \in SUBSET Editions :
        /\ boot' = [boot EXCEPT ![b].pc = pc, ![b].others = others]
        /\ \/ others = live \ {found}
           \/ boot[b].pc \in InTransaction /\ others = boot[b].others \cap live
  <2>1. CASE FindOthers(b)
    <3>1. /\ boot' = [boot EXCEPT ![b].pc = "archiving", ![b].others = live \ {found}]
          /\ "archiving" \in InTransaction /\ live \ {found} \in SUBSET Editions
      BY <1>0, <2>1 DEF FindOthers, InTransaction
    <3> QED
      BY <3>1, Zenon
  <2>2. CASE TakeOthers(b)
    <3>1. /\ boot' = [boot EXCEPT ![b].pc = "adding", ![b].others = boot[b].others \cap live]
          /\ "adding" \in InTransaction /\ boot[b].others \cap live \in SUBSET Editions
          /\ boot[b].pc \in InTransaction
      BY <1>0, <2>2 DEF TakeOthers, InTransaction
    <3> QED
      BY <3>1, Zenon
  <2> QED
    BY <2>1, <2>2
<1>2. /\ boot[b].chore = "settings"
      /\ UNCHANGED <<rows, boss, numbered, live, full, base, publishing, mine, undone, torn,
                     together>>
  BY <1>0 DEF FindOthers, TakeOthers, Placed, settingsVars, tally
<1>3. /\ boot' \in [Boots -> BootRows] /\ boot'[b].pc = pc /\ boot'[b].chore = "settings"
      /\ boot'[b].found = found /\ boot'[b].others = others /\ boot'[b].changed = ch
      /\ \A o \in Boots \ {b} : boot'[o] = boot[o]
  <2> PICK row : row = [boot[b] EXCEPT !.pc = pc, !.others = others]
    OBVIOUS
  <2>1. /\ row \in BootRows /\ row.pc = pc /\ row.chore = "settings" /\ row.found = found
        /\ row.others = others /\ row.changed = ch
    BY <1>0, <1>2 DEF BootRows, InTransaction, Pcs
  <2>2. boot' = [boot EXCEPT ![b] = row]
    BY <1>0, <1>1, Zenon
  <2> QED
    BY <1>0, <2>1, <2>2
<1>4. BootsOK'
  <2>1. Placed(boot'[b])
    BY <1>3 DEF Placed, InTransaction
  <2>2. \A o \in Boots : Placed(boot'[o])
    BY <1>0, <1>3, <2>1
  <2> QED
    BY <1>3, <2>2 DEF BootsOK
<1>5. SeedShape' /\ LastsBut("nothing") /\ MarkSame /\ SamplesSame
  BY <1>2, <1>4, ShapeOn, NothingGone
<1>6. SampleStep
  <2>1. \A o \in Boots : boot'[o].chore = boot[o].chore
    BY <1>2, <1>3
  <2> QED
    BY <1>2, <1>5, <2>1 DEF SampleStep
<1>7. PassStep
  <2>1. Awaits(boot[b].pc, ch)'
    BY <1>3 DEF Awaits, InTransaction
  <2>2. ch \in SUBSET Whats /\ "settings" \in ChoreNames
    BY <1>0 DEF BootRows, ChoreNames
  <2> QED
    BY <1>2, <1>3, <1>5, <2>1, <2>2 DEF PassStep
<1>8. AncestryStep
  BY <1>2 DEF AncestryStep
<1>9. LooksStep
  <2>1. BootLooks
    BY <1>1, <1>2, <1>3 DEF BootLooks
  <2> QED
    BY <1>2, <2>1 DEF LooksStep, VersionLooks
<1> QED
  BY <1>5, <1>6, <1>7, <1>8, <1>9 DEF SeedMove

\* The administrator of the environment is made one.
LEMMA BossMade ==
  ASSUME SeedShape, NEW b \in Boots, boot[b].chore = "boss", NextChore(b),
         boss' = [type |-> "ADMIN", blocked |-> FALSE],
         UNCHANGED <<rows, settingsVars, torn, together>>
  PROVE  SeedMove
<1> PICK ch : ch = boot[b].changed
  OBVIOUS
<1>1. /\ BootsOK' /\ Moves(b, "bossRole") /\ boot'[b].pc = "at" /\ boot'[b].changed = ch
      /\ boot'[b].found = 0
  BY NextMoves, ChoresInOrder DEF SeedShape
<1>2. ch \in SUBSET Whats /\ "boss" \in ChoreNames /\ "bossRole" \in ChoreNames
      /\ "boss" \notin SampleRows \cup {"marker"} /\ "boss" \notin Durable
  BY DEF SeedShape, BootsOK, BootRows, ChoreNames, SampleRows, Durable, RoleRows, TemplateRows,
         OfferRows
<1>3. UNCHANGED <<rows, numbered, live, full, base, publishing, mine, undone>>
  BY DEF settingsVars
<1>4. SeedShape'
  BY <1>1, <1>3 DEF SeedShape, VersionsOK, RowsOK
<1>5. LastsBut("nothing") /\ MarkSame /\ SamplesSame
  BY <1>3 DEF LastsBut, MarkSame, SamplesSame, Complete, Served
<1>6. SampleStep
  BY <1>1, <1>2, <1>5, ChoresInOrder DEF SampleStep, Moves
<1>7. Gained("boss", ch)'
  BY <1>2 DEF Gained
<1>8. PassStep
  BY <1>1, <1>2, <1>5, <1>7, ChoresInOrder DEF PassStep, Moves
<1>9. AncestryStep
  BY <1>3 DEF AncestryStep
<1>10. LooksStep
  <2>1. boot'[b].pc \notin InTransaction /\ boot'[b].found <= numbered
    BY <1>1, SeedingAssumption DEF InTransaction, SeedShape, VersionsOK
  <2> QED
    BY <1>1, <1>3, <2>1, LooksOn DEF Moves
<1> QED
  BY <1>4, <1>6, <1>8, <1>9, <1>10 DEF SeedMove

\* A process that finds the marker leaves the samples alone.
LEMMA MarkerLooked ==
  ASSUME SeedShape, NEW b \in Boots, LookForMarker(b)
  PROVE  SeedMove
<1>0. boot[b].chore = "marker?" /\ "marker?" \in ChoreNames \ {"up", "marker"}
      /\ UNCHANGED <<rows, boss, settingsVars, torn, together>>
  BY DEF LookForMarker, AtChore, ChoreNames, tally
<1>1. CASE rows["marker"] = 0
  <2>1. NextChore(b)
    BY <1>1 DEF LookForMarker
  <2>2. Gained("marker?", boot[b].changed) /\ "marker?" \notin SampleRows
    BY DEF Gained, Durable, RoleRows, TemplateRows, OfferRows, SampleRows
  <2> QED
    BY <1>0, <1>1, <2>1, <2>2, QuietNext
<1>2. CASE rows["marker"] # 0
  <2> PICK ch : ch = boot[b].changed
    OBVIOUS
  <2> PICK row : row = [boot[b] EXCEPT !.chore = "up", !.found = 0]
    OBVIOUS
  <2>1. boot[b] \in BootRows /\ boot[b].pc = "at"
    BY DEF SeedShape, BootsOK, LookForMarker, AtChore
  <2>2. row \in BootRows /\ row.chore = "up" /\ row.pc = "at" /\ row.changed = ch
        /\ row.found = 0
    BY <2>1, Zenon DEF BootRows, ChoreNames
  <2>3. boot' = [boot EXCEPT ![b] = row]
    BY <1>2, <2>1, Zenon DEF LookForMarker, SeedShape, BootsOK
  <2>4. /\ boot' \in [Boots -> BootRows] /\ boot'[b] = row
        /\ \A o \in Boots \ {b} : boot'[o] = boot[o]
    BY <2>2, <2>3 DEF SeedShape, BootsOK
  <2>5. Placed(row)
    BY <2>2 DEF Placed
  <2>6. BootsOK'
    BY <2>4, <2>5 DEF SeedShape, BootsOK
  <2>7. UNCHANGED <<rows, boss, numbered, live, full, base, publishing, mine, undone, torn,
                    together>>
    BY <1>0 DEF settingsVars
  <2>8. SeedShape' /\ LastsBut("nothing") /\ MarkSame /\ SamplesSame
    BY <2>6, <2>7, ShapeOn, NothingGone
  <2>9. "up" \in ChoreNames /\ "marker?" \notin SampleRows \cup {"marker"}
        /\ ch \in SUBSET Whats
    BY <2>1 DEF ChoreNames, SampleRows, BootRows
  <2>10. SampleStep
    <3> PICK c \in ChoreNames, d \in ChoreNames : c = "marker?" /\ d = "up"
      BY <1>0, <2>9
    <3>1. /\ c = boot[b].chore /\ boot'[b].chore = d
          /\ \A o \in Boots \ {b} : boot'[o] = boot[o]
          /\ c \notin SampleRows \cup {"marker"} /\ MarkSame /\ SamplesSame
          /\ torn' = torn /\ together' = together /\ d = "up" /\ c = "marker?"
      BY <1>0, <2>2, <2>4, <2>7, <2>8, <2>9
    <3> QED
      BY <3>1, ZenonT(40) DEF SampleStep
  <2>11. PassStep
    BY <1>0, <2>2, <2>4, <2>8, <2>9, Zenon DEF PassStep
  <2>12. AncestryStep
    BY <2>7 DEF AncestryStep
  <2>13. LooksStep
    <3>1. boot'[b].pc \notin InTransaction /\ boot'[b].found <= numbered
      BY <2>2, <2>4, SeedingAssumption DEF InTransaction, SeedShape, VersionsOK
    <3> QED
      BY <2>4, <2>7, <3>1, LooksOn
  <2> QED
    BY <2>8, <2>10, <2>11, <2>12, <2>13 DEF SeedMove
<1> QED
  BY <1>1, <1>2

LEMMA MarkerSet ==
  ASSUME SeedShape, NEW b \in Boots, Mark(b)
  PROVE  SeedMove
<1> PICK ch : ch = boot[b].changed
  OBVIOUS
<1>0. /\ boot[b].chore = "marker" /\ NextChore(b) /\ rows' = [rows EXCEPT !["marker"] = 1]
      /\ together' = (together \/ rows["marker"] = 1) /\ torn' = torn
      /\ UNCHANGED <<boss, numbered, live, full, base, publishing, mine, undone>>
  BY DEF Mark, AtChore, settingsVars
<1>1. /\ BootsOK' /\ Moves(b, "content") /\ boot'[b].pc = "at" /\ boot'[b].changed = ch
      /\ boot'[b].found = 0
  BY <1>0, NextMoves, ChoresInOrder DEF SeedShape
<1>2. /\ rows' \in [SeedRows -> Nat] /\ rows'["marker"] = 1
      /\ \A r \in SeedRows \ {"marker"} : rows'[r] = rows[r]
  BY <1>0 DEF SeedShape, RowsOK, SeedRows
<1>3. SampleRows \subseteq SeedRows \ {"marker"} /\ Durable \subseteq SeedRows \ {"marker"}
  BY RowsNamed DEF RowNames, SampleRows, Durable, RoleRows, TemplateRows, OfferRows
<1>4. SamplesSame /\ LastsBut("nothing")
  BY <1>0, <1>2, <1>3 DEF SamplesSame, LastsBut, Complete, Served
<1>5. SeedShape'
  <2>1. \A r \in SeedRows \ {"content", "tests"} : rows'[r] <= 1
    <3>1. \A r \in SeedRows \ {"content", "tests"} : rows[r] <= 1
      BY DEF SeedShape, RowsOK
    <3> QED
      BY <1>2, <3>1
  <2> QED
    BY <1>0, <1>1, <1>2, <2>1 DEF SeedShape, VersionsOK, RowsOK
<1>6. ch \in SUBSET Whats /\ "marker" \in ChoreNames /\ "content" \in ChoreNames
  BY DEF SeedShape, BootsOK, BootRows, ChoreNames
<1>7. SampleStep
  BY <1>0, <1>1, <1>2, <1>4, <1>6 DEF SampleStep, Moves
<1>8. Gained("marker", ch)'
  BY DEF Gained, Durable, RoleRows, TemplateRows, OfferRows
<1>9. PassStep
  BY <1>0, <1>1, <1>4, <1>6, <1>8, ChoresInOrder DEF PassStep, Moves
<1>10. AncestryStep
  BY <1>0 DEF AncestryStep
<1>11. LooksStep
  <2>1. boot'[b].pc \notin InTransaction /\ boot'[b].found <= numbered
    BY <1>1, SeedingAssumption DEF InTransaction, SeedShape, VersionsOK
  <2> QED
    BY <1>0, <1>1, <2>1, LooksOn DEF Moves
<1> QED
  BY <1>5, <1>7, <1>9, <1>10, <1>11 DEF SeedMove

SeedInv == SeedShape /\ PassInv /\ SampleInv /\ CountInv /\ AncestryInv /\ LooksInv

LEMMA SeedBegins == SeedingInit => SeedInv
<1> SUFFICES ASSUME SeedingInit PROVE SeedInv
  OBVIOUS
<1>0. /\ boot = [b \in Boots |-> Down] /\ base = [v \in {0} \cup Editions |-> 0]
      /\ mine = Served /\ ~together /\ ~torn /\ ~undone /\ publishing = NoPublication
      /\ \/ rows = [r \in SeedRows |-> 0] /\ boss.type # "ADMIN" /\ live = {}
            /\ numbered = 0 /\ full = {}
         \/ rows = [r \in SeedRows |-> 1] /\ numbered \in 1 .. 2 /\ live = {numbered} \cap {2}
            /\ full \in SUBSET {1}
      /\ boss \in [type : {"none", "STUDENT", "ADMIN"}, blocked : BOOLEAN]
  BY Zenon DEF SeedingInit
<1>1. BootsOK
  BY <1>0, DownIsRow DEF BootsOK
<1>2. VersionsOK
  <2>1. MaxSettings \in Nat /\ MaxSettings >= 2 /\ Editions = 1 .. MaxSettings
    BY SeedingAssumption DEF Editions
  <2>2. base \in [{0} \cup Editions -> {0} \cup Editions] /\ base[0] = 0
    BY <1>0
  <2>3. \A v \in Editions : base[v] = 0 /\ base[v] < v
    BY <1>0, <2>1
  <2>4. numbered \in 0 .. MaxSettings /\ live \subseteq 1 .. numbered /\ full \subseteq 1 .. numbered
    BY <1>0, <2>1
  <2>5. publishing \in PublicationRows /\ publishing.pc = "none"
    BY <1>0 DEF NoPublication, PublicationRows
  <2> QED
    BY <2>2, <2>3, <2>4, <2>5 DEF VersionsOK
<1>3. RowsOK
  BY <1>0 DEF RowsOK
<1>4. PassInv
  BY <1>0, DownIsRow, ChoresInOrder DEF PassInv, LeftBy, Awaits, Down
<1>5. \A b \in Boots : boot[b].chore = "role"
  BY <1>0, DownIsRow
<1>6. SampleInv
  <2>1. SampleRows \subseteq SeedRows /\ "marker" \in SeedRows /\ "role" \notin SampleRows
    BY DEF SeedRows, SampleRows
  <2> QED
    BY <1>0, <1>5, <2>1 DEF SampleInv, InSamples
<1>7. CountInv
  <2> SUFFICES ASSUME NEW r \in {"content", "tests"}
               PROVE  rows[r] + Cardinality(Heading(r)) <= Cardinality(Boots)
    BY DEF CountInv
  <2>1. Heading(r) = {}
    BY <1>5 DEF Heading
  <2>2. Cardinality(Heading(r)) = 0
    BY <2>1, FS_EmptySet
  <2>3. Cardinality(Boots) \in Nat /\ Cardinality(Boots) # 0
    BY SeedingAssumption, FS_CardinalityType, FS_EmptySet
  <2>4. rows[r] \in 0 .. 1
    BY <1>0 DEF SeedRows, SampleRows
  <2> QED
    BY <2>2, <2>3, <2>4
<1>8. AncestryInv
  <2>1. live = {} => Served = 0
    BY <1>2, ServedIs
  <2>2. live # {} => live = {2} /\ Served = 2
    BY <1>0, <1>2, ServedIs
  <2>3. Derives(Served, mine)
    BY <1>0 DEF Derives
  <2> QED
    BY <1>0, <2>1, <2>2, <2>3 DEF AncestryInv, CompletedFromMine
<1>9. LooksInv
  <2>1. publishing.pc = "none" /\ numbered \in Nat
    BY <1>0, <1>2, SeedingAssumption DEF NoPublication, VersionsOK
  <2>2. \A b \in Boots : boot[b].found <= numbered /\ boot[b].pc \notin InTransaction
    BY <1>0, <2>1, DownIsRow DEF InTransaction
  <2> QED
    BY <2>1, <2>2 DEF LooksInv
<1> QED
  BY <1>1, <1>2, <1>3, <1>4, <1>6, <1>7, <1>8, <1>9 DEF SeedInv, SeedShape

LEMMA SeedsTell ==
  SeedInv => SeedingTypeOK /\ BootLeavesAll /\ SamplesWhole /\ CompletedFromMine
<1> SUFFICES ASSUME SeedInv
             PROVE  SeedingTypeOK /\ BootLeavesAll /\ SamplesWhole /\ CompletedFromMine
  OBVIOUS
<1>1. BootLeavesAll
  BY DEF SeedInv, PassInv, LeftBy, BootLeavesAll, Booting, Durable
<1>2. \A b \in Boots : InSamples(b) => b \in Booting
  BY DownIsRow DEF InSamples, Booting, SampleRows
<1>3. SamplesWhole
  BY <1>2 DEF SeedInv, SampleInv, SamplesWhole
<1>4. SeedingTypeOK
  <2>1. \A b \in Boots : /\ boot[b].pc \in Pcs /\ boot[b].chore \in ChoreNames
                          /\ boot[b].found \in 0 .. numbered /\ boot[b].others \subseteq Editions
    BY SeedingAssumption DEF SeedInv, SeedShape, BootsOK, BootRows, LooksInv, Editions, VersionsOK
  <2>5. publishing.pc \in {"none", "archiving", "setting"} /\ publishing.others \subseteq Editions
    BY DEF SeedInv, SeedShape, VersionsOK, PublicationRows
  <2>2. Cardinality(Boots) \in Nat /\ Cardinality(Boots) # 0
    BY SeedingAssumption, FS_CardinalityType, FS_EmptySet
  <2>3. \A r \in SeedRows : rows[r] \in 0 .. Cardinality(Boots)
    <3>1. ASSUME NEW r \in {"content", "tests"} PROVE rows[r] \in 0 .. Cardinality(Boots)
      <4>1. IsFiniteSet(Heading(r))
        BY SeedingAssumption, FS_Subset DEF Heading
      <4>2. Cardinality(Heading(r)) \in Nat
        BY <4>1, FS_CardinalityType
      <4>3. rows[r] \in Nat /\ rows[r] + Cardinality(Heading(r)) <= Cardinality(Boots)
        BY RowsNamed DEF SeedInv, CountInv, SeedShape, RowsOK, RowNames
      <4> QED
        BY <2>2, <4>2, <4>3
    <3>2. \A r \in SeedRows \ {"content", "tests"} : rows[r] \in Nat /\ rows[r] <= 1
      BY DEF SeedInv, SeedShape, RowsOK
    <3> QED
      BY <2>2, <3>1, <3>2
  <2>4. rows \in [SeedRows -> 0 .. Cardinality(Boots)]
    BY <2>3 DEF SeedInv, SeedShape, RowsOK
  <2> QED
    BY <2>1, <2>4, <2>5, ChoresInOrder
    DEF SeedInv, SeedShape, VersionsOK, RowsOK, SeedingTypeOK, Pcs
<1> QED
  BY <1>1, <1>3, <1>4 DEF SeedInv, AncestryInv

\* Wherever a row is looked for it is found or its creation is what comes next.
LEMMA LookMoves ==
  ASSUME SeedShape, NEW b \in Boots,
         NEW r \in {"template", "offer", "student"} \cup SampleRows, Look(b, r)
  PROVE  SeedMove
<1>0. /\ boot[b].chore = r /\ boot[b].pc = "at" /\ r \in ChoreNames \ {"up", "marker", "marker?"}
      /\ UNCHANGED <<rows, boss, settingsVars, torn, together>>
      /\ r # "boss" /\ r # "settings" /\ r \in SeedRows
  BY DEF Look, AtChore, ChoreNames, SampleRows, tally
<1>1. CASE rows[r] = 0
  <2> PICK row : row = [boot[b] EXCEPT !.pc = "creating", !.found = 0]
    OBVIOUS
  <2>1. boot[b] \in BootRows
    BY DEF SeedShape, BootsOK
  <2>2. row.pc = "creating" /\ row.chore = r
    BY <1>0, <2>1 DEF BootRows
  <2>3. Placed(row)
    BY <2>2 DEF Placed
  <2>4. To(b, "creating", 0)
    BY <1>1 DEF Look
  <2>5. /\ "creating" \in Pcs \ ({"down"} \cup InTransaction) /\ 0 \in {0} \cup Editions
        /\ 0 <= numbered
    BY SeedingAssumption DEF Pcs, InTransaction, SeedShape, VersionsOK
  <2> QED
    BY <1>0, <2>3, <2>4, <2>5, QuietTo, Zenon
<1>2. CASE rows[r] # 0
  <2>1. NextChore(b)
    BY <1>2 DEF Look
  <2>2. r \in Durable => rows[r] = 1
    BY <1>0, <1>2, RowsNamed DEF SeedShape, RowsOK, Durable, RoleRows, TemplateRows, OfferRows,
       RowNames
  <2>3. Gained(r, boot[b].changed)
    BY <1>0, <2>2 DEF Gained
  <2> QED
    BY <1>0, <1>2, <2>1, <2>3, QuietNext
<1> QED
  BY <1>1, <1>2

\* A row is created: once, or again.
LEMMA CreatedOnce ==
  ASSUME SeedShape, NEW b \in Boots, NEW r \in {"offer", "student", "orders", "pages"},
         CreateOnce(b, r)
  PROVE  SeedMove
<1>0. boot[b].chore = r /\ UNCHANGED <<boss, settingsVars, together>> /\ r \in SeedRows \ {"marker"}
  BY RowsNamed DEF CreateOnce, Creating, RowNames
<1>1. CASE rows[r] = 0
  <2>1. NextChore(b) /\ rows' = [rows EXCEPT ![r] = 1] /\ torn' = torn
    BY <1>1 DEF CreateOnce
  <2>2. r \in SampleRows => 1 = rows[r] + 1 /\ (r \in {"orders", "pages"} => rows[r] = 0)
    BY <1>1
  <2> QED
    BY <1>0, <2>1, <2>2, RowNext, Zenon
<1>2. CASE rows[r] # 0
  <2>1. Leave(b) /\ UNCHANGED <<rows, boss, numbered, live, full, base, publishing, mine,
                                undone, together>>
    BY <1>0, <1>2 DEF CreateOnce, settingsVars
  <2> QED
    BY <2>1, QuietLeave
<1> QED
  BY <1>1, <1>2

LEMMA CreatedAgain ==
  ASSUME SeedShape, NEW b \in Boots, NEW r \in {"content", "tests"}, CreateAgain(b, r)
  PROVE  SeedMove
<1>0. /\ boot[b].chore = r /\ UNCHANGED <<boss, settingsVars, torn, together>>
      /\ r \in SeedRows \ {"marker"} /\ NextChore(b) /\ rows' = [rows EXCEPT ![r] = rows[r] + 1]
  BY RowsNamed DEF CreateAgain, Creating, RowNames, tally
<1>1. rows[r] + 1 \in Nat
  BY <1>0 DEF SeedShape, RowsOK
<1> QED
  BY <1>0, <1>1, RowNext, Zenon

LEMMA Ensured ==
  ASSUME SeedShape, NEW b \in Boots, NEW r \in {"role", "link", "bossRole", "template"},
         boot[b].chore = r, NextChore(b), rows' = [rows EXCEPT ![r] = 1],
         UNCHANGED <<boss, settingsVars, torn, together>>
  PROVE  SeedMove
<1>1. r \in SeedRows \ {"marker"} /\ r \notin SampleRows
  BY RowsNamed DEF RowNames, SampleRows
<1> QED
  BY <1>1, RowNext, Zenon

\* What a process does next.
LEMMA BootMoves ==
  ASSUME SeedShape, PassInv, LooksInv, NEW b \in Boots,
         \/ StartBoot(b) \/ StopBoot(b)
         \/ UpsertRoles(b) \/ LinkPermissions(b) \/ GiveBossRole(b)
         \/ \E r \in {"template", "offer", "student"} \cup SampleRows : Look(b, r)
         \/ CreateTemplates(b) \/ CreateOffers(b)
         \/ LookForBoss(b) \/ CreateBoss(b) \/ PromoteBoss(b)
         \/ LookForSettings(b) \/ LookForPublished(b) \/ LookForLatest(b)
         \/ CreateSettings(b) \/ FindOthers(b) \/ TakeOthers(b) \/ CompleteSettings(b)
         \/ LookForMarker(b) \/ CreateStudent(b) \/ Mark(b)
         \/ CreateContent(b) \/ CreateTests(b) \/ CreateOrders(b) \/ CreatePages(b)
  PROVE  SeedMove
<1>0. /\ boot[b] \in BootRows /\ Placed(boot[b]) /\ 0 \in {0} \cup Editions
      /\ 0 <= numbered
      /\ {"at", "creating", "promoting", "published?", "latest?", "first", "completing"}
           \subseteq Pcs \ ({"down"} \cup InTransaction)
      /\ \A pc, found : [boot[b] EXCEPT !.pc = pc, !.found = found].pc = pc
      /\ \A pc, found : [boot[b] EXCEPT !.pc = pc, !.found = found].chore = boot[b].chore
  BY SeedingAssumption DEF SeedShape, BootsOK, BootRows, Pcs, InTransaction, VersionsOK
<1>1. CASE StartBoot(b)
  <2>1. boot[b] = Down /\ boot' = [boot EXCEPT ![b].pc = "at"]
        /\ UNCHANGED <<rows, boss, settingsVars, torn, together>>
    BY <1>1 DEF StartBoot
  <2>2. [boot[b] EXCEPT !.pc = "at", !.found = 0] = [boot[b] EXCEPT !.pc = "at"]
    <3> DEFINE started == [pc |-> "at", chore |-> "role", found |-> 0, others |-> {},
                           changed |-> {}]
    <3>1. [Down EXCEPT !.pc = "at", !.found = 0] = started
      <4> DEFINE Started == [pc : {"at"}, chore : {"role"}, found : {0}, others : {{}},
                             changed : {{}}]
      <4>1. [Down EXCEPT !.pc = "at", !.found = 0] \in Started
        BY Zenon DEF Down
      <4>2. \A x \in Started : x = started
        OBVIOUS
      <4> QED
        BY <4>1, <4>2, Zenon
    <3>2. [Down EXCEPT !.pc = "at"] = started
      BY DEF Down
    <3> QED
      BY <2>1, <3>1, <3>2
  <2>3. boot' = [boot EXCEPT ![b] = [boot[b] EXCEPT !.pc = "at", !.found = 0]]
    BY <2>1, <2>2, Zenon
  <2>4. To(b, "at", 0)
    BY <2>3, Zenon DEF To
  <2>5. Placed([boot[b] EXCEPT !.pc = "at", !.found = 0])
    BY <1>0 DEF Placed
  <2> QED
    BY <1>0, <2>1, <2>4, <2>5, QuietTo, Zenon
<1>2. CASE StopBoot(b)
  BY <1>2, QuietLeave DEF StopBoot, settingsVars
<1>3. CASE UpsertRoles(b) \/ LinkPermissions(b) \/ GiveBossRole(b)
  <2>1. PICK r \in {"role", "link", "bossRole"} : Ensure(b, r)
    BY <1>3 DEF UpsertRoles, LinkPermissions, GiveBossRole
  <2> QED
    BY <2>1, Ensured, Zenon DEF Ensure, AtChore, tally
<1>4. ASSUME NEW r \in {"template", "offer", "student"} \cup SampleRows, Look(b, r) PROVE SeedMove
  BY <1>4, LookMoves
<1>5. CASE CreateTemplates(b)
  BY <1>5, Ensured DEF CreateTemplates, Creating, tally
<1>6. CASE CreateOffers(b) \/ CreateStudent(b) \/ CreateOrders(b) \/ CreatePages(b)
  BY <1>6, CreatedOnce DEF CreateOffers, CreateStudent, CreateOrders, CreatePages
<1>7. CASE CreateContent(b) \/ CreateTests(b)
  BY <1>7, CreatedAgain DEF CreateContent, CreateTests
<1>8. CASE LookForBoss(b)
  <2>1. boot[b].chore = "boss" /\ UNCHANGED <<rows, boss, settingsVars, torn, together>>
        /\ boss.type \in {"none", "STUDENT", "ADMIN"}
    BY <1>8 DEF LookForBoss, AtChore, tally, SeedShape, RowsOK
  <2>2. CASE boss.type = "none"
    <3>1. To(b, "creating", 0)
      BY <1>8, <2>2 DEF LookForBoss
    <3>2. Placed([boot[b] EXCEPT !.pc = "creating", !.found = 0])
      BY <1>0, <2>1 DEF Placed
    <3> QED
      BY <1>0, <2>1, <3>1, <3>2, QuietTo, Zenon
  <2>3. CASE boss.type = "STUDENT"
    <3>1. To(b, "promoting", 0)
      BY <1>8, <2>3 DEF LookForBoss
    <3>2. Placed([boot[b] EXCEPT !.pc = "promoting", !.found = 0])
      BY <1>0, <2>1 DEF Placed
    <3> QED
      BY <1>0, <2>1, <3>1, <3>2, QuietTo, Zenon
  <2>4. CASE boss.type = "ADMIN"
    <3>1. NextChore(b)
      BY <1>8, <2>4 DEF LookForBoss
    <3>2. /\ Gained("boss", boot[b].changed) /\ "boss" \in ChoreNames \ {"up", "marker"}
          /\ "boss" \notin SampleRows
      BY <2>4 DEF Gained, Durable, RoleRows, TemplateRows, OfferRows, ChoreNames, SampleRows
    <3> QED
      BY <2>1, <3>1, <3>2, QuietNext
  <2> QED
    BY <2>1, <2>2, <2>3, <2>4
<1>9. CASE CreateBoss(b)
  <2>1. CASE boss.type = "none"
    BY <1>9, <2>1, BossMade DEF CreateBoss, Creating
  <2>2. CASE boss.type # "none"
    <3>1. Leave(b) /\ UNCHANGED <<rows, boss, numbered, live, full, base, publishing, mine,
                                  undone, together>>
      BY <1>9, <2>2 DEF CreateBoss, settingsVars
    <3> QED
      BY <3>1, QuietLeave
  <2> QED
    BY <2>1, <2>2
<1>10. CASE PromoteBoss(b)
  BY <1>0, <1>10, BossMade DEF PromoteBoss, Placed, tally
<1>11. CASE LookForSettings(b)
  <2>1. boot[b].chore = "settings" /\ UNCHANGED <<rows, boss, settingsVars, torn, together>>
    BY <1>11 DEF LookForSettings, AtChore, tally
  <2>2. CASE live = {}
    <3>1. To(b, "published?", 0)
      BY <1>11, <2>2 DEF LookForSettings
    <3>2. Placed([boot[b] EXCEPT !.pc = "published?", !.found = 0])
      BY <1>0, <2>1 DEF Placed
    <3> QED
      BY <1>0, <2>1, <2>2, <3>1, <3>2, QuietTo, Zenon
  <2>3. CASE live # {} /\ Complete(Served)
    <3>1. NextChore(b)
      BY <1>11, <2>3 DEF LookForSettings
    <3>2. /\ Gained("settings", boot[b].changed) /\ "settings" \in ChoreNames \ {"up", "marker"}
          /\ "settings" \notin SampleRows
      BY <2>3 DEF Gained, Durable, RoleRows, TemplateRows, OfferRows, ChoreNames, SampleRows
    <3> QED
      BY <2>1, <3>1, <3>2, QuietNext
  <2>4. CASE live # {} /\ ~Complete(Served)
    <3> PICK s : s = Served
      OBVIOUS
    <3>1. To(b, "completing", s)
      BY <1>11, <2>4 DEF LookForSettings
    <3>2. Placed([boot[b] EXCEPT !.pc = "completing", !.found = s])
      BY <1>0, <2>1 DEF Placed
    <3>3. s \in {0} \cup Editions /\ s \in live /\ VersionsOK
      BY <2>4, ServedIs DEF SeedShape
    <3>4. s <= numbered
      BY <3>3, SeedingAssumption DEF VersionsOK
    <3> QED
      BY <1>0, <2>1, <3>1, <3>2, <3>3, <3>4, QuietTo, Zenon
  <2> QED
    BY <2>2, <2>3, <2>4
<1>12. CASE LookForPublished(b)
  <2>1. boot[b].pc = "published?" /\ boot[b].chore = "settings"
        /\ UNCHANGED <<rows, boss, settingsVars, torn, together>>
    BY <1>0, <1>12 DEF LookForPublished, Placed, tally
  <2>2. CASE live = {}
    <3>1. To(b, "latest?", 0)
      BY <1>12, <2>2 DEF LookForPublished
    <3>2. Placed([boot[b] EXCEPT !.pc = "latest?", !.found = 0])
      BY <1>0, <2>1 DEF Placed
    <3> QED
      BY <1>0, <2>1, <2>2, <3>1, <3>2, QuietTo, Zenon
  <2>3. CASE live # {}
    <3>1. NextChore(b)
      BY <1>12, <2>3 DEF LookForPublished
    <3>2. Complete(Served) \/ "settings" \in boot[b].changed
      BY <2>1, <2>3 DEF PassInv, Awaits
    <3>3. /\ Gained("settings", boot[b].changed) /\ "settings" \in ChoreNames \ {"up", "marker"}
          /\ "settings" \notin SampleRows
      BY <3>2 DEF Gained, Durable, RoleRows, TemplateRows, OfferRows, ChoreNames, SampleRows
    <3> QED
      BY <2>1, <3>1, <3>3, QuietNext
  <2> QED
    BY <2>2, <2>3
<1>13. CASE LookForLatest(b)
  <2> PICK n : n = numbered
    OBVIOUS
  <2>1. boot[b].pc = "latest?" /\ boot[b].chore = "settings" /\ To(b, "first", n)
        /\ UNCHANGED <<rows, boss, settingsVars, torn, together>>
    BY <1>0, <1>13 DEF LookForLatest, Placed, tally
  <2>2. Placed([boot[b] EXCEPT !.pc = "first", !.found = n])
    BY <1>0, <2>1 DEF Placed
  <2>3. n \in {0} \cup Editions /\ n <= numbered
    BY SeedingAssumption DEF SeedShape, VersionsOK, Editions
  <2>4. live = {} \/ Complete(Served) \/ "settings" \in boot[b].changed
    BY <2>1 DEF PassInv, Awaits
  <2> QED
    BY <1>0, <2>1, <2>2, <2>3, <2>4, QuietTo, Zenon
<1> QED
  BY <1>1, <1>2, <1>3, <1>4, <1>5, <1>6, <1>7, <1>8, <1>9, <1>10, <1>11, <1>12, <1>13,
     SettingsCreated, OthersMove, SettingsCompleted, MarkerLooked, MarkerSet

\* What an administrator does, and a deployment.
LEMMA OfficeMoves ==
  ASSUME SeedShape, LooksInv,
         \/ \E r \in SeedRows : RemoveRow(r)
         \/ DemoteBoss \/ BlockBoss
         \/ \E whole \in BOOLEAN : DraftSettings(whole)
         \/ PublishSettings
         \/ Deploy
  PROVE  SeedMove
<1>1. ASSUME NEW r \in SeedRows, RemoveRow(r) PROVE SeedMove
  <2>1. /\ r \in Whats /\ r \in SeedRows \ (SampleRows \cup {"marker"}) /\ Noticed(r)
        /\ rows' = [rows EXCEPT ![r] = 0]
        /\ UNCHANGED <<boss, numbered, live, full, base, publishing, mine, undone, torn, together>>
    BY <1>1 DEF RemoveRow, Act, Whats, settingsVars, SampleRows
  <2>2. /\ rows' \in [SeedRows -> Nat] /\ rows'[r] = 0
        /\ \A q \in SeedRows \ {r} : rows'[q] = rows[q]
    BY <2>1 DEF SeedShape, RowsOK
  <2>3. SampleRows \subseteq SeedRows /\ "marker" \in SeedRows /\ Durable \subseteq SeedRows
    BY RowsNamed DEF RowNames, SampleRows, Durable, RoleRows, TemplateRows, OfferRows
  <2>4. MarkSame /\ SamplesSame
    BY <2>1, <2>2, <2>3 DEF MarkSame, SamplesSame
  <2>5. LastsBut(r)
    <3>1. \A q \in Durable \ {r} : rows[q] = 1 => rows'[q] = 1
      BY <2>2, <2>3
    <3> QED
      BY <2>1, <3>1 DEF LastsBut, Complete, Served
  <2>6. RowsOK' /\ VersionsOK'
    <3>1. \A q \in SeedRows \ {"content", "tests"} : rows'[q] <= 1
      <4>1. \A q \in SeedRows \ {"content", "tests"} : rows[q] <= 1
        BY DEF SeedShape, RowsOK
      <4> QED
        BY <2>2, <4>1
    <3> QED
      BY <2>1, <2>2, <3>1 DEF SeedShape, RowsOK, VersionsOK
  <2>7. AncestryStep /\ VersionLooks
    BY <2>1 DEF AncestryStep, VersionLooks
  <2> QED
    BY <2>1, <2>4, <2>5, <2>6, <2>7, AdminActs
<1>2. CASE DemoteBoss \/ BlockBoss
  <2>1. PICK what \in {"boss", "blocked"} :
          /\ Noticed(what)
          /\ UNCHANGED <<rows, numbered, live, full, base, publishing, mine, undone, torn,
                         together>>
          /\ \/ what = "boss" /\ boss' = [boss EXCEPT !.type = "STUDENT"]
             \/ what = "blocked" /\ boss' = [boss EXCEPT !.blocked = TRUE]
    BY <1>2 DEF DemoteBoss, BlockBoss, Act, settingsVars
  <2>2. what \in Whats
    BY DEF Whats
  <2>3. RowsOK' /\ VersionsOK' /\ MarkSame /\ SamplesSame
    <3>1. boss' \in [type : {"none", "STUDENT", "ADMIN"}, blocked : BOOLEAN]
      BY <2>1, Zenon DEF SeedShape, RowsOK
    <3> QED
      BY <2>1, <3>1 DEF SeedShape, RowsOK, VersionsOK, MarkSame, SamplesSame
  <2>4. boss.type = "ADMIN" => boss'.type = "ADMIN" \/ what = "boss"
    BY <2>1 DEF SeedShape, RowsOK
  <2>5. LastsBut(what)
    BY <2>1, <2>4 DEF LastsBut, Complete, Served
  <2>6. AncestryStep /\ VersionLooks
    BY <2>1 DEF AncestryStep, VersionLooks
  <2> QED
    BY <2>1, <2>2, <2>3, <2>5, <2>6, AdminActs
<1>3. ASSUME NEW whole \in BOOLEAN, DraftSettings(whole) PROVE SeedMove
  <2>1. /\ Noticed("draft") /\ numbered' = numbered + 1 /\ numbered < MaxSettings
        /\ full' = full \/ full' = full \cup {numbered'}
        /\ UNCHANGED <<rows, boss, live, base, publishing, mine, undone, torn, together>>
    BY <1>3 DEF DraftSettings, Act
  <2>2. numbered \in Nat /\ MaxSettings \in Nat /\ "draft" \in Whats
    BY SeedingAssumption DEF SeedShape, VersionsOK, Whats
  <2>3. VersionsOK'
    <3>1. numbered' \in 0 .. MaxSettings /\ numbered' \in 1 .. numbered'
          /\ \A w \in 1 .. numbered : w \in 1 .. numbered'
      BY <2>1, <2>2
    <3>2. live' \subseteq 1 .. numbered' /\ full' \subseteq 1 .. numbered'
      BY <2>1, <3>1, Zenon DEF SeedShape, VersionsOK
    <3>3. \A v \in Editions : v > numbered' => v > numbered
      BY <2>1, <2>2 DEF Editions
    <3>4. publishing'.pc # "none" => publishing'.it \in 1 .. numbered'
      BY <2>1, <3>1 DEF SeedShape, VersionsOK
    <3> QED
      BY <2>1, <3>1, <3>2, <3>3, <3>4 DEF SeedShape, VersionsOK
  <2>4. RowsOK' /\ MarkSame /\ SamplesSame
    BY <2>1 DEF SeedShape, RowsOK, MarkSame, SamplesSame
  <2>5. LastsBut("draft")
    BY <2>1 DEF LastsBut, Complete, Served
  <2>6. AncestryStep /\ VersionLooks
    BY <2>1 DEF AncestryStep, VersionLooks
  <2> QED
    BY <2>1, <2>2, <2>3, <2>4, <2>5, <2>6, AdminActs
<1>4. CASE PublishSettings
  <2> PICK v, others : v = publishing.it /\ others = publishing.others
    OBVIOUS
  <2>1. /\ Noticed("settings") /\ publishing.pc # "none"
        /\ live' = (live \ others) \cup {v} /\ mine' = v /\ undone' = publishing.late
        /\ publishing' = NoPublication
        /\ UNCHANGED <<rows, boss, numbered, full, base, torn, together>>
    BY <1>4 DEF PublishSettings, tally
  <2>2. v \in 1 .. numbered /\ v \in Editions
    BY <2>1, SeedingAssumption DEF SeedShape, VersionsOK, Editions
  <2>3. publishing' \in PublicationRows /\ publishing'.pc = "none"
    BY <2>1 DEF NoPublication, PublicationRows
  <2>4. RowsOK' /\ VersionsOK' /\ MarkSame /\ SamplesSame /\ "settings" \in Whats
    BY <2>1, <2>2, <2>3 DEF SeedShape, RowsOK, VersionsOK, MarkSame, SamplesSame, Whats
  <2>5. LastsBut("settings")
    BY <2>1 DEF LastsBut
  <2>6. ~publishing.late => live' = {v}
    BY <2>1 DEF LooksInv
  <2>7. AncestryStep
    <3>1. CASE publishing.late
      BY <2>1, <3>1 DEF AncestryStep
    <3>2. CASE ~publishing.late
      BY <2>1, <2>2, <2>6, <3>2 DEF AncestryStep
    <3> QED
      BY <3>1, <3>2
  <2>8. VersionLooks
    <3>1. ~publishing.late => Served' = v
      BY <2>2, <2>6 DEF Served, Editions
    <3> QED
      BY <2>1, <2>3, <2>6, <3>1 DEF VersionLooks
  <2> QED
    BY <2>1, <2>4, <2>5, <2>7, <2>8, AdminActs
<1>5. CASE Deploy
  <2>1. /\ \A b \in Boots : boot[b].chore \notin SampleRows
        /\ boot' = [b \in Boots |-> Down] /\ full' = {}
        /\ UNCHANGED <<rows, boss, numbered, live, base, publishing, mine, undone, torn, together>>
    <3>1. "up" \notin SampleRows /\ "role" \notin SampleRows
      BY DEF SampleRows
    <3> QED
      BY <1>5, <3>1, DownIsRow DEF Deploy, Booting
  <2>2. \A b \in Boots : boot'[b] = Down /\ boot'[b].chore = "role"
    BY <2>1, DownIsRow
  <2>3. BootsOK'
    BY <2>1, DownIsRow DEF BootsOK
  <2>4. RowsOK' /\ VersionsOK' /\ MarkSame /\ SamplesSame
    BY <2>1 DEF SeedShape, RowsOK, VersionsOK, MarkSame, SamplesSame
  <2>5. AncestryStep
    BY <2>1 DEF AncestryStep
  <2>6. SampleStep
    BY <2>1, <2>2, <2>4 DEF SampleStep
  <2>7. PassStep
    BY <2>2 DEF PassStep
  <2>8. LooksStep
    <3>1. \A b \in Boots : boot'[b].pc \notin InTransaction /\ boot'[b].found <= numbered'
      BY <2>1, <2>2, DownIsRow, SeedingAssumption DEF InTransaction, SeedShape, VersionsOK
    <3> QED
      BY <2>1, <3>1 DEF LooksStep, BootLooks, VersionLooks
  <2> QED
    BY <2>3, <2>4, <2>5, <2>6, <2>7, <2>8 DEF SeedMove, SeedShape
<1> QED
  BY <1>1, <1>2, <1>3, <1>4, <1>5

\* What a publication finds and takes is its own; it may also fail.
LEMMA PublicationMoves ==
  ASSUME SeedInv,
         \/ \E v \in Editions : BeginPublication(v)
         \/ ArchivePublished \/ FailPublication
  PROVE  SeedInv'
<1>1. UNCHANGED <<rows, boss, numbered, live, full, base, boot, torn, together, mine, undone>>
  BY DEF BeginPublication, ArchivePublished, FailPublication, tally
<1>2. /\ publishing \in PublicationRows /\ live \in SUBSET Editions
      /\ publishing.pc # "none" => publishing.it \in 1 .. numbered
  BY SeedingAssumption DEF SeedInv, SeedShape, VersionsOK, Editions
<1>3. /\ publishing' \in PublicationRows
      /\ publishing'.pc # "none" => publishing'.it \in 1 .. numbered
      /\ publishing'.pc # "none" /\ ~publishing'.late =>
           live \subseteq publishing'.others \cup {publishing'.it}
  <2>1. ASSUME NEW v \in Editions, BeginPublication(v)
        PROVE  /\ publishing' \in PublicationRows
               /\ publishing'.it \in 1 .. numbered
               /\ live \subseteq publishing'.others \cup {publishing'.it}
    BY <1>2, <2>1 DEF BeginPublication, PublicationRows
  <2>2. CASE ArchivePublished
    <3>1. /\ publishing' = [publishing EXCEPT !.pc = "setting",
                                              !.others = publishing.others \cap live]
          /\ publishing.pc # "none"
      BY <2>2 DEF ArchivePublished
    <3>2. /\ publishing' \in PublicationRows /\ publishing'.it = publishing.it
          /\ publishing'.late = publishing.late /\ publishing'.others = publishing.others \cap live
      BY <1>2, <3>1 DEF PublicationRows
    <3>3. ~publishing.late => live \subseteq publishing.others \cup {publishing.it}
      BY <3>1 DEF SeedInv, LooksInv
    <3> QED
      BY <1>2, <3>1, <3>2, <3>3
  <2>3. CASE FailPublication
    BY <2>3 DEF FailPublication, NoPublication, PublicationRows
  <2> QED
    BY <2>1, <2>2, <2>3
<1>4. SeedShape'
  BY <1>1, <1>3 DEF SeedInv, SeedShape, BootsOK, VersionsOK, RowsOK
<1>5. PassInv'
  BY <1>1 DEF SeedInv, PassInv, LeftBy, Awaits, Complete, Served
<1>6. SampleInv'
  BY <1>1 DEF SeedInv, SampleInv, InSamples
<1>7. CountInv'
  BY <1>1 DEF SeedInv, CountInv, Heading
<1>8. AncestryInv'
  BY <1>1 DEF SeedInv, AncestryInv, CompletedFromMine, Derives, Served
<1>9. LooksInv'
  BY <1>1, <1>3 DEF SeedInv, LooksInv, Served
<1> QED
  BY <1>4, <1>5, <1>6, <1>7, <1>8, <1>9 DEF SeedInv

LEMMA SeedStep == SeedInv /\ [SeedingNext]_evars => SeedInv'
<1> SUFFICES ASSUME SeedInv, [SeedingNext]_evars PROVE SeedInv'
  OBVIOUS
<1>3. CASE \/ \E v \in Editions : BeginPublication(v)
           \/ ArchivePublished \/ FailPublication
  BY <1>3, PublicationMoves
<1>1. CASE SeedingNext /\ ~(\/ \E v \in Editions : BeginPublication(v)
                           \/ ArchivePublished \/ FailPublication)
  <2>1. SeedShape /\ PassInv /\ SampleInv /\ CountInv /\ AncestryInv /\ LooksInv
        /\ BootsOK /\ RowsOK /\ VersionsOK
    BY DEF SeedInv, SeedShape
  <2>2. SeedMove
    <3>1. \/ \E r \in SeedRows : RemoveRow(r)
          \/ DemoteBoss \/ BlockBoss
          \/ \E whole \in BOOLEAN : DraftSettings(whole)
          \/ PublishSettings
          \/ Deploy
          \/ \E b \in Boots :
               \/ StartBoot(b) \/ StopBoot(b)
               \/ UpsertRoles(b) \/ LinkPermissions(b) \/ GiveBossRole(b)
               \/ \E r \in {"template", "offer", "student"} \cup SampleRows : Look(b, r)
               \/ CreateTemplates(b) \/ CreateOffers(b)
               \/ LookForBoss(b) \/ CreateBoss(b) \/ PromoteBoss(b)
               \/ LookForSettings(b) \/ LookForPublished(b) \/ LookForLatest(b)
               \/ CreateSettings(b) \/ FindOthers(b) \/ TakeOthers(b) \/ CompleteSettings(b)
               \/ LookForMarker(b) \/ CreateStudent(b) \/ Mark(b)
               \/ CreateContent(b) \/ CreateTests(b) \/ CreateOrders(b) \/ CreatePages(b)
      BY <1>1 DEF SeedingNext
    <3> QED
      BY <2>1, <3>1, BootMoves, OfficeMoves
  <2>3. /\ SeedShape' /\ BootsOK' /\ RowsOK' /\ VersionsOK'
        /\ SampleStep /\ PassStep /\ AncestryStep /\ LooksStep
    BY <2>2 DEF SeedMove, SeedShape
  <2>4. PassInv'
    BY <2>1, <2>3, PassKept
  <2>5. SampleInv'
    BY <2>1, <2>3, SamplesKept
  <2>6. CountInv'
    BY <2>1, <2>3, CountsKept
  <2>7. AncestryInv'
    BY <2>1, <2>3, AncestryKept
  <2>8. LooksInv'
    BY <2>1, <2>3, LooksKept
  <2> QED
    BY <2>3, <2>4, <2>5, <2>6, <2>7, <2>8 DEF SeedInv
<1>2. CASE UNCHANGED evars
  <2>1. UNCHANGED <<rows, boss, numbered, live, full, base, publishing, boot, torn, together,
                   mine, undone>>
    BY <1>2 DEF evars
  <2>2. SeedShape'
    BY <2>1 DEF SeedInv, SeedShape, BootsOK, VersionsOK, RowsOK
  <2>3. PassInv'
    BY <2>1 DEF SeedInv, PassInv, LeftBy, Awaits, Complete, Served
  <2>4. SampleInv'
    BY <2>1 DEF SeedInv, SampleInv, InSamples
  <2>5. CountInv'
    BY <2>1 DEF SeedInv, CountInv, Heading
  <2>6. AncestryInv'
    BY <2>1 DEF SeedInv, AncestryInv, CompletedFromMine, Derives, Served
  <2>7. LooksInv'
    BY <2>1 DEF SeedInv, LooksInv, Served
  <2> QED
    BY <2>2, <2>3, <2>4, <2>5, <2>6, <2>7 DEF SeedInv
<1> QED
  BY <1>1, <1>2, <1>3

(***************************************************************************)
(* The components of content                                               *)
(***************************************************************************)

\* The component of content a behaviour follows, if it follows one, keeps its invariant.
ContentInv ==
  /\ part = "settings" => SettingsInv
  /\ part = "tree" => TreeInv /\ TreeGrows
  /\ part = "assets" => UseInv
  /\ part = "seeding" => SeedInv

\* A step is one of the component followed, or leaves it alone.
LEMMA ContentSteps ==
  ASSUME [Next]_vars
  PROVE  /\ part' = part
         /\ part = "settings" => [SettingsNext]_svars
         /\ part = "tree" => [ContentTreeNext]_cvars
         /\ part = "assets" => [AssetUseNext]_uvars
         /\ part = "seeding" => [SeedingNext]_evars
  BY DEF Next, vars, InRefunds, InManualGrants, InNoteViews, InOneTimeCodes, InAdminRoles,
         InContentTree, InAssetUse, InPlanCatalog, InSettings, InPractice, InSeeding,
         InDailyStats, InProviderCalls, InRendering, InTerms

\* A behaviour begins where the component it follows begins.
LEMMA ContentBegins ==
  ASSUME Init
  PROVE  /\ part = "settings" => SettingsInit
         /\ part = "tree" => ContentTreeInit
         /\ part = "assets" => AssetUseInit
         /\ part = "seeding" => SeedingInit
  BY DEF Init

\* Each component of content keeps its invariant, whatever it is made of.
THEOREM ContentInvariance == Spec => []ContentInv
<1>1. Init => ContentInv
  BY ContentBegins, SettingsBegin, TreeBegins, TreeRoots, UseBegins, SeedBegins
  DEF ContentInv
<1>2. ContentInv /\ [Next]_vars => ContentInv'
  BY ContentSteps, SettingsStep, TreeStep, TreeGrown, UseStep, SeedStep DEF ContentInv
<1> QED
  BY <1>1, <1>2, PTL DEF Spec

\* Topics form a tree and questions lie in the subject of their topic, nothing that is used
\* is deleted, the references of assets are those of the content, one version of the
\* settings is live, and a process that starts leaves what it is to write; but for what the
\* histories say was done on a check that no longer held.
THEOREM ContentHolds == Spec => []ContentHoldsTogether
<1>1. ContentInv => ContentHoldsTogether
  <2>1. TreeInv /\ TreeGrows => TopicsAcyclic /\ QuestionTopicInSubject /\ NothingUsedIsTaken
    BY DEF TreeInv, TreeGrows
  <2>2. SettingsInv => OneVersionLive /\ SettingsMoveForward
    BY DEF SettingsInv
  <2> QED
    BY <2>1, <2>2, UseTells, SeedsTell DEF ContentInv, ContentHoldsTogether
<1> QED
  BY <1>1, ContentInvariance, PTL
=============================================================================
