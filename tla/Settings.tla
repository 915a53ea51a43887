-------------------------------- MODULE Settings --------------------------------
(***************************************************************************)
(* The versions of the site settings and who reads them: createAppConfig   *)
(* and publishAppConfig of src/modules/cms/cms.service, the snapshot of    *)
(* src/modules/site-settings and the print engine's own copy.              *)
(*                                                                         *)
(* A publication is one transaction of two statements under read           *)
(* committed.  Each statement sees the rows committed when it starts,      *)
(* waits for the rows another transaction holds and looks at them again.   *)
(* An application configuration of another key behaves alike.              *)
(***************************************************************************)
EXTENDS Naturals, FiniteSets

CONSTANTS
  MaxVersion,    \* bound: versions made
  Publishers,    \* administrators' requests at a time
  Loaders,       \* readings at a time
  MaxPublished   \* bound: publications

ASSUME SettingsAssumption ==
  /\ MaxVersion \in Nat /\ MaxPublished \in Nat
  /\ IsFiniteSet(Publishers)

Versions == 1 .. MaxVersion
Caches == {"site", "print"}

VARIABLES
  status,      \* each version: none, DRAFT, PUBLISHED, ARCHIVED
  publisher,   \* where each request is
  published,   \* publications committed
  cache,       \* each copy: the publications it has seen (0: the defaults), and its age
  loader,      \* readings under way
  newest,      \* history: the latest publication each copy ever held
  overlapped   \* history: the last publication overlapped another

svars == <<status, publisher, published, cache, loader, newest, overlapped>>

Live == {v \in Versions : status[v] = "PUBLISHED"}
Made == {v \in Versions : status[v] # "none"}
NoRequest == [pc |-> "away"]
NoLoad == [pc |-> "away"]

SettingsInit ==
  /\ status = [v \in Versions |-> "none"]
  /\ publisher = [p \in Publishers |-> NoRequest]
  /\ published = 0
  /\ cache = [k \in Caches |-> [at |-> 0, fresh |-> FALSE]]
  /\ loader = [l \in Loaders |-> NoLoad]
  /\ newest = [k \in Caches |-> 0]
  /\ overlapped = FALSE

-----------------------------------------------------------------------------
(* createAppConfig and publishAppConfig *)

BeginVersion(p) ==
  /\ publisher[p] = NoRequest /\ Cardinality(Made) < MaxVersion
  /\ publisher' = [publisher EXCEPT ![p] = [pc |-> "making", it |-> Cardinality(Made) + 1]]
  /\ UNCHANGED <<status, published, cache, loader, newest, overlapped>>

\* The number after the latest read; taken meanwhile, the insert fails.
MakeVersion(p) ==
  LET v == publisher[p].it IN
  /\ publisher[p].pc = "making"
  /\ status' = IF status[v] = "none" THEN [status EXCEPT ![v] = "DRAFT"] ELSE status
  /\ publisher' = [publisher EXCEPT ![p] = NoRequest]
  /\ UNCHANGED <<published, cache, loader, newest, overlapped>>

\* The first statement: the live versions it finds, all but its own.  Faulty variant: none.
FindsNone(v) == {}
Others(v) == Live \ {v}
BeginPublish(p, v) ==
  /\ publisher[p] = NoRequest /\ v \in Made /\ published < MaxPublished
  /\ publisher' = [publisher EXCEPT ![p] =
       [pc |-> "archiving", it |-> v, found |-> Others(v), held |-> {}, late |-> FALSE]]
  /\ UNCHANGED <<status, published, cache, loader, newest, overlapped>>

HeldBy(p) == IF publisher[p].pc = "setting" THEN publisher[p].held ELSE {}
Unheld(p, rows) == \A q \in Publishers \ {p} : HeldBy(q) \cap rows = {}

\* The rows found that are still live are taken, once nobody holds them.
ArchiveOthers(p) ==
  /\ publisher[p].pc = "archiving" /\ Unheld(p, publisher[p].found)
  /\ publisher' = [publisher EXCEPT ![p].pc = "setting", ![p].held = publisher[p].found \cap Live]
  /\ UNCHANGED <<status, published, cache, loader, newest, overlapped>>

\* The second statement and the commit.
SetPublished(p) ==
  LET r == publisher[p] IN
  /\ r.pc = "setting" /\ Unheld(p, {r.it})
  /\ status' = [v \in Versions |->
       IF v = r.it THEN "PUBLISHED" ELSE IF v \in r.held THEN "ARCHIVED" ELSE status[v]]
  /\ published' = published + 1
  /\ overlapped' = r.late
  /\ publisher' = [q \in Publishers |->
       IF q = p THEN NoRequest
       ELSE IF publisher[q].pc \in {"archiving", "setting"} THEN [publisher[q] EXCEPT !.late = TRUE]
       ELSE publisher[q]]
  /\ UNCHANGED <<cache, loader, newest>>

\* A transaction that fails, as one of two that wait for each other does, leaves nothing.
FailPublish(p) ==
  /\ publisher[p].pc \in {"archiving", "setting"}
  /\ publisher' = [publisher EXCEPT ![p] = NoRequest]
  /\ UNCHANGED <<status, published, cache, loader, newest, overlapped>>

-----------------------------------------------------------------------------
(* The copies: refreshSettings and refreshRuntimeSettings *)

\* One reading of a copy at a time: who comes meanwhile waits for its result.  Faulty
\* variant: everybody reads.
NeverLoading(k) == FALSE
Loading(k) == \E l \in Loaders : loader[l] # NoLoad /\ loader[l].cache = k
BeginLoad(l, k) ==
  /\ loader[l] = NoLoad /\ ~cache[k].fresh /\ ~Loading(k)
  /\ loader' = [loader EXCEPT ![l] = [pc |-> "reading", cache |-> k, at |-> 0]]
  /\ UNCHANGED <<status, publisher, published, cache, newest, overlapped>>

Read(l) ==
  /\ loader[l].pc = "reading"
  /\ loader' = [loader EXCEPT ![l].pc = "read", ![l].at = published]
  /\ UNCHANGED <<status, publisher, published, cache, newest, overlapped>>

LargerOf(m, n) == IF m > n THEN m ELSE n
Store(l) ==
  LET k == loader[l].cache IN
  /\ loader[l].pc = "read"
  /\ cache' = [cache EXCEPT ![k] = [at |-> loader[l].at, fresh |-> TRUE]]
  /\ newest' = [newest EXCEPT ![k] = LargerOf(@, loader[l].at)]
  /\ loader' = [loader EXCEPT ![l] = NoLoad]
  /\ UNCHANGED <<status, publisher, published, overlapped>>

\* The site keeps what it had; the print engine takes the defaults, and as loaded.
FailLoad(l) ==
  LET k == loader[l].cache IN
  /\ loader[l].pc = "reading"
  /\ cache' = IF k = "print" THEN [cache EXCEPT ![k] = [at |-> 0, fresh |-> TRUE]] ELSE cache
  /\ loader' = [loader EXCEPT ![l] = NoLoad]
  /\ UNCHANGED <<status, publisher, published, newest, overlapped>>

\* The thirty seconds a reading serves, or the print engine's, pass.
GrowStale(k) ==
  /\ cache[k].fresh /\ cache' = [cache EXCEPT ![k].fresh = FALSE]
  /\ UNCHANGED <<status, publisher, published, loader, newest, overlapped>>

-----------------------------------------------------------------------------

SettingsNext ==
  \/ \E p \in Publishers :
       \/ BeginVersion(p) \/ MakeVersion(p) \/ ArchiveOthers(p) \/ SetPublished(p) \/ FailPublish(p)
       \/ \E v \in Versions : BeginPublish(p, v)
  \/ \E l \in Loaders :
       \/ Read(l) \/ Store(l) \/ FailLoad(l)
       \/ \E k \in Caches : BeginLoad(l, k)
  \/ \E k \in Caches : GrowStale(k)

SettingsSpec == SettingsInit /\ [][SettingsNext]_svars

-----------------------------------------------------------------------------
(* Properties *)

\* Versions, requests and copies have the shape of the schema and the code; versions
\* are numbered without a gap.
SettingsTypeOK ==
  /\ status \in [Versions -> {"none", "DRAFT", "PUBLISHED", "ARCHIVED"}]
  /\ Made = 1 .. Cardinality(Made)
  /\ \A p \in Publishers : publisher[p].pc \in {"away", "making", "archiving", "setting"}
  /\ \A l \in Loaders : loader[l].pc \in {"away", "reading", "read"}
  /\ cache \in [Caches -> [at : 0 .. published, fresh : BOOLEAN]]
  /\ published \in 0 .. MaxPublished + Cardinality(Publishers) /\ overlapped \in BOOLEAN

\* After a publication that none overlapped, one version is live; whatever overlaps and
\* fails, there is a live version once there has been one.
OneVersionLive ==
  /\ overlapped \/ Cardinality(Live) <= 1
  /\ published > 0 => Live # {}

\* A copy never goes back to an older publication; the print engine's falls to the
\* defaults when a reading fails.
SettingsMoveForward ==
  /\ cache["site"].at = newest["site"]
  /\ cache["print"].at \in {0, newest["print"]}
=============================================================================
