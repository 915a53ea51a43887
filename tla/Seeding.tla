-------------------------------- MODULE Seeding --------------------------------
(***************************************************************************)
(* What a process writes before it serves: src/infra/seed/seed.service.    *)
(*                                                                         *)
(* Processes that start together write the same rows, an administrator     *)
(* changes them meanwhile, and a process that stops or fails starts again  *)
(* from the first chore.  Rows that are found and written alike are one    *)
(* row here, as are the configurations, which the settings stand for.      *)
(* Every statement is a step.  The two statements that complete the        *)
(* settings are one transaction, and so are those of an administrator's    *)
(* publication: each sees the versions committed when it starts, and the   *)
(* second of either takes those it found once nobody else holds them.  One *)
(* publication is under way at a time; those that overlap each other are   *)
(* module Settings'.                                                       *)
(***************************************************************************)
EXTENDS Naturals, FiniteSets

CONSTANTS
  Boots,        \* processes that may start
  MaxBoots,     \* bound: starts
  MaxActs,      \* bound: administrators' changes and deployments
  MaxSettings   \* bound: versions of the settings

ASSUME SeedingAssumption ==
  /\ IsFiniteSet(Boots) /\ Boots # {}
  /\ MaxBoots \in Nat /\ MaxActs \in Nat /\ MaxSettings \in Nat \ {0, 1}

\* The chores in their order: roles and their permissions, the administrator of the
\* environment, templates, plans and coupons, the settings, and the samples.
Chores == <<"role", "link", "boss", "bossRole", "template", "offer", "settings",
            "marker?", "student", "marker", "content", "tests", "orders", "pages", "up">>
Place(chore) == CHOOSE i \in DOMAIN Chores : Chores[i] = chore
Following(chore) == Chores[Place(chore) + 1]
Passed(chore) == {Chores[i] : i \in 1 .. Place(chore) - 1}

RoleRows == {"role", "link", "bossRole"}
TemplateRows == {"template"}
OfferRows == {"offer"}
SampleRows == {"content", "tests", "orders", "pages"}
SeedRows == RoleRows \cup TemplateRows \cup OfferRows \cup SampleRows \cup {"student", "marker"}
Editions == 1 .. MaxSettings

VARIABLES
  rows,      \* how many there are of each row
  boss,      \* the type of the user with the administrator's address, and whether blocked
  numbered,  \* the number of the latest version of the settings
  live,      \* those published
  full,      \* those with every key the running code knows
  base,      \* the version each was completed from, 0 for none
  publishing, \* where an administrator's publication is
  boot,      \* where each process is
  acts,      \* changes and deployments so far
  starts,    \* starts so far
  torn,      \* history: a process stopped within the samples
  together,  \* history: two processes went into the samples
  mine,      \* history: the version an administrator published last, 0 for none
  undone     \* history: a process added a version between the looks and the writes of a
             \* publication, or a publication came between its own

evars == <<rows, boss, numbered, live, full, base, publishing, boot, acts, starts, torn, together,
           mine, undone>>
settingsVars == <<numbered, live, full, base, publishing, mine, undone>>
tally == <<acts, starts, torn, together>>

Down == [pc |-> "down", chore |-> "role", found |-> 0, others |-> {}, changed |-> {}]
NoPublication == [pc |-> "none", it |-> 0, others |-> {}, late |-> FALSE]
Booting == {b \in Boots : boot[b] # Down}
\* The version has every key of the running code.
Complete(v) == v \in full
Served == IF live = {} THEN 0 ELSE CHOOSE v \in live : \A w \in live : w <= v

\* An empty database, or one that earlier releases and administrators have filled.
SeedingInit ==
  /\ \/ /\ rows = [r \in SeedRows |-> 0] /\ boss \in [type : {"none", "STUDENT"}, blocked : {FALSE}]
        /\ numbered = 0 /\ live = {} /\ full = {}
     \/ /\ rows = [r \in SeedRows |-> 1] /\ boss \in [type : {"ADMIN"}, blocked : BOOLEAN]
        /\ numbered \in 1 .. 2 /\ live = {numbered} \cap {2} /\ full \in SUBSET {1}
  /\ base = [v \in {0} \cup Editions |-> 0]
  /\ mine = Served /\ publishing = NoPublication
  /\ boot = [b \in Boots |-> Down]
  /\ acts = 0 /\ starts = 0
  /\ torn = FALSE /\ together = FALSE /\ undone = FALSE

-----------------------------------------------------------------------------
(* A start, its end, and what all the chores share *)

StartBoot(b) ==
  /\ boot[b] = Down /\ starts < MaxBoots /\ starts' = starts + 1
  /\ boot' = [boot EXCEPT ![b].pc = "at"]
  /\ UNCHANGED <<rows, boss, settingsVars, acts, torn, together>>

InSamples(b) == boot[b].chore \in SampleRows
AtChore(b, chore) == boot[b].pc = "at" /\ boot[b].chore = chore
To(b, pc, found) == boot' = [boot EXCEPT ![b].pc = pc, ![b].found = found]
NextChore(b) ==
  boot' = [boot EXCEPT ![b].pc = "at", ![b].chore = Following(@), ![b].found = 0, ![b].others = {}]
\* A chore that throws ends the process.
Leave(b) == boot' = [boot EXCEPT ![b] = Down] /\ torn' = (torn \/ InSamples(b))

\* The process is stopped.
StopBoot(b) ==
  /\ boot[b] # Down /\ Leave(b)
  /\ UNCHANGED <<rows, boss, settingsVars, acts, starts, together>>

-----------------------------------------------------------------------------
(* Rows written by one statement: an upsert, or an insert that skips what is there *)

Ensure(b, r) ==
  /\ AtChore(b, r) /\ NextChore(b)
  /\ rows' = [rows EXCEPT ![r] = 1]
  /\ UNCHANGED <<boss, settingsVars, tally>>
UpsertRoles(b) == Ensure(b, "role")
LinkPermissions(b) == Ensure(b, "link")
GiveBossRole(b) == Ensure(b, "bossRole")

-----------------------------------------------------------------------------
(* Rows looked for and then created *)

\* What is there is left alone.
Look(b, r) ==
  /\ AtChore(b, r) /\ r \in SeedRows
  /\ IF rows[r] = 0 THEN To(b, "creating", 0) ELSE NextChore(b)
  /\ UNCHANGED <<rows, boss, settingsVars, tally>>

Creating(b, r) == boot[b].pc = "creating" /\ boot[b].chore = r
\* With no unique column the row is created again.
CreateAgain(b, r) ==
  /\ Creating(b, r) /\ NextChore(b)
  /\ rows' = [rows EXCEPT ![r] = @ + 1]
  /\ UNCHANGED <<boss, settingsVars, tally>>
\* With one, who comes second fails.
CreateOnce(b, r) ==
  /\ Creating(b, r)
  /\ IF rows[r] = 0
       THEN NextChore(b) /\ rows' = [rows EXCEPT ![r] = 1] /\ UNCHANGED torn
       ELSE Leave(b) /\ UNCHANGED rows
  /\ UNCHANGED <<boss, settingsVars, acts, starts, together>>

\* Missing templates are created, skipping what is there.
CreateTemplates(b) ==
  /\ Creating(b, "template") /\ NextChore(b)
  /\ rows' = [rows EXCEPT !["template"] = 1]
  /\ UNCHANGED <<boss, settingsVars, tally>>
CreateOffers(b) == CreateOnce(b, "offer")

-----------------------------------------------------------------------------
(* The administrator of the environment *)

LookForBoss(b) ==
  /\ AtChore(b, "boss")
  /\ CASE boss.type = "none" -> To(b, "creating", 0)
       [] boss.type = "STUDENT" -> To(b, "promoting", 0)
       [] boss.type = "ADMIN" -> NextChore(b)
  /\ UNCHANGED <<rows, boss, settingsVars, tally>>

\* Another process may have created the address.
CreateBoss(b) ==
  /\ Creating(b, "boss")
  /\ IF boss.type = "none"
       THEN NextChore(b) /\ boss' = [type |-> "ADMIN", blocked |-> FALSE] /\ UNCHANGED torn
       ELSE Leave(b) /\ UNCHANGED boss
  /\ UNCHANGED <<rows, settingsVars, acts, starts, together>>

PromoteBoss(b) ==
  /\ boot[b].pc = "promoting" /\ NextChore(b)
  /\ boss' = [type |-> "ADMIN", blocked |-> FALSE]
  /\ UNCHANGED <<rows, settingsVars, tally>>

-----------------------------------------------------------------------------
(* The settings: ensurePublishedSiteSettingsConfig *)

LookForSettings(b) ==
  /\ AtChore(b, "settings")
  /\ CASE live = {} -> To(b, "published?", 0)
       [] live # {} /\ Complete(Served) -> NextChore(b)
       [] OTHER -> To(b, "completing", Served)
  /\ UNCHANGED <<rows, boss, settingsVars, tally>>

\* ensurePublishedAppConfig asks again, then for the latest version.
LookForPublished(b) ==
  /\ boot[b].pc = "published?"
  /\ IF live = {} THEN To(b, "latest?", 0) ELSE NextChore(b)
  /\ UNCHANGED <<rows, boss, settingsVars, tally>>
LookForLatest(b) ==
  /\ boot[b].pc = "latest?" /\ To(b, "first", numbered)
  /\ UNCHANGED <<rows, boss, settingsVars, tally>>

\* The version after the one read, published beside those left; a version of this number
\* fails it.
AddVersion(b, left) ==
  LET v == boot[b].found + 1 IN
  /\ v \in Editions
  /\ IF numbered = boot[b].found
       THEN /\ numbered' = v /\ live' = left \cup {v} /\ full' = full \cup {v}
            /\ publishing' = IF publishing.pc = "none" THEN publishing
                             ELSE [publishing EXCEPT !.late = TRUE]
            /\ NextChore(b) /\ UNCHANGED torn
       ELSE Leave(b) /\ UNCHANGED <<numbered, live, full, publishing>>
  /\ UNCHANGED mine
CreateSettings(b) ==
  /\ boot[b].pc = "first" /\ AddVersion(b, live)
  /\ undone' = (undone \/ (numbered' # numbered /\ live # {}))
  /\ UNCHANGED <<rows, boss, base, acts, starts, together>>

\* The rows of a transaction past its first statement.
RowsOf(b) == IF boot[b].pc = "adding" THEN boot[b].others ELSE {}
RowsOfPublication == IF publishing.pc = "setting" THEN publishing.others ELSE {}
FreeRows(found) == found \cap RowsOfPublication = {} /\ \A b \in Boots : found \cap RowsOf(b) = {}

\* The published versions but the one read are archived: those it finds, once they are
\* free, if they are still published.
FindOthers(b) ==
  /\ boot[b].pc = "completing"
  /\ boot' = [boot EXCEPT ![b].pc = "archiving", ![b].others = live \ {boot[b].found}]
  /\ UNCHANGED <<rows, boss, settingsVars, tally>>
TakeOthers(b) ==
  /\ boot[b].pc = "archiving" /\ FreeRows(boot[b].others)
  /\ boot' = [boot EXCEPT ![b].pc = "adding", ![b].others = @ \cap live]
  /\ UNCHANGED <<rows, boss, settingsVars, tally>>

\* The version read, with the keys it lacks, is created as the next, and all is committed.
StillLive(b) == live \ boot[b].others
CompleteSettings(b) ==
  LET v == boot[b].found IN
  /\ boot[b].pc = "adding" /\ AddVersion(b, StillLive(b))
  /\ base' = IF numbered' # numbered THEN [base EXCEPT ![numbered'] = v] ELSE base
  /\ undone' = (undone \/ (numbered' # numbered /\ Served # v))
  /\ UNCHANGED <<rows, boss, acts, starts, together>>

-----------------------------------------------------------------------------
(* The samples, once their marker is not found *)

LookForMarker(b) ==
  /\ AtChore(b, "marker?")
  /\ IF rows["marker"] = 0
       THEN NextChore(b)
       ELSE boot' = [boot EXCEPT ![b].chore = "up", ![b].found = 0]
  /\ UNCHANGED <<rows, boss, settingsVars, tally>>

CreateStudent(b) == CreateOnce(b, "student")

\* The subjects are upserted first, and one of them is the marker.
Mark(b) ==
  /\ AtChore(b, "marker") /\ NextChore(b)
  /\ rows' = [rows EXCEPT !["marker"] = 1]
  /\ together' = (together \/ rows["marker"] = 1)
  /\ UNCHANGED <<boss, settingsVars, acts, starts, torn>>

CreateContent(b) == CreateAgain(b, "content")
CreateTests(b) == CreateAgain(b, "tests")
CreateOrders(b) == CreateOnce(b, "orders")
CreatePages(b) == CreateOnce(b, "pages")

-----------------------------------------------------------------------------
(* Administrators, and a deployment *)

AnotherAct == acts < MaxActs /\ acts' = acts + 1
Noticed(what) ==
  boot' = [b \in Boots |-> IF boot[b] = Down THEN Down
                           ELSE [boot[b] EXCEPT !.changed = @ \cup {what}]]
Act(what) == AnotherAct /\ Noticed(what)

RemoveRow(r) ==
  /\ r \in {"bossRole", "template", "offer"} /\ rows[r] = 1
  /\ Act(r) /\ rows' = [rows EXCEPT ![r] = 0]
  /\ UNCHANGED <<boss, settingsVars, starts, torn, together>>
DemoteBoss ==
  /\ boss.type = "ADMIN" /\ Act("boss") /\ boss' = [boss EXCEPT !.type = "STUDENT"]
  /\ UNCHANGED <<rows, settingsVars, starts, torn, together>>
BlockBoss ==
  /\ boss.type = "ADMIN" /\ ~boss.blocked /\ Act("blocked")
  /\ boss' = [boss EXCEPT !.blocked = TRUE]
  /\ UNCHANGED <<rows, settingsVars, starts, torn, together>>

DraftSettings(whole) ==
  /\ numbered < MaxSettings /\ Act("draft") /\ numbered' = numbered + 1
  /\ full' = IF whole THEN full \cup {numbered'} ELSE full
  /\ UNCHANGED <<rows, boss, live, base, publishing, mine, undone, starts, torn, together>>

\* The publication's first statement, and then its second with the commit.
BeginPublication(v) ==
  /\ publishing.pc = "none" /\ v \in 1 .. numbered /\ AnotherAct
  /\ publishing' = [pc |-> "archiving", it |-> v, others |-> live \ {v}, late |-> FALSE]
  /\ UNCHANGED <<rows, boss, numbered, live, full, base, boot, mine, undone, starts, torn,
                 together>>
ArchivePublished ==
  /\ publishing.pc = "archiving" /\ FreeRows(publishing.others)
  /\ publishing' = [publishing EXCEPT !.pc = "setting", !.others = @ \cap live]
  /\ UNCHANGED <<rows, boss, numbered, live, full, base, boot, mine, undone, tally>>
PublishSettings ==
  LET v == publishing.it IN
  /\ publishing.pc = "setting" /\ \A b \in Boots : v \notin RowsOf(b)
  /\ live' = (live \ publishing.others) \cup {v}
  /\ mine' = v /\ undone' = publishing.late
  /\ publishing' = NoPublication /\ Noticed("settings")
  /\ UNCHANGED <<rows, boss, numbered, full, base, tally>>
FailPublication ==
  /\ publishing.pc # "none" /\ publishing' = NoPublication
  /\ UNCHANGED <<rows, boss, numbered, live, full, base, boot, mine, undone, tally>>

\* Code that knows more keys replaces the code that runs.
Deploy ==
  /\ \A b \in Booting : boot[b].chore = "up"
  /\ full # {} /\ full' = {}
  /\ acts < MaxActs /\ acts' = acts + 1
  /\ boot' = [b \in Boots |-> Down]
  /\ UNCHANGED <<rows, boss, numbered, live, base, publishing, mine, undone, starts, torn,
                 together>>

-----------------------------------------------------------------------------

SeedingNext ==
  \/ \E b \in Boots :
       \/ StartBoot(b) \/ StopBoot(b)
       \/ UpsertRoles(b) \/ LinkPermissions(b) \/ GiveBossRole(b)
       \/ \E r \in {"template", "offer", "student"} \cup SampleRows : Look(b, r)
       \/ CreateTemplates(b) \/ CreateOffers(b)
       \/ LookForBoss(b) \/ CreateBoss(b) \/ PromoteBoss(b)
       \/ LookForSettings(b) \/ LookForPublished(b) \/ LookForLatest(b)
       \/ CreateSettings(b) \/ FindOthers(b) \/ TakeOthers(b) \/ CompleteSettings(b)
       \/ LookForMarker(b) \/ CreateStudent(b) \/ Mark(b)
       \/ CreateContent(b) \/ CreateTests(b) \/ CreateOrders(b) \/ CreatePages(b)
  \/ \E r \in SeedRows : RemoveRow(r)
  \/ DemoteBoss \/ BlockBoss
  \/ \E whole \in BOOLEAN : DraftSettings(whole)
  \/ \E v \in Editions : BeginPublication(v)
  \/ ArchivePublished \/ PublishSettings \/ FailPublication
  \/ Deploy

SeedingSpec == SeedingInit /\ [][SeedingNext]_evars

-----------------------------------------------------------------------------
(* Properties *)

\* Rows, processes and versions have the shape of the code; only samples without a
\* unique column are ever there twice.
SeedingTypeOK ==
  /\ rows \in [SeedRows -> 0 .. Cardinality(Boots)]
  /\ \A r \in SeedRows \ {"content", "tests"} : rows[r] <= 1
  /\ boss \in [type : {"none", "STUDENT", "ADMIN"}, blocked : BOOLEAN]
  /\ live \subseteq 1 .. numbered /\ full \subseteq 1 .. numbered /\ numbered \in 0 .. MaxSettings
  /\ base[0] = 0 /\ \A v \in Editions : base[v] < v
  /\ \A b \in Boots :
       /\ boot[b].pc \in {"down", "at", "creating", "promoting", "published?", "latest?",
                          "first", "completing", "archiving", "adding"}
       /\ boot[b].chore \in {Chores[i] : i \in DOMAIN Chores}
       /\ boot[b].found \in 0 .. numbered /\ boot[b].others \subseteq Editions
  /\ publishing.pc \in {"none", "archiving", "setting"} /\ publishing.others \subseteq Editions
  /\ publishing.pc # "none" => publishing.it \in 1 .. numbered

\* Whatever other processes do and wherever earlier ones stopped, what a process has
\* passed is there: rows, an administrator and his role, settings with every key; but for
\* what administrators changed since it started.
BootLeavesAll ==
  \A b \in Booting :
    LET due == Passed(boot[b].chore) \ boot[b].changed IN
    /\ \A r \in due \cap (RoleRows \cup TemplateRows \cup OfferRows) : rows[r] = 1
    /\ "boss" \in due => boss.type = "ADMIN"
    /\ "settings" \in due => Complete(Served)

\* The samples are each there once, unless two processes went in together or one stopped
\* in them: its marker keeps every later one out.
SamplesWhole ==
  /\ together \/ \A r \in SampleRows : rows[r] <= 1
  /\ \/ torn \/ rows["marker"] = 0
     \/ \E b \in Booting : InSamples(b)
     \/ \A r \in SampleRows : rows[r] >= 1

\* Version w is v, or what v was completed from, or what that was completed from...: it is in
\* every set that has v and, with a version, what it was completed from.
Derives(v, w) ==
  \A C \in SUBSET Editions : v \in C /\ (\A x \in C : base[x] \in C \cup {0}) => w \in C

\* What is served derives from what an administrator published last, and the only other
\* version still published is the one it was completed from; unless a process added its
\* version while a publication was under way, or had looked before the publication.
CompletedFromMine ==
  undone \/
    /\ mine # 0 => Derives(Served, mine)
    /\ live \subseteq {Served, base[Served]}
=============================================================================
