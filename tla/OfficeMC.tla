------------------------------- MODULE OfficeMC -------------------------------
(***************************************************************************)
(* The components an administrator or a student reaches one request at a   *)
(* time, on small instances.  They share no row in what is modelled, so    *)
(* that every behaviour follows one of them and the others are switched    *)
(* off; a property is a conjunction over the components it speaks of.      *)
(***************************************************************************)
EXTENDS Refunds, ManualGrants, NoteViews, OneTimeCodes, AdminRoles, ContentTree,
        AssetUse, PlanCatalog, Settings, Practice, Seeding, DailyStats,
        ProviderCalls, Rendering, Terms, TLC

CONSTANTS
  First, Second, Third,  \* interchangeable members of the sets below: sets of different
                         \* components have the same members, which never occur in one state
  Off                    \* the value of a variable that is switched off

MCInputs == {Days(7), Days(LifetimeDays), Lasting("MONTHS", 1), Lasting("LIFETIME", Nothing)}

\* Questions answered right or wrong, or passed over with a verdict, which counts nothing.
MCItems == [question : Drills, type : {"ANSWERED"}, verdict : {"right", "wrong"}]
             \cup [question : Drills, type : {"SKIPPED"}, verdict : {"right"}]

OfficeSymmetry == Permutations(First) \cup Permutations(Second) \cup Permutations(Third)

VARIABLE part  \* the component this behaviour follows
vars == <<part, rvars, gvars, nvars, ovars, arvars, cvars, uvars, kvars, svars, pvars, evars,
          dvars, hvars, qvars, tvars>>

RefundsOff ==
  /\ paidOrder = Off /\ refreshes = Off /\ asked = Off /\ outcome = Off /\ initiated = Off
  /\ latest = Off /\ clerk = Off /\ requests = Off /\ misses = Off /\ unsure = Off
ManualGrantsOff ==
  /\ grantOrder = Off /\ grantSub = Off /\ grantRight = Off /\ desk = Off
  /\ replacing = Off /\ faults = Off /\ spoiled = Off
NoteViewsOff ==
  /\ shown = Off /\ entitled = Off /\ banned = Off /\ view = Off /\ logged = Off
  /\ visit = Off /\ read = Off /\ raced = Off
OneTimeCodesOff ==
  /\ purpose = Off /\ account = Off /\ codes = Off /\ token = Off /\ asker = Off
  /\ spender = Off /\ yields = Off /\ resets = Off /\ crowded = Off /\ shared = Off
  /\ hurried = Off
AdminRolesOff ==
  /\ type = Off /\ roles = Off /\ made = Off /\ edit = Off /\ editsLeft = Off
  /\ fallen = Off /\ bare = Off
ContentTreeOff ==
  /\ subjects = Off /\ topic = Off /\ question = Off /\ editor = Off /\ calls = Off
  /\ crossed = Off /\ unplaced = Off /\ late = Off /\ bereft = Off
AssetUseOff ==
  /\ asset = Off /\ content = Off /\ public = Off /\ refs = Off /\ writer = Off
  /\ student = Off /\ writes = Off /\ astray = Off
PlanCatalogOff ==
  /\ plan = Off /\ coupons = Off /\ order = Off /\ seller = Off /\ editions = Off
  /\ overwrote = Off /\ slipped = Off /\ bared = Off
SettingsOff ==
  /\ status = Off /\ publisher = Off /\ published = Off /\ cache = Off /\ loader = Off
  /\ newest = Off /\ overlapped = Off
PracticeOff ==
  /\ session = Off /\ served = Off /\ themeOf = Off /\ seeded = Off /\ events = Off
  /\ counts = Off /\ request = Off /\ requested = Off /\ changes = Off /\ shuffled = Off
SeedingOff ==
  /\ rows = Off /\ boss = Off /\ numbered = Off /\ live = Off /\ full = Off /\ base = Off
  /\ publishing = Off
  /\ boot = Off /\ acts = Off /\ starts = Off /\ torn = Off /\ together = Off
  /\ mine = Off /\ undone = Off
DailyStatsOff ==
  /\ today = Off /\ sale = Off /\ readOn = Off /\ stats = Off /\ rollup = Off /\ ran = Off
  /\ readers = Off /\ refunded = Off /\ early = Off
ProviderCallsOff ==
  /\ issued = Off /\ accepted = Off /\ elapsed = Off /\ cached = Off /\ calling = Off
  /\ performed = Off /\ dropped = Off
RenderingOff ==
  /\ present = Off /\ auto = Off /\ promise = Off /\ installs = Off /\ render = Off
  /\ troubles = Off /\ seen = Off /\ failures = Off
TermsOff ==
  /\ clock = Off /\ subscription = Off /\ term = Off /\ rights = Off /\ buying = Off
  /\ expiry = Off /\ mishaps = Off /\ span = Off /\ blind = Off /\ halved = Off

Init ==
  \/ /\ part = "refunds" /\ RefundsInit
     /\ ManualGrantsOff /\ NoteViewsOff /\ OneTimeCodesOff /\ AdminRolesOff
     /\ ContentTreeOff /\ AssetUseOff /\ PlanCatalogOff /\ SettingsOff /\ PracticeOff
     /\ SeedingOff /\ DailyStatsOff /\ ProviderCallsOff /\ RenderingOff /\ TermsOff
  \/ /\ part = "grants" /\ ManualGrantsInit
     /\ RefundsOff /\ NoteViewsOff /\ OneTimeCodesOff /\ AdminRolesOff /\ ContentTreeOff
     /\ AssetUseOff /\ PlanCatalogOff /\ SettingsOff /\ PracticeOff /\ SeedingOff
     /\ DailyStatsOff /\ ProviderCallsOff /\ RenderingOff /\ TermsOff
  \/ /\ part = "views" /\ NoteViewsInit
     /\ RefundsOff /\ ManualGrantsOff /\ OneTimeCodesOff /\ AdminRolesOff
     /\ ContentTreeOff /\ AssetUseOff /\ PlanCatalogOff /\ SettingsOff /\ PracticeOff
     /\ SeedingOff /\ DailyStatsOff /\ ProviderCallsOff /\ RenderingOff /\ TermsOff
  \/ /\ part = "codes" /\ OneTimeCodesInit
     /\ RefundsOff /\ ManualGrantsOff /\ NoteViewsOff /\ AdminRolesOff /\ ContentTreeOff
     /\ AssetUseOff /\ PlanCatalogOff /\ SettingsOff /\ PracticeOff /\ SeedingOff
     /\ DailyStatsOff /\ ProviderCallsOff /\ RenderingOff /\ TermsOff
  \/ /\ part = "roles" /\ AdminRolesInit
     /\ RefundsOff /\ ManualGrantsOff /\ NoteViewsOff /\ OneTimeCodesOff /\ ContentTreeOff
     /\ AssetUseOff /\ PlanCatalogOff /\ SettingsOff /\ PracticeOff /\ SeedingOff
     /\ DailyStatsOff /\ ProviderCallsOff /\ RenderingOff /\ TermsOff
  \/ /\ part = "tree" /\ ContentTreeInit
     /\ RefundsOff /\ ManualGrantsOff /\ NoteViewsOff /\ OneTimeCodesOff /\ AdminRolesOff
     /\ AssetUseOff /\ PlanCatalogOff /\ SettingsOff /\ PracticeOff /\ SeedingOff
     /\ DailyStatsOff /\ ProviderCallsOff /\ RenderingOff /\ TermsOff
  \/ /\ part = "assets" /\ AssetUseInit
     /\ RefundsOff /\ ManualGrantsOff /\ NoteViewsOff /\ OneTimeCodesOff /\ AdminRolesOff
     /\ ContentTreeOff /\ PlanCatalogOff /\ SettingsOff /\ PracticeOff /\ SeedingOff
     /\ DailyStatsOff /\ ProviderCallsOff /\ RenderingOff /\ TermsOff
  \/ /\ part = "catalog" /\ PlanCatalogInit
     /\ RefundsOff /\ ManualGrantsOff /\ NoteViewsOff /\ OneTimeCodesOff /\ AdminRolesOff
     /\ ContentTreeOff /\ AssetUseOff /\ SettingsOff /\ PracticeOff /\ SeedingOff
     /\ DailyStatsOff /\ ProviderCallsOff /\ RenderingOff /\ TermsOff
  \/ /\ part = "settings" /\ SettingsInit
     /\ RefundsOff /\ ManualGrantsOff /\ NoteViewsOff /\ OneTimeCodesOff /\ AdminRolesOff
     /\ ContentTreeOff /\ AssetUseOff /\ PlanCatalogOff /\ PracticeOff /\ SeedingOff
     /\ DailyStatsOff /\ ProviderCallsOff /\ RenderingOff /\ TermsOff
  \/ /\ part = "practice" /\ PracticeInit
     /\ RefundsOff /\ ManualGrantsOff /\ NoteViewsOff /\ OneTimeCodesOff /\ AdminRolesOff
     /\ ContentTreeOff /\ AssetUseOff /\ PlanCatalogOff /\ SettingsOff /\ SeedingOff
     /\ DailyStatsOff /\ ProviderCallsOff /\ RenderingOff /\ TermsOff
  \/ /\ part = "seeding" /\ SeedingInit
     /\ RefundsOff /\ ManualGrantsOff /\ NoteViewsOff /\ OneTimeCodesOff /\ AdminRolesOff
     /\ ContentTreeOff /\ AssetUseOff /\ PlanCatalogOff /\ SettingsOff /\ PracticeOff
     /\ DailyStatsOff /\ ProviderCallsOff /\ RenderingOff /\ TermsOff
  \/ /\ part = "stats" /\ DailyStatsInit
     /\ RefundsOff /\ ManualGrantsOff /\ NoteViewsOff /\ OneTimeCodesOff /\ AdminRolesOff
     /\ ContentTreeOff /\ AssetUseOff /\ PlanCatalogOff /\ SettingsOff /\ PracticeOff
     /\ SeedingOff /\ ProviderCallsOff /\ RenderingOff /\ TermsOff
  \/ /\ part = "calls" /\ ProviderCallsInit
     /\ RefundsOff /\ ManualGrantsOff /\ NoteViewsOff /\ OneTimeCodesOff /\ AdminRolesOff
     /\ ContentTreeOff /\ AssetUseOff /\ PlanCatalogOff /\ SettingsOff /\ PracticeOff
     /\ SeedingOff /\ DailyStatsOff /\ RenderingOff /\ TermsOff
  \/ /\ part = "rendering" /\ RenderingInit
     /\ RefundsOff /\ ManualGrantsOff /\ NoteViewsOff /\ OneTimeCodesOff /\ AdminRolesOff
     /\ ContentTreeOff /\ AssetUseOff /\ PlanCatalogOff /\ SettingsOff /\ PracticeOff
     /\ SeedingOff /\ DailyStatsOff /\ ProviderCallsOff /\ TermsOff
  \/ /\ part = "terms" /\ TermsInit
     /\ RefundsOff /\ ManualGrantsOff /\ NoteViewsOff /\ OneTimeCodesOff /\ AdminRolesOff
     /\ ContentTreeOff /\ AssetUseOff /\ PlanCatalogOff /\ SettingsOff /\ PracticeOff
     /\ SeedingOff /\ DailyStatsOff /\ ProviderCallsOff /\ RenderingOff

InRefunds(A) ==
  /\ part = "refunds" /\ A
  /\ UNCHANGED <<part, gvars, nvars, ovars, arvars, cvars, uvars, kvars, svars, pvars, evars,
                 dvars, hvars, qvars, tvars>>
InManualGrants(A) ==
  /\ part = "grants" /\ A
  /\ UNCHANGED <<part, rvars, nvars, ovars, arvars, cvars, uvars, kvars, svars, pvars, evars,
                 dvars, hvars, qvars, tvars>>
InNoteViews(A) ==
  /\ part = "views" /\ A
  /\ UNCHANGED <<part, rvars, gvars, ovars, arvars, cvars, uvars, kvars, svars, pvars, evars,
                 dvars, hvars, qvars, tvars>>
InOneTimeCodes(A) ==
  /\ part = "codes" /\ A
  /\ UNCHANGED <<part, rvars, gvars, nvars, arvars, cvars, uvars, kvars, svars, pvars, evars,
                 dvars, hvars, qvars, tvars>>
InAdminRoles(A) ==
  /\ part = "roles" /\ A
  /\ UNCHANGED <<part, rvars, gvars, nvars, ovars, cvars, uvars, kvars, svars, pvars, evars,
                 dvars, hvars, qvars, tvars>>
InContentTree(A) ==
  /\ part = "tree" /\ A
  /\ UNCHANGED <<part, rvars, gvars, nvars, ovars, arvars, uvars, kvars, svars, pvars, evars,
                 dvars, hvars, qvars, tvars>>
InAssetUse(A) ==
  /\ part = "assets" /\ A
  /\ UNCHANGED <<part, rvars, gvars, nvars, ovars, arvars, cvars, kvars, svars, pvars, evars,
                 dvars, hvars, qvars, tvars>>
InPlanCatalog(A) ==
  /\ part = "catalog" /\ A
  /\ UNCHANGED <<part, rvars, gvars, nvars, ovars, arvars, cvars, uvars, svars, pvars, evars,
                 dvars, hvars, qvars, tvars>>
InSettings(A) ==
  /\ part = "settings" /\ A
  /\ UNCHANGED <<part, rvars, gvars, nvars, ovars, arvars, cvars, uvars, kvars, pvars, evars,
                 dvars, hvars, qvars, tvars>>
InPractice(A) ==
  /\ part = "practice" /\ A
  /\ UNCHANGED <<part, rvars, gvars, nvars, ovars, arvars, cvars, uvars, kvars, svars, evars,
                 dvars, hvars, qvars, tvars>>
InSeeding(A) ==
  /\ part = "seeding" /\ A
  /\ UNCHANGED <<part, rvars, gvars, nvars, ovars, arvars, cvars, uvars, kvars, svars, pvars,
                 dvars, hvars, qvars, tvars>>
InDailyStats(A) ==
  /\ part = "stats" /\ A
  /\ UNCHANGED <<part, rvars, gvars, nvars, ovars, arvars, cvars, uvars, kvars, svars, pvars,
                 evars, hvars, qvars, tvars>>
InProviderCalls(A) ==
  /\ part = "calls" /\ A
  /\ UNCHANGED <<part, rvars, gvars, nvars, ovars, arvars, cvars, uvars, kvars, svars, pvars,
                 evars, dvars, qvars, tvars>>
InRendering(A) ==
  /\ part = "rendering" /\ A
  /\ UNCHANGED <<part, rvars, gvars, nvars, ovars, arvars, cvars, uvars, kvars, svars, pvars,
                 evars, dvars, hvars, tvars>>
InTerms(A) ==
  /\ part = "terms" /\ A
  /\ UNCHANGED <<part, rvars, gvars, nvars, ovars, arvars, cvars, uvars, kvars, svars, pvars,
                 evars, dvars, hvars, qvars>>

Next ==
  \/ InRefunds(RefundsNext)
  \/ InManualGrants(ManualGrantsNext)
  \/ InNoteViews(NoteViewsNext)
  \/ InOneTimeCodes(OneTimeCodesNext)
  \/ InAdminRoles(AdminRolesNext)
  \/ InContentTree(ContentTreeNext)
  \/ InAssetUse(AssetUseNext)
  \/ InPlanCatalog(PlanCatalogNext)
  \/ InSettings(SettingsNext)
  \/ InPractice(PracticeNext)
  \/ InSeeding(SeedingNext)
  \/ InDailyStats(DailyStatsNext)
  \/ InProviderCalls(ProviderCallsNext)
  \/ InRendering(RenderingNext)
  \/ InTerms(TermsNext)

Spec == Init /\ [][Next]_vars

\* The rows and requests of every component keep their shape.
OfficeTypeOK ==
  /\ part = "refunds" => RefundsTypeOK
  /\ part = "grants" => ManualGrantsTypeOK
  /\ part = "views" => NoteViewsTypeOK
  /\ part = "codes" => OneTimeCodesTypeOK
  /\ part = "roles" => AdminRolesTypeOK
  /\ part = "tree" => ContentTreeTypeOK
  /\ part = "assets" => AssetUseTypeOK
  /\ part = "catalog" => PlanCatalogTypeOK
  /\ part = "settings" => SettingsTypeOK
  /\ part = "practice" => PracticeTypeOK
  /\ part = "seeding" => SeedingTypeOK
  /\ part = "stats" => DailyStatsTypeOK
  /\ part = "calls" => ProviderCallsTypeOK
  /\ part = "rendering" => RenderingTypeOK
  /\ part = "terms" => TermsTypeOK

\* What is written twice agrees: the events of an order's refunds and its amount, a manual
\* order and its subscription, the two forms of a plan's validity, an order and its plan,
\* the counters of a student's practice and the answers recorded, a day's statistics and
\* what happened on it; and a student who buys twice has the days of both purchases, each
\* with its entitlements.
BooksAgree ==
  /\ part = "refunds" => RefundsAddUp
  /\ part = "grants" => ManualOrderTells
  /\ part = "catalog" => ValidityAgrees /\ OrdersKeepTheirPlan
  /\ part = "practice" => CountersTellAnswers
  /\ part = "stats" => RevenueOfOrders /\ ReadersCounted
  /\ part = "terms" => DaysAddUp /\ RightsFollowTerms

\* Requests that count and then create stay within what overlapping ones explain, a code
\* or a token is spent once, and no note is read after what has ended it is seen; a call of
\* the provider is sent again, and a rendering tried again, as often as it should be.
LimitsHold ==
  /\ part = "views" => ViewsWithinLimit /\ NothingReadTooLate
  /\ part = "codes" => SpentOnce /\ CodesWithinLimit
  /\ part = "calls" => PerformedOnce /\ RefusedOnlyWhenDropped
  /\ part = "rendering" => OneInstallation /\ GivesUpForCause

\* Content that refers to other content keeps doing so: topics form a tree, questions lie
\* where their topic lies, nothing used is deleted, the references of assets are those of
\* the content, one version of the settings is live and only moves forward, and a process
\* that starts leaves what it is to write and keeps what an administrator published.
ContentHoldsTogether ==
  /\ part = "tree" => TopicsAcyclic /\ QuestionTopicInSubject /\ NothingUsedIsTaken
  /\ part = "assets" => AssetsReferenced /\ OpenedThroughUse
  /\ part = "settings" => OneVersionLive /\ SettingsMoveForward
  /\ part = "seeding" => BootLeavesAll /\ SamplesWhole /\ CompletedFromMine

\* A super administrator remains and administrators hold roles, but for the changes the
\* code lets through.
AdminsRemain == part = "roles" => SuperAdminRemains /\ AdminsHaveRoles
=============================================================================
