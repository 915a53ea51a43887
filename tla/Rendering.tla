------------------------------- MODULE Rendering -------------------------------
(***************************************************************************)
(* From a job's page to its paper: renderPdf, tryRenderPdfWithRecovery and *)
(* ensurePlaywrightChromium of src/modules/print-engine's service.         *)
(*                                                                         *)
(* Renderings of one process share a browser executable on the disk, which *)
(* the process installs when it is missing.  A rendering tries three ways  *)
(* in turn, the last without images, and in each installs the browser once *)
(* more when it cannot be launched.                                        *)
(***************************************************************************)
EXTENDS Naturals, FiniteSets

CONSTANTS
  Papers,       \* renderings
  MaxTroubles   \* bound: launches that fail and disappearances of the executable

ASSUME RenderingAssumption == MaxTroubles \in Nat

VARIABLES
  present,     \* external: the executable is on the disk
  auto,        \* autoInstallPlaywrightChromium
  promise,     \* playwrightInstallPromise is set
  installs,    \* external: installations that run
  render,      \* where each rendering is
  troubles,    \* troubles so far
  seen,        \* history: troubles since each rendering began
  failures     \* history: printings that failed of each rendering

qvars == <<present, auto, promise, installs, render, troubles, seen, failures>>

\* The way it tries, whether it has recovered in it, and what it waits for.
NewRender == [pc |-> "new", way |-> 1, again |-> FALSE]
Ended == {"paper", "bare", "absent", "unlaunched", "uninstalled", "unfit", "unprinted"}

RenderingInit ==
  /\ present \in BOOLEAN /\ auto \in BOOLEAN
  /\ promise = FALSE /\ installs = 0
  /\ render = [r \in Papers |-> NewRender]
  /\ troubles = 0
  /\ seen = [r \in Papers |-> 0] /\ failures = [r \in Papers |-> 0]

\* installPlaywrightChromium: one installation, which whoever comes meanwhile waits for.
Install(r, pc) ==
  /\ render' = [render EXCEPT ![r].pc = pc, ![r].again = (pc = "reinstalling" \/ @)]
  /\ installs' = IF promise THEN installs ELSE installs + 1
  /\ promise' = TRUE

\* ensurePlaywrightChromium.
EnsureBrowser(r) ==
  /\ render[r].pc \in {"new", "reinstalled"}
  /\ CASE present ->
            /\ render' = [render EXCEPT ![r].pc = "launching"] /\ UNCHANGED <<promise, installs>>
       [] ~present /\ auto -> Install(r, "installing")
       [] ~present /\ ~auto ->
            /\ render' = [render EXCEPT ![r].pc = "absent"] /\ UNCHANGED <<promise, installs>>
  /\ UNCHANGED <<present, auto, troubles, seen, failures>>

\* Its second look, after the installation.
LookAgain(r) ==
  /\ render[r].pc = "installed"
  /\ render' = [render EXCEPT ![r].pc = IF present THEN "launching" ELSE "absent"]
  /\ UNCHANGED <<present, auto, promise, installs, troubles, seen, failures>>

Waiting(r) == render[r].pc \in {"installing", "reinstalling"}
AfterInstall(r, ok) ==
  IF ~ok THEN "uninstalled" ELSE IF render[r].pc = "installing" THEN "installed" ELSE "reinstalled"

\* An installation ends for all who wait for it, and the next one is a new one.
EndInstall(ok) ==
  /\ installs > 0
  /\ installs' = installs - 1 /\ promise' = FALSE
  /\ present' = (present \/ ok)
  /\ render' = [r \in Papers |->
       IF Waiting(r) THEN [render[r] EXCEPT !.pc = AfterInstall(r, ok)] ELSE render[r]]
  /\ UNCHANGED <<auto, troubles, seen, failures>>

\* The executable is missing, or the browser does not start: once in each way the
\* rendering installs again.
LaunchFails(r) ==
  /\ render[r].pc = "launching"
  /\ IF present
       THEN /\ troubles < MaxTroubles /\ troubles' = troubles + 1
            /\ seen' = [seen EXCEPT ![r] = @ + 1]
       ELSE UNCHANGED <<troubles, seen>>
  /\ IF auto /\ ~render[r].again
       THEN Install(r, "reinstalling")
       ELSE /\ render' = [render EXCEPT ![r].pc = "unlaunched"]
            /\ UNCHANGED <<promise, installs>>
  /\ UNCHANGED <<present, auto, failures>>

\* Libraries of the host are missing, or the page does not load: the rendering fails.
PageFails(r) ==
  /\ render[r].pc = "launching" /\ present
  /\ render' = [render EXCEPT ![r].pc = "unfit"]
  /\ UNCHANGED <<present, auto, promise, installs, troubles, seen, failures>>

\* A printing that fails is tried in the next way, the last one without images.
PrintFails(r) ==
  /\ render[r].pc = "launching" /\ present
  /\ failures' = [failures EXCEPT ![r] = @ + 1]
  /\ render' = [render EXCEPT ![r] =
       IF @.way < 3 THEN [pc |-> "launching", way |-> @.way + 1, again |-> FALSE]
       ELSE [@ EXCEPT !.pc = "unprinted"]]
  /\ UNCHANGED <<present, auto, promise, installs, troubles, seen>>

PrintPage(r) ==
  /\ render[r].pc = "launching" /\ present
  /\ render' = [render EXCEPT ![r].pc = IF render[r].way = 3 THEN "bare" ELSE "paper"]
  /\ UNCHANGED <<present, auto, promise, installs, troubles, seen, failures>>

Vanish ==
  /\ present /\ troubles < MaxTroubles /\ troubles' = troubles + 1
  /\ present' = FALSE
  /\ seen' = [r \in Papers |->
       IF render[r].pc \in {"new"} \cup Ended THEN seen[r] ELSE seen[r] + 1]
  /\ UNCHANGED <<auto, promise, installs, render, failures>>

RenderingNext ==
  \/ \E r \in Papers :
       \/ EnsureBrowser(r) \/ LookAgain(r) \/ LaunchFails(r)
       \/ PageFails(r) \/ PrintFails(r) \/ PrintPage(r)
  \/ \E ok \in BOOLEAN : EndInstall(ok)
  \/ Vanish

RenderingSpec == RenderingInit /\ [][RenderingNext]_qvars

-----------------------------------------------------------------------------
(* Properties *)

\* Renderings have the shape of the code.
RenderingTypeOK ==
  /\ installs \in Nat /\ promise \in BOOLEAN
  /\ \A r \in Papers :
       /\ render[r].pc \in {"new", "installing", "installed", "reinstalling", "reinstalled",
                            "launching"} \cup Ended
       /\ render[r].way \in 1 .. 3

\* At most one installation runs, it runs while somebody waits for it, and nobody waits
\* for none.
OneInstallation ==
  installs = IF \E r \in Papers : Waiting(r) THEN 1 ELSE 0

\* A paper lacks its images only after two printings failed.  Where the browser is installed
\* when missing, a rendering ends for want of it only if it vanished after all, and ends at
\* a launch only if that was not the first trouble it met.
GivesUpForCause ==
  \A r \in Papers :
    /\ render[r].pc = "bare" => failures[r] >= 2
    /\ render[r].pc = "unprinted" => failures[r] = 3
    /\ auto /\ render[r].pc = "absent" => seen[r] >= 1
    /\ auto /\ render[r].pc = "unlaunched" => seen[r] >= 2
=============================================================================
