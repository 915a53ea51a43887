------------------------------ MODULE NoteViews ------------------------------
(***************************************************************************)
(* The view sessions of one premium note and one student:                  *)
(* src/modules/notes/note-access.service, createViewSession and            *)
(* streamContent, against what notes.service, users.service and            *)
(* auth.service do to them meanwhile.                                      *)
(*                                                                         *)
(* A visit asks for a session, a read presents one; each goes on one await *)
(* at a time.  Left out are the security signals, which nothing reads      *)
(* back, the watermark, and the bytes: what a range asks for is no matter. *)
(***************************************************************************)
EXTENDS Naturals, FiniteSets

CONSTANTS
  Views,       \* view sessions
  NoView,      \* the session of a read that has none
  Visits,      \* requests for a session at a time
  Reads,       \* requests for the content at a time
  MaxViews,    \* NOTE_VIEW_MAX_SESSIONS
  RateLimit    \* NOTE_ACCESS_RATE_LIMIT

ASSUME NoteViewsAssumption ==
  /\ NoView \notin Views
  /\ IsFiniteSet(Visits) /\ Visits # {} /\ IsFiniteSet(Reads) /\ Reads # {}
  /\ MaxViews \in Nat \ {0} /\ RateLimit \in Nat \ {0}

VARIABLES
  shown,     \* note.isPublished
  entitled,  \* the student has an entitlement to it
  banned,    \* a ban that is not revoked
  view,      \* each session: none, live, or over (revoked or expired)
  logged,    \* access logs in the rate window
  visit,     \* where each visit is
  read,      \* where each read is, its session, and why it comes too late
  raced      \* history: two visits found room before either wrote

nvars == <<shown, entitled, banned, view, logged, visit, read, raced>>

NotReading == [pc |-> "away", view |-> NoView, late |-> "no"]

NoteViewsInit ==
  /\ shown = TRUE /\ entitled = TRUE /\ banned = FALSE
  /\ view = [v \in Views |-> "none"]
  /\ logged = 0
  /\ visit = [o \in Visits |-> "away"]
  /\ read = [r \in Reads |-> NotReading]
  /\ raced = FALSE

LiveViews == {v \in Views : view[v] = "live"}

-----------------------------------------------------------------------------
(* createViewSession *)

Visiting(o, step) == visit' = [visit EXCEPT ![o] = step]

BeginVisit(o) ==
  /\ visit[o] = "away" /\ shown
  /\ Visiting(o, "banned?")
  /\ UNCHANGED <<shown, entitled, banned, view, logged, read, raced>>

VisitUnlessBanned(o) ==
  /\ visit[o] = "banned?"
  /\ Visiting(o, IF banned THEN "away" ELSE "entitled?")
  /\ UNCHANGED <<shown, entitled, banned, view, logged, read, raced>>

VisitIfEntitled(o) ==
  /\ visit[o] = "entitled?"
  /\ Visiting(o, IF entitled THEN "counting" ELSE "away")
  /\ UNCHANGED <<shown, entitled, banned, view, logged, read, raced>>

\* Faulty variant: one more than the limit.
RoomUpToLimit == Cardinality(LiveViews) <= MaxViews
RoomForView == Cardinality(LiveViews) < MaxViews
CountViews(o) ==
  /\ visit[o] = "counting"
  /\ IF RoomForView THEN Visiting(o, "creating") ELSE Visiting(o, "away")
  /\ raced' = (raced \/ (RoomForView /\ \E p \in Visits : visit[p] = "creating"))
  /\ UNCHANGED <<shown, entitled, banned, view, logged, read>>

CreateView(o, v) ==
  /\ visit[o] = "creating"
  /\ view[v] = "none"
  /\ view' = [view EXCEPT ![v] = "live"]
  /\ Visiting(o, "away")
  /\ UNCHANGED <<shown, entitled, banned, logged, read, raced>>

-----------------------------------------------------------------------------
(* streamContent *)

Reading(r, step) == read' = [read EXCEPT ![r].pc = step]
StopReading(r) == read' = [read EXCEPT ![r] = NotReading]

BeginRead(r, v) ==
  /\ read[r] = NotReading /\ view[v] # "none"
  /\ read' = [read EXCEPT ![r] =
       [pc |-> "banned?", view |-> v,
        late |-> IF view[v] = "over" THEN "over" ELSE IF banned THEN "banned" ELSE "no"]]
  /\ UNCHANGED <<shown, entitled, banned, view, logged, visit, raced>>

ReadUnlessBanned(r) ==
  /\ read[r].pc = "banned?"
  /\ IF banned THEN StopReading(r) ELSE Reading(r, "validating")
  /\ UNCHANGED <<shown, entitled, banned, view, logged, visit, raced>>

ValidateSession(r) ==
  /\ read[r].pc = "validating"
  /\ IF view[read[r].view] = "live" THEN Reading(r, "limiting") ELSE StopReading(r)
  /\ UNCHANGED <<shown, entitled, banned, view, logged, visit, raced>>

\* The note's row is read in between, for its file alone.
CheckRateLimit(r) ==
  /\ read[r].pc = "limiting"
  /\ IF logged >= RateLimit THEN StopReading(r) ELSE Reading(r, "serving")
  /\ UNCHANGED <<shown, entitled, banned, view, logged, visit, raced>>

LogAccess(r) ==
  /\ read[r].pc = "serving"
  /\ logged' = logged + 1
  /\ StopReading(r)
  /\ UNCHANGED <<shown, entitled, banned, view, visit, raced>>

-----------------------------------------------------------------------------
(* What others do meanwhile *)

\* publishNote, unpublishNote and bulkPublish.
PublishOrHide ==
  /\ shown' = ~shown
  /\ UNCHANGED <<entitled, banned, view, logged, visit, read, raced>>

EntitlementComesOrGoes ==
  /\ entitled' = ~entitled
  /\ UNCHANGED <<shown, banned, view, logged, visit, read, raced>>

BanUser ==
  /\ banned' = TRUE
  /\ UNCHANGED <<shown, entitled, view, logged, visit, read, raced>>

UnbanUser ==
  /\ banned /\ banned' = FALSE
  /\ read' = [r \in Reads |-> IF read[r].late = "banned"
                                THEN [read[r] EXCEPT !.late = "no"] ELSE read[r]]
  /\ UNCHANGED <<shown, entitled, view, logged, visit, raced>>

\* revokeSession, or the end of NOTE_VIEW_SESSION_TTL_MINUTES.
EndView(v) ==
  /\ view[v] = "live"
  /\ view' = [view EXCEPT ![v] = "over"]
  /\ UNCHANGED <<shown, entitled, banned, logged, visit, read, raced>>

\* revokeSessions, revokeUserSessions, forceLogout and resetPassword.
RevokeViews ==
  /\ LiveViews # {}
  /\ view' = [v \in Views |-> IF v \in LiveViews THEN "over" ELSE view[v]]
  /\ UNCHANGED <<shown, entitled, banned, logged, visit, read, raced>>

LogsGrowOld ==
  /\ logged > 0 /\ logged' = 0
  /\ UNCHANGED <<shown, entitled, banned, view, visit, read, raced>>

\* A failed statement or call, or a process death: the request writes nothing more.
RequestFails ==
  /\ \/ \E o \in Visits : visit[o] # "away" /\ Visiting(o, "away") /\ UNCHANGED read
     \/ \E r \in Reads : read[r] # NotReading /\ StopReading(r) /\ UNCHANGED visit
  /\ UNCHANGED <<shown, entitled, banned, view, logged, raced>>

NoteViewsNext ==
  \/ \E o \in Visits :
       \/ BeginVisit(o) \/ VisitUnlessBanned(o) \/ VisitIfEntitled(o) \/ CountViews(o)
       \/ \E v \in Views : CreateView(o, v)
  \/ \E r \in Reads :
       \/ ReadUnlessBanned(r) \/ ValidateSession(r) \/ CheckRateLimit(r) \/ LogAccess(r)
       \/ \E v \in Views : BeginRead(r, v)
  \/ PublishOrHide \/ EntitlementComesOrGoes \/ BanUser \/ UnbanUser
  \/ (\E v \in Views : EndView(v)) \/ RevokeViews \/ LogsGrowOld \/ RequestFails

NoteViewsSpec == NoteViewsInit /\ [][NoteViewsNext]_nvars

-----------------------------------------------------------------------------
(* Properties *)

\* Rows and requests have the shape of the schema and the code.
NoteViewsTypeOK ==
  /\ shown \in BOOLEAN /\ entitled \in BOOLEAN /\ banned \in BOOLEAN
  /\ view \in [Views -> {"none", "live", "over"}]
  /\ logged \in Nat
  /\ visit \in [Visits -> {"away", "banned?", "entitled?", "counting", "creating"}]
  /\ read \in [Reads ->
       [pc : {"away", "banned?", "validating", "limiting", "serving"},
        view : Views \cup {NoView}, late : {"no", "banned", "over"}]]
  /\ raced \in BOOLEAN

\* Sessions are counted before one is created: their limit is kept unless two visits
\* raced there.  It, and the limit of reads, is exceeded by no more than the other
\* requests that can be under way.
ViewsWithinLimit ==
  /\ Cardinality(LiveViews) <= MaxViews + IF raced THEN Cardinality(Visits) - 1 ELSE 0
  /\ logged <= RateLimit + Cardinality(Reads) - 1

\* A read that came after its session ended, or while the student was banned and stays
\* so, is never served: what a ban or a revocation lets through is only what was under
\* way.
NothingReadTooLate == \A r \in Reads : read[r].pc = "serving" => read[r].late = "no"
=============================================================================
