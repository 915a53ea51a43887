------------------------------ MODULE Broadcasts ------------------------------
(***************************************************************************)
(* Broadcasts: the part of src/modules/notifications/notifications.service *)
(* that turns one announcement into a message for each reader of its       *)
(* audience.  The desk creates, schedules, cancels and deletes broadcasts  *)
(* and their template; every minute a tick takes what is due and           *)
(* dispatches it page by page, whether the last tick has ended or not.     *)
(*                                                                         *)
(* Readers are numbers, as the pages are ordered by id.  Titles, bodies    *)
(* and dates are left out: any SCHEDULED broadcast may be due.  What       *)
(* becomes of a message is module Deliveries.                              *)
(***************************************************************************)
EXTENDS Naturals, Sequences, FiniteSets

CONSTANTS
  Broadcasts,   \* broadcasts
  NoBroadcast,  \* the broadcast of a thread that has none in hand
  LastReader,   \* the readers are 1 .. LastReader
  PageSize,     \* NOTIFICATIONS_BROADCAST_BATCH_SIZE
  TickTake,     \* broadcasts a tick takes: 5 in the code
  Ticks,        \* ticks under way at a time
  Desks,        \* requests of administrators at a time
  MaxErrands,   \* bound: requests, and moves of readers
  MaxMishaps    \* bound: failed statements and process deaths

ASSUME BroadcastsAssumption ==
  /\ NoBroadcast \notin Broadcasts
  /\ LastReader \in Nat /\ PageSize \in Nat \ {0} /\ TickTake \in Nat
  /\ MaxErrands \in Nat /\ MaxMishaps \in Nat

Readers == 1 .. LastReader

VARIABLES
  template,  \* the template the broadcasts are made from
  bstatus,   \* broadcast.status, "none" before the row exists and "gone" after
  linked,    \* broadcasts whose templateId is set
  audience,  \* readers the audience's filter finds
  enabled,   \* readers who have not switched the channel off
  made,      \* messages made for a reader: none, one, or more
  tick,      \* where each tick is
  desk,      \* where each request is
  errands,   \* errands left
  mishaps,   \* mishaps left
  excused,   \* history: broadcasts dispatched again after a dispatch was overlapped,
             \* cut short, or followed by a late schedule
  moved,     \* history: readers out of reach at some time of a broadcast's dispatch
  jumped,    \* history: broadcasts a dispatch of which lost its cursor
  silenced   \* history: broadcasts cancelled while nobody had them in hand

records == <<template, bstatus, linked, audience, enabled, made>>
history == <<excused, moved, jumped, silenced>>
bvars == <<records, tick, desk, errands, mishaps, history>>

Existing(b) == bstatus[b] \notin {"none", "gone"}
FirstOf(S) == CHOOSE u \in S : \A v \in S : u <= v
LastOf(S) == CHOOSE u \in S : \A v \in S : v <= u

TickAt(step, todo, b, link) ==
  [pc |-> step, todo |-> todo, b |-> b, link |-> link, cursor |-> 0, page |-> {}]
TickIdle == TickAt("idle", <<>>, NoBroadcast, FALSE)
DeskIdle == [pc |-> "idle", b |-> NoBroadcast]

BroadcastsInit ==
  /\ template = "active"
  /\ bstatus = [b \in Broadcasts |-> "none"]
  /\ linked = {}
  /\ audience = Readers /\ enabled = Readers
  /\ made = [b \in Broadcasts |-> [u \in Readers |-> 0]]
  /\ tick = [t \in Ticks |-> TickIdle]
  /\ desk = [d \in Desks |-> DeskIdle]
  /\ errands = MaxErrands /\ mishaps = MaxMishaps
  /\ excused = {} /\ jumped = {} /\ silenced = {}
  /\ moved = [b \in Broadcasts |-> {}]

\* A tick has b in hand from its look at the row to its last write.
Dispatching(t, b) == tick[t].b = b
InDispatch(b) == \E t \in Ticks : Dispatching(t, b)

-----------------------------------------------------------------------------
(* The desk: each request reads, then writes by the id alone *)

Errand(d, step, b) ==
  /\ desk[d] = DeskIdle
  /\ errands > 0 /\ errands' = errands - 1
  /\ desk' = [desk EXCEPT ![d] = [pc |-> step, b |-> b]]

\* createBroadcast: an active template, a draft or a date.
BeginCreate(d, b) ==
  /\ bstatus[b] = "none" /\ template = "active"
  /\ Errand(d, "creating", b)
  /\ UNCHANGED <<records, tick, mishaps, history>>

BeginSchedule(d, b) ==
  /\ Existing(b) /\ bstatus[b] \notin {"SENT", "CANCELLED"}
  /\ Errand(d, "scheduling", b)
  /\ UNCHANGED <<records, tick, mishaps, history>>

BeginCancel(d, b) ==
  /\ Existing(b) /\ bstatus[b] # "SENT"
  /\ Errand(d, "cancelling", b)
  /\ UNCHANGED <<records, tick, mishaps, history>>

BeginDelete(d, b) ==
  /\ Existing(b) /\ bstatus[b] # "SENT"
  /\ Errand(d, "deleting", b)
  /\ UNCHANGED <<records, tick, mishaps, history>>

Done(d) == desk' = [desk EXCEPT ![d] = DeskIdle]

\* A template deleted meanwhile fails the insert.
CreateBroadcast(d) ==
  LET b == desk[d].b IN
  /\ desk[d].pc = "creating"
  /\ IF bstatus[b] = "none" /\ template # "gone"
       THEN /\ \E s \in {"DRAFT", "SCHEDULED"} : bstatus' = [bstatus EXCEPT ![b] = s]
            /\ linked' = linked \cup {b}
       ELSE UNCHANGED <<bstatus, linked>>
  /\ Done(d)
  /\ UNCHANGED <<template, audience, enabled, made, tick, errands, mishaps, history>>

\* It may have been sent, or cancelled, since it was read.
ScheduleBroadcast(d) ==
  LET b == desk[d].b IN
  /\ desk[d].pc = "scheduling"
  /\ bstatus' = IF Existing(b) THEN [bstatus EXCEPT ![b] = "SCHEDULED"] ELSE bstatus
  /\ excused' = IF bstatus[b] \in {"SENT", "CANCELLED"} THEN excused \cup {b} ELSE excused
  /\ Done(d)
  /\ UNCHANGED <<template, linked, audience, enabled, made, tick, errands, mishaps,
                 moved, jumped, silenced>>

CancelBroadcast(d) ==
  LET b == desk[d].b IN
  /\ desk[d].pc = "cancelling"
  /\ IF Existing(b)
       THEN /\ bstatus' = [bstatus EXCEPT ![b] = "CANCELLED"]
            /\ silenced' =
                 IF InDispatch(b) \/ \E e \in Desks : desk[e] = [pc |-> "scheduling", b |-> b]
                   THEN silenced ELSE silenced \cup {b}
       ELSE UNCHANGED <<bstatus, silenced>>
  /\ Done(d)
  /\ UNCHANGED <<template, linked, audience, enabled, made, tick, errands, mishaps,
                 excused, moved, jumped>>

DeleteBroadcast(d) ==
  LET b == desk[d].b IN
  /\ desk[d].pc = "deleting"
  /\ bstatus' = IF Existing(b) THEN [bstatus EXCEPT ![b] = "gone"] ELSE bstatus
  /\ linked' = linked \ {b}
  /\ Done(d)
  /\ UNCHANGED <<template, audience, enabled, made, tick, errands, mishaps, history>>

UpdateTemplate ==
  /\ template # "gone"
  /\ errands > 0 /\ errands' = errands - 1
  /\ template' \in {"active", "inactive"} \ {template}
  /\ UNCHANGED <<bstatus, linked, audience, enabled, made, tick, desk, mishaps, history>>

\* deleteTemplate counts what refers to the template, and then deletes it; the
\* foreign keys of what came in between are set to null.
BeginDeleteTemplate(d) ==
  /\ template # "gone"
  /\ linked = {} /\ \A b \in Broadcasts, u \in Readers : made[b][u] = 0
  /\ Errand(d, "dropping", NoBroadcast)
  /\ UNCHANGED <<records, tick, mishaps, history>>

DeleteTemplate(d) ==
  /\ desk[d].pc = "dropping"
  /\ template' = "gone" /\ linked' = {}
  /\ Done(d)
  /\ UNCHANGED <<bstatus, audience, enabled, made, tick, errands, mishaps, history>>

-----------------------------------------------------------------------------
(* The readers *)

\* What a move of u leaves open for the dispatches under way.
Disturb(u) ==
  moved' = [b \in Broadcasts |-> IF InDispatch(b) THEN moved[b] \cup {u} ELSE moved[b]]

UpdatePreference(u) ==
  /\ errands > 0 /\ errands' = errands - 1
  /\ enabled' = IF u \in enabled THEN enabled \ {u} ELSE enabled \cup {u}
  /\ Disturb(u)
  /\ UNCHANGED <<template, bstatus, linked, audience, made, tick, desk, mishaps,
                 excused, jumped, silenced>>

\* A status or type the audience asks for changes.
ChangeUser(u) ==
  /\ errands > 0 /\ errands' = errands - 1
  /\ audience' = IF u \in audience THEN audience \ {u} ELSE audience \cup {u}
  /\ Disturb(u)
  /\ jumped' = jumped \cup {b \in Broadcasts :
                  u \in audience /\ \E t \in Ticks : Dispatching(t, b) /\ tick[t].cursor = u}
  /\ UNCHANGED <<template, bstatus, linked, enabled, made, tick, desk, mishaps,
                 excused, silenced>>

-----------------------------------------------------------------------------
(* broadcastTick and dispatchBroadcast *)

Goto(t, step) == tick' = [tick EXCEPT ![t].pc = step]
NextOf(todo) == IF todo = <<>> THEN TickIdle ELSE TickAt("next", todo, NoBroadcast, FALSE)
Advance(t) == tick' = [tick EXCEPT ![t] = NextOf(tick[t].todo)]

\* What is due, in some order of its dates.
StartTick(t) ==
  /\ tick[t] = TickIdle
  /\ \E n \in 1 .. TickTake :
     \E todo \in [1 .. n -> {b \in Broadcasts : bstatus[b] = "SCHEDULED"}] :
       /\ \A i, j \in 1 .. n : todo[i] = todo[j] => i = j
       /\ tick' = [tick EXCEPT ![t] = NextOf(todo)]
  /\ UNCHANGED <<records, desk, errands, mishaps, history>>

\* The row is read again: a sent, cancelled or deleted one is left alone.
\* Faulty variant: any row is dispatched.
StillThere(b) == Existing(b)
Dispatchable(b) == bstatus[b] = "SCHEDULED"
ReadBroadcast(t) ==
  LET b == Head(tick[t].todo) rest == Tail(tick[t].todo) IN
  /\ tick[t].pc = "next"
  /\ IF Dispatchable(b)
       THEN /\ tick' = [tick EXCEPT ![t] = TickAt("checking", rest, b, b \in linked)]
            /\ excused' = IF InDispatch(b) THEN excused \cup {b} ELSE excused
            /\ moved' = [moved EXCEPT ![b] = @ \cup (Readers \ (audience \cap enabled))]
       ELSE /\ tick' = [tick EXCEPT ![t] = NextOf(rest)]
            /\ UNCHANGED <<excused, moved>>
  /\ UNCHANGED <<records, desk, errands, mishaps, jumped, silenced>>

ReadTemplate(t) ==
  /\ tick[t].pc = "checking"
  /\ Goto(t, IF tick[t].link /\ template = "active" THEN "listing" ELSE "voiding")
  /\ UNCHANGED <<records, desk, errands, mishaps, history>>

\* Faulty variant: a broadcast without a template stays SCHEDULED.
NotVoided(b) == bstatus[b]
Voided(b) == "CANCELLED"
VoidBroadcast(t) ==
  LET b == tick[t].b IN
  /\ tick[t].pc = "voiding"
  /\ bstatus' = IF Existing(b) THEN [bstatus EXCEPT ![b] = Voided(b)] ELSE bstatus
  /\ Advance(t)
  /\ UNCHANGED <<template, linked, audience, enabled, made, desk, errands, mishaps, history>>

\* Faulty variant: the cursor is the next page's first row.
FromCursorOffByOne(c) == {u \in audience : u > c + (IF c = 0 THEN 0 ELSE 1)}
\* External: the next page begins with the cursor's own row, which is skipped; when
\* that row has left the audience, another is skipped in its place.
FromCursor(c) ==
  LET rows == {u \in audience : u >= c} IN
  IF c = 0 \/ rows = {} THEN rows ELSE rows \ {FirstOf(rows)}

\* The page's users, then those of them who switched the channel off.
ListUsers(t) ==
  LET rows == FromCursor(tick[t].cursor)
      users == {u \in rows : Cardinality({v \in rows : v < u}) < PageSize}
      page == users \cap enabled IN
  /\ tick[t].pc = "listing"
  /\ IF users = {}
       THEN Goto(t, "closing")
       ELSE tick' = [tick EXCEPT ![t].cursor = LastOf(users), ![t].page = page,
                       ![t].pc = IF page = {} THEN "listing" ELSE "sending"]
  /\ UNCHANGED <<records, desk, errands, mishaps, history>>

\* The rest of the tick goes on without the broadcast in hand.
CutShort(t) ==
  /\ excused' = excused \cup {tick[t].b}
  /\ Advance(t)

\* A message refers to the template: a deleted one fails the dispatch.
SendMessage(t) ==
  LET b == tick[t].b u == FirstOf(tick[t].page) rest == tick[t].page \ {u} IN
  /\ tick[t].pc = "sending"
  /\ IF template = "gone"
       THEN CutShort(t) /\ UNCHANGED made
       ELSE /\ made' = [made EXCEPT ![b][u] = IF @ = 0 THEN 1 ELSE 2]
            /\ tick' = [tick EXCEPT ![t].page = rest,
                          ![t].pc = IF rest = {} THEN "listing" ELSE "sending"]
            /\ UNCHANGED excused
  /\ UNCHANGED <<template, bstatus, linked, audience, enabled, desk, errands, mishaps,
                 moved, jumped, silenced>>

\* Whatever its status is by now.
CloseBroadcast(t) ==
  LET b == tick[t].b IN
  /\ tick[t].pc = "closing"
  /\ bstatus' = IF Existing(b) THEN [bstatus EXCEPT ![b] = "SENT"] ELSE bstatus
  /\ Advance(t)
  /\ UNCHANGED <<template, linked, audience, enabled, made, desk, errands, mishaps, history>>

-----------------------------------------------------------------------------
(* What goes wrong *)

\* A statement of a dispatch fails: broadcastTick logs it and goes on.
DispatchFails(t) ==
  /\ tick[t].b # NoBroadcast
  /\ mishaps > 0 /\ mishaps' = mishaps - 1
  /\ CutShort(t)
  /\ UNCHANGED <<records, desk, errands, moved, jumped, silenced>>

\* The process dies: a tick, or a request.
DieInTick(t) ==
  /\ tick[t] # TickIdle
  /\ mishaps > 0 /\ mishaps' = mishaps - 1
  /\ excused' = IF tick[t].b = NoBroadcast THEN excused ELSE excused \cup {tick[t].b}
  /\ tick' = [tick EXCEPT ![t] = TickIdle]
  /\ UNCHANGED <<records, desk, errands, moved, jumped, silenced>>

DieAtDesk(d) ==
  /\ desk[d] # DeskIdle
  /\ mishaps > 0 /\ mishaps' = mishaps - 1
  /\ Done(d)
  /\ UNCHANGED <<records, tick, errands, history>>

TickStep(t) ==
  \/ ReadBroadcast(t) \/ ReadTemplate(t) \/ VoidBroadcast(t)
  \/ ListUsers(t) \/ SendMessage(t) \/ CloseBroadcast(t)

DeskStep(d) ==
  \/ CreateBroadcast(d) \/ ScheduleBroadcast(d) \/ CancelBroadcast(d) \/ DeleteBroadcast(d)
  \/ BeginDeleteTemplate(d) \/ DeleteTemplate(d)
  \/ \E b \in Broadcasts :
       BeginCreate(d, b) \/ BeginSchedule(d, b) \/ BeginCancel(d, b) \/ BeginDelete(d, b)

BroadcastsNext ==
  \/ \E t \in Ticks : StartTick(t) \/ TickStep(t) \/ DispatchFails(t) \/ DieInTick(t)
  \/ \E d \in Desks : DeskStep(d) \/ DieAtDesk(d)
  \/ UpdateTemplate
  \/ \E u \in Readers : UpdatePreference(u) \/ ChangeUser(u)

BroadcastsSpec == BroadcastsInit /\ [][BroadcastsNext]_bvars

-----------------------------------------------------------------------------
(* Properties *)

\* Rows and threads have the shape of the schema and the code; a tick that lists,
\* sends or closes has a broadcast in hand, and its page lies behind its cursor.
BroadcastsTypeOK ==
  /\ template \in {"active", "inactive", "gone"}
  /\ bstatus \in [Broadcasts -> {"none", "DRAFT", "SCHEDULED", "SENT", "CANCELLED", "gone"}]
  /\ linked \subseteq {b \in Broadcasts : Existing(b)}
  /\ template = "gone" => linked = {}
  /\ audience \subseteq Readers /\ enabled \subseteq Readers
  /\ made \in [Broadcasts -> [Readers -> 0 .. 2]]
  /\ tick \in [Ticks -> [pc : {"idle", "next", "checking", "voiding", "listing", "sending",
                               "closing"},
                         todo : Seq(Broadcasts), b : Broadcasts \cup {NoBroadcast},
                         link : BOOLEAN, cursor : 0 .. LastReader, page : SUBSET Readers]]
  /\ \A t \in Ticks :
       /\ tick[t].pc \in {"idle", "next"} <=> tick[t].b = NoBroadcast
       /\ tick[t].pc = "next" => tick[t].todo # <<>>
       /\ tick[t].pc = "sending" <=> tick[t].page # {}
       /\ \A u \in tick[t].page : u <= tick[t].cursor
  /\ desk \in [Desks -> [pc : {"idle", "creating", "scheduling", "cancelling", "deleting",
                               "dropping"},
                         b : Broadcasts \cup {NoBroadcast}]]
  /\ \A d \in Desks : desk[d].pc \notin {"idle", "dropping"} => desk[d].b \in Broadcasts
  /\ errands \in 0 .. MaxErrands /\ mishaps \in 0 .. MaxMishaps
  /\ excused \subseteq Broadcasts /\ jumped \subseteq Broadcasts /\ silenced \subseteq Broadcasts
  /\ moved \in [Broadcasts -> SUBSET Readers]

\* A reader gets one message of a broadcast, or it was dispatched twice in one of
\* the ways the code leaves open: by overlapping ticks, again after a dispatch that
\* failed on its way, or because a schedule request came in behind its end.
OneMessageEach ==
  \A b \in Broadcasts, u \in Readers : made[b][u] <= 1 \/ b \in excused

\* A SENT broadcast reached everybody who was in its audience and had the channel on
\* throughout, unless the reader its page ended with left the audience meanwhile:
\* then the next one is skipped.
AudienceReached ==
  \A b \in Broadcasts, u \in Readers :
    bstatus[b] = "SENT" /\ u \notin moved[b] => made[b][u] > 0 \/ b \in jumped

\* A broadcast cancelled while no dispatch and no schedule request had it in hand
\* stays cancelled, and nobody gets a message of it any more: a tick that had it on
\* its list reads it again.
QuietAfterCancel ==
  [][\A b \in silenced : made'[b] = made[b] /\ bstatus'[b] \in {"CANCELLED", "gone"}]_bvars

\* A scheduled broadcast is sent, cancelled or deleted in the end, although dispatches
\* of it fail, its template is deleted or its desk reschedules it.
DueBroadcastEnds ==
  \A b \in Broadcasts : bstatus[b] = "SCHEDULED" ~> bstatus[b] # "SCHEDULED"
=============================================================================
