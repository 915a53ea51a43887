----------------------------- MODULE OfficeProofs -----------------------------
(***************************************************************************)
(* Theorems about the specification of OfficeMC, for every value of its    *)
(* constants: its components keep their limits, LimitsHold, somebody       *)
(* remains who may administer, AdminsRemain, what is written twice agrees, *)
(* BooksAgree, and with the components of ContentProofs every row keeps    *)
(* its shape, OfficeTypeOK.                                                *)
(*                                                                         *)
(* A behaviour follows one component.  Each has here an invariant of its   *)
(* own, preserved by its own steps: its rows and requests are well formed, *)
(* what a request knows in the middle of its work still means what it      *)
(* meant when it was read, and a limit counts, besides what exists, the    *)
(* requests that have passed its check and have yet to write.              *)
(***************************************************************************)
EXTENDS ContentProofs

(***************************************************************************)
(* AdminRoles                                                              *)
(***************************************************************************)

EditRecords ==
  [pc : {"away", "allowed?", "writing", "deleting"}, actor : Users \cup {NoUser},
   target : Users \cup {NoUser}, type : {"ADMIN", "STUDENT", "same"}, roles : SUBSET Roles,
   keep : BOOLEAN, admin : BOOLEAN, super : BOOLEAN, held : SUBSET Users]

\* What a request to change a user has found out and will not look at again: an update
\* takes no super administrator's own role from him, it names a role if it names any, and
\* a user whose type it leaves alone exists; and a role to be deleted had no holder.
EditSound(e) ==
  /\ edit[e].held = {}
  /\ edit[e].pc \in {"allowed?", "writing"} =>
       /\ edit[e].actor \in Users /\ edit[e].target \in Users
       /\ edit[e].keep \/ edit[e].roles # {}
       /\ edit[e].type = "same" => type[edit[e].target] # "none"
       /\ edit[e].super /\ edit[e].actor = edit[e].target =>
            edit[e].keep \/ "ADMIN_SUPER" \in edit[e].roles

RolesInv ==
  /\ AdminRolesTypeOK
  /\ \A e \in Edits : EditSound(e)
  /\ SuperAdminRemains
  /\ AdminsHaveRoles

LEMMA RolesBegin == AdminRolesInit => RolesInv
<1> SUFFICES ASSUME AdminRolesInit PROVE RolesInv
  OBVIOUS
<1>1. PICK u \in Users, other \in {"none", "STUDENT"} :
        /\ type = [x \in Users |-> IF x = u THEN "ADMIN" ELSE other]
        /\ roles = [x \in Users |-> IF x = u THEN {"ADMIN_SUPER"} ELSE {}]
  BY DEF AdminRolesInit
<1>2. /\ made = TRUE /\ edit = [e \in Edits |-> NoEdit] /\ editsLeft = MaxEdits
      /\ fallen = FALSE /\ bare = {}
  BY DEF AdminRolesInit
<1>3. AdminRolesTypeOK
  <2>1. edit \in [Edits -> EditRecords]
    BY <1>2 DEF NoEdit, EditRecords
  <2>2. type \in [Users -> {"none", "ADMIN", "STUDENT"}] /\ roles \in [Users -> SUBSET Roles]
    BY <1>1 DEF Roles
  <2>3. \A x \in Users : type[x] = "none" => roles[x] = {}
    BY <1>1
  <2>4. editsLeft \in 0 .. MaxEdits
    BY <1>2, AdminRolesAssumption
  <2> QED
    BY <1>2, <2>1, <2>2, <2>3, <2>4, Zenon DEF AdminRolesTypeOK, EditRecords
<1>4. \A e \in Edits : EditSound(e)
  BY <1>2 DEF EditSound, NoEdit
<1>5. SuperAdminRemains
  BY <1>1 DEF SuperAdminRemains, Supers
<1>6. AdminsHaveRoles
  BY <1>1 DEF AdminsHaveRoles
<1> QED
  BY <1>3, <1>4, <1>5, <1>6 DEF RolesInv

\* A request to create a user, and one to update a user, begins well formed and sound.
LEMMA CreateUserBegins ==
  ASSUME RolesInv, NEW e \in Edits, NEW actor \in Users, NEW u \in Users,
         NEW wantedType \in {"ADMIN", "STUDENT"},
         NEW wanted \in {{}, {"ADMIN_SUPER"}, {"ADMIN_MADE"}},
         BeginCreateUser(e, actor, u, wantedType, wanted)
  PROVE RolesInv'
<1> USE DEF RolesInv
<1> DEFINE q == [pc |-> "allowed?", actor |-> actor, target |-> u, type |-> wantedType,
                 roles |-> IF wanted = {} THEN {"STUDENT"} ELSE wanted, keep |-> FALSE,
                 admin |-> wantedType = "ADMIN" \/ wanted \cap AdminKeys # {},
                 super |-> actor \in Supers, held |-> {}]
<1>0. UNCHANGED <<type, roles, made, fallen, bare>>
  BY DEF BeginCreateUser
<1>1. edit' = [edit EXCEPT ![e] = q] /\ editsLeft' = editsLeft - 1 /\ editsLeft > 0
  BY DEF BeginCreateUser
<1>2. q \in EditRecords
  BY DEF Roles, EditRecords
<1>3. AdminRolesTypeOK'
  BY <1>0, <1>1, <1>2, AdminRolesAssumption DEF AdminRolesTypeOK, Holders, EditRecords
<1>4. actor # u
  BY DEF BeginCreateUser, ManagesRoles, AdminRolesTypeOK
<1>5. ASSUME NEW f \in Edits PROVE EditSound(f)'
  <2>1. CASE f = e
    <3>1. edit'[f] = q
      BY <1>1, <2>1 DEF AdminRolesTypeOK
    <3> QED
      BY <3>1, <1>4 DEF EditSound
  <2>2. CASE f # e
    <3>1. edit'[f] = edit[f]
      BY <1>1, <2>2 DEF AdminRolesTypeOK
    <3> QED
      BY <3>1, <1>0 DEF EditSound
  <2> QED
    BY <2>1, <2>2
<1> QED
  BY <1>0, <1>3, <1>5 DEF SuperAdminRemains, Supers, AdminsHaveRoles

LEMMA EditBegins ==
  ASSUME RolesInv, NEW e \in Edits, NEW actor \in Users, NEW target \in Users,
         NEW wantedType \in {"ADMIN", "STUDENT", "same"},
         NEW wanted \in {{}, {"ADMIN_SUPER"}, {"ADMIN_MADE"}}, NEW keep \in BOOLEAN,
         BeginEdit(e, actor, target, wantedType, wanted, keep)
  PROVE RolesInv'
<1> USE DEF RolesInv
<1> DEFINE next == IF wantedType = "same" THEN type[target] ELSE wantedType
           after == IF keep THEN roles[target] ELSE wanted
           q == [pc |-> "allowed?", actor |-> actor, target |-> target, type |-> wantedType,
                 roles |-> IF ~keep /\ wanted = {} THEN {"STUDENT"} ELSE wanted,
                 keep |-> keep,
                 admin |-> "ADMIN" \in {type[target], next}
                             \/ (roles[target] \cup after) \cap AdminKeys # {},
                 super |-> actor \in Supers, held |-> {}]
<1>0. UNCHANGED <<type, roles, made, fallen, bare>>
  BY DEF BeginEdit
<1>1. edit' = [edit EXCEPT ![e] = q] /\ editsLeft' = editsLeft - 1 /\ editsLeft > 0
  BY DEF BeginEdit
<1>2. q \in EditRecords
  BY DEF Roles, EditRecords
<1>3. AdminRolesTypeOK'
  BY <1>0, <1>1, <1>2, AdminRolesAssumption DEF AdminRolesTypeOK, Holders, EditRecords
<1>4. /\ type[target] # "none"
      /\ actor = target /\ actor \in Supers => keep \/ "ADMIN_SUPER" \in wanted
  BY DEF BeginEdit, LocksSelfOut, Supers
<1>5. ASSUME NEW f \in Edits PROVE EditSound(f)'
  <2>1. CASE f = e
    <3>1. edit'[f] = q
      BY <1>1, <2>1 DEF AdminRolesTypeOK
    <3> QED
      BY <3>1, <1>0, <1>4 DEF EditSound
  <2>2. CASE f # e
    <3>1. edit'[f] = edit[f]
      BY <1>1, <2>2 DEF AdminRolesTypeOK
    <3> QED
      BY <3>1, <1>0 DEF EditSound
  <2> QED
    BY <2>1, <2>2
<1> QED
  BY <1>0, <1>3, <1>5 DEF SuperAdminRemains, Supers, AdminsHaveRoles

\* The write of a request, or nothing where a role it gives is gone.
LEMMA UserWritten ==
  ASSUME RolesInv, NEW e \in Edits, WriteUser(e)
  PROVE RolesInv'
<1> USE DEF RolesInv
<1> DEFINE q == edit[e]
           u == q.target
           given == IF q.keep THEN roles[u] ELSE q.roles
           becomes == IF q.type = "same" THEN type[u] ELSE q.type
           supers == {x \in Users : "ADMIN_SUPER" \in (IF x = u THEN given ELSE roles[x])}
<1>1. /\ edit' = [edit EXCEPT ![e] = NoEdit] /\ made' = made /\ editsLeft' = editsLeft
      /\ q.pc = "writing"
  BY DEF WriteUser
<1>2. /\ q \in EditRecords
      /\ u \in Users /\ q.actor \in Users
  BY <1>1 DEF AdminRolesTypeOK, EditSound, EditRecords
<1>3. /\ edit' \in [Edits -> EditRecords]
      /\ \A f \in Edits : edit'[f] = IF f = e THEN NoEdit ELSE edit[f]
  BY <1>1 DEF AdminRolesTypeOK, NoEdit, EditRecords
<1>4. CASE UNCHANGED <<type, roles, fallen, bare>>
  <2>1. AdminRolesTypeOK'
    BY <1>1, <1>3, <1>4 DEF AdminRolesTypeOK, Holders, EditRecords
  <2>2. \A f \in Edits : EditSound(f)'
    BY <1>3, <1>4 DEF EditSound, NoEdit
  <2> QED
    BY <1>4, <2>1, <2>2 DEF SuperAdminRemains, Supers, AdminsHaveRoles
<1>5. CASE /\ ~("ADMIN_MADE" \in given /\ ~made)
           /\ type' = [type EXCEPT ![u] = becomes]
           /\ roles' = [roles EXCEPT ![u] = given]
           /\ fallen' = (supers = {} /\ (fallen \/ ~(q.super /\ q.actor \in Supers)))
           /\ bare' = IF q.type = "ADMIN" /\ q.keep /\ given = {} THEN bare \cup {u} ELSE bare
  <2>1. /\ given \in SUBSET Roles /\ becomes \in {"ADMIN", "STUDENT"}
        /\ given = {} => q.keep /\ roles[u] = {}
    BY <1>1, <1>2 DEF AdminRolesTypeOK, EditSound
  <2>2. /\ type' \in [Users -> {"none", "ADMIN", "STUDENT"}] /\ roles' \in [Users -> SUBSET Roles]
        /\ \A x \in Users : /\ type'[x] = IF x = u THEN becomes ELSE type[x]
                            /\ roles'[x] = IF x = u THEN given ELSE roles[x]
    BY <1>2, <1>5, <2>1 DEF AdminRolesTypeOK
  <2>3. bare' \subseteq Users /\ bare \subseteq bare' /\ fallen' \in BOOLEAN
    BY <1>2, <1>5 DEF AdminRolesTypeOK
  <2>4. \A x \in Users : type'[x] = "none" => roles'[x] = {}
    BY <2>1, <2>2 DEF AdminRolesTypeOK, EditRecords
  <2>5. ~made' => Holders' = {}
    BY <1>1, <1>5, <2>2 DEF AdminRolesTypeOK, Holders
  <2>6. AdminRolesTypeOK'
    BY <1>1, <1>3, <2>2, <2>3, <2>4, <2>5 DEF AdminRolesTypeOK, EditRecords
  <2>7. ASSUME NEW f \in Edits PROVE EditSound(f)'
    <3>1. CASE f = e
      BY <1>3, <3>1 DEF EditSound, NoEdit
    <3>2. CASE f # e
      BY <1>3, <2>1, <2>2, <3>2 DEF EditSound
    <3> QED
      BY <3>1, <3>2
  <2>8. SuperAdminRemains'
    <3>1. Supers' = supers
      BY <2>2 DEF Supers
    <3>2. ASSUME supers = {}, ~fallen PROVE ~(q.super /\ q.actor \in Supers)
      <4>1. SUFFICES ASSUME q.super, q.actor \in Supers PROVE FALSE
        OBVIOUS
      <4>2. q.actor = u /\ "ADMIN_SUPER" \notin given
        BY <1>2, <3>2, <4>1 DEF Supers
      <4> QED
        BY <1>1, <4>1, <4>2 DEF EditSound, Supers
    <3> QED
      BY <1>5, <3>1, <3>2, Zenon DEF SuperAdminRemains
  <2>9. AdminsHaveRoles'
    <3>1. ASSUME NEW x \in Users, type'[x] = "ADMIN", roles'[x] = {} PROVE x \in bare'
      BY <1>2, <1>5, <2>1, <2>2, <2>3, <3>1 DEF AdminsHaveRoles
    <3> QED
      BY <3>1 DEF AdminsHaveRoles
  <2> QED
    BY <2>6, <2>7, <2>8, <2>9
<1> QED
  BY <1>4, <1>5 DEF WriteUser

LEMMA RoleDeleted ==
  ASSUME RolesInv, NEW e \in Edits, DeleteRole(e)
  PROVE RolesInv'
<1> USE DEF RolesInv
<1>1. /\ edit' = [edit EXCEPT ![e] = NoEdit] /\ made' = FALSE
      /\ UNCHANGED <<type, editsLeft, fallen>>
      /\ roles' = [u \in Users |-> roles[u] \ {"ADMIN_MADE"}]
      /\ bare' = bare \cup {u \in Holders \ edit[e].held : type[u] = "ADMIN" /\ roles'[u] = {}}
  BY DEF DeleteRole
<1>2. /\ edit' \in [Edits -> EditRecords]
      /\ \A f \in Edits : edit'[f] = IF f = e THEN NoEdit ELSE edit[f]
  BY <1>1 DEF AdminRolesTypeOK, NoEdit, EditRecords
<1>3. /\ roles' \in [Users -> SUBSET Roles]
      /\ \A u \in Users : roles'[u] = roles[u] \ {"ADMIN_MADE"}
  BY <1>1 DEF AdminRolesTypeOK
<1>4. AdminRolesTypeOK'
  BY <1>1, <1>2, <1>3, Zenon DEF AdminRolesTypeOK, Holders, EditRecords
<1>5. \A f \in Edits : EditSound(f)'
  BY <1>1, <1>2 DEF EditSound, NoEdit
<1>6. Supers' = Supers
  BY <1>3 DEF Supers
<1>7. AdminsHaveRoles'
  <2>1. ASSUME NEW u \in Users, type[u] = "ADMIN", roles'[u] = {} PROVE u \in bare'
    BY <1>1, <1>3, <2>1 DEF AdminsHaveRoles, Holders, EditSound
  <2> QED
    BY <1>1, <2>1 DEF AdminsHaveRoles
<1> QED
  BY <1>1, <1>4, <1>5, <1>6, <1>7 DEF SuperAdminRemains

LEMMA RolesStep == RolesInv /\ [AdminRolesNext]_arvars => RolesInv'
<1> SUFFICES ASSUME RolesInv, [AdminRolesNext]_arvars PROVE RolesInv'
  OBVIOUS
<1> USE DEF RolesInv
<1>1. ASSUME UNCHANGED <<type, roles, made, fallen, bare>>, NEW e \in Edits,
             edit' = [edit EXCEPT ![e] = NoEdit] \/ edit' = [edit EXCEPT ![e].pc = "writing"],
             edit[e].pc = "allowed?" \/ edit' = [edit EXCEPT ![e] = NoEdit],
             editsLeft' = editsLeft
      PROVE RolesInv'
  <2>1. /\ edit' \in [Edits -> EditRecords]
        /\ \A f \in Edits : f # e => edit'[f] = edit[f]
        /\ \/ edit'[e] = NoEdit
           \/ edit[e].pc = "allowed?" /\ edit'[e] = [edit[e] EXCEPT !.pc = "writing"]
    <3>1. edit \in [Edits -> EditRecords] /\ NoEdit \in EditRecords
      BY DEF AdminRolesTypeOK, NoEdit, EditRecords
    <3>2. CASE edit' = [edit EXCEPT ![e] = NoEdit]
      BY <3>1, <3>2
    <3>3. CASE edit' = [edit EXCEPT ![e].pc = "writing"] /\ edit[e].pc = "allowed?"
      <4>1. [edit[e] EXCEPT !.pc = "writing"] \in EditRecords
        BY <3>1 DEF EditRecords
      <4> QED
        BY <3>1, <3>3, <4>1
    <3> QED
      BY <1>1, <3>2, <3>3
  <2>2. AdminRolesTypeOK'
    BY <1>1, <2>1 DEF AdminRolesTypeOK, Holders, EditRecords
  <2>3. ASSUME NEW f \in Edits PROVE EditSound(f)'
    <3>1. CASE f # e
      BY <1>1, <2>1, <3>1 DEF EditSound
    <3>2. CASE f = e /\ edit'[e] = NoEdit
      BY <3>2 DEF EditSound, NoEdit
    <3>3. CASE f = e /\ edit[e].pc = "allowed?" /\ edit'[e] = [edit[e] EXCEPT !.pc = "writing"]
      <4>1. /\ edit'[e].held = edit[e].held /\ edit'[e].actor = edit[e].actor
            /\ edit'[e].target = edit[e].target /\ edit'[e].keep = edit[e].keep
            /\ edit'[e].roles = edit[e].roles /\ edit'[e].type = edit[e].type
            /\ edit'[e].super = edit[e].super
        BY <3>3 DEF AdminRolesTypeOK, EditRecords
      <4> QED
        BY <1>1, <3>3, <4>1 DEF EditSound
    <3> QED
      BY <2>1, <3>1, <3>2, <3>3
  <2> QED
    BY <1>1, <2>2, <2>3 DEF SuperAdminRemains, Supers, AdminsHaveRoles
<1>2. ASSUME NEW e \in Edits, CheckCapability(e) PROVE RolesInv'
  BY <1>1, <1>2, Zenon DEF CheckCapability
<1>3. ASSUME NEW e \in Edits, EditFails(e) PROVE RolesInv'
  BY <1>1, <1>3, Zenon DEF EditFails
<1>4. ASSUME NEW e \in Edits, BeginDeleteRole(e) PROVE RolesInv'
  <2>1. /\ edit' = [edit EXCEPT ![e] = [NoEdit EXCEPT !.pc = "deleting", !.held = Holders]]
        /\ Holders = {} /\ UNCHANGED <<type, roles, made, fallen, bare>>
        /\ editsLeft' = editsLeft - 1 /\ editsLeft > 0
    BY <1>4 DEF BeginDeleteRole, RoleFree
  <2> DEFINE q == [NoEdit EXCEPT !.pc = "deleting", !.held = Holders]
  <2>2. /\ q \in EditRecords
        /\ q.pc = "deleting" /\ q.held = {}
    BY <2>1, Zenon DEF NoEdit, EditRecords
  <2>3. /\ edit' \in [Edits -> EditRecords]
        /\ \A f \in Edits : edit'[f] = IF f = e THEN q ELSE edit[f]
    BY <2>1, <2>2 DEF AdminRolesTypeOK, EditRecords
  <2> HIDE DEF q
  <2>4. editsLeft' \in 0 .. MaxEdits
    BY <2>1, AdminRolesAssumption DEF AdminRolesTypeOK
  <2>5. AdminRolesTypeOK'
    BY <2>1, <2>3, <2>4, Zenon DEF AdminRolesTypeOK, Holders, EditRecords
  <2>6. \A f \in Edits : EditSound(f)'
    BY <2>1, <2>2, <2>3 DEF EditSound
  <2> QED
    BY <2>1, <2>5, <2>6 DEF SuperAdminRemains, Supers, AdminsHaveRoles
<1>5. CASE UNCHANGED arvars
  BY <1>5 DEF arvars, AdminRolesTypeOK, EditSound, Holders, SuperAdminRemains, Supers,
              AdminsHaveRoles
<1>6. ASSUME AdminRolesNext PROVE RolesInv'
  <2>1. PICK e \in Edits :
          \/ \E actor, target \in Users, t \in {"ADMIN", "STUDENT", "same"} :
               \/ BeginEdit(e, actor, target, t, {}, TRUE)
               \/ \E wanted \in {{}, {"ADMIN_SUPER"}, {"ADMIN_MADE"}} :
                    BeginEdit(e, actor, target, t, wanted, FALSE)
          \/ \E actor, u \in Users, t \in {"ADMIN", "STUDENT"},
               wanted \in {{}, {"ADMIN_SUPER"}, {"ADMIN_MADE"}} :
                 BeginCreateUser(e, actor, u, t, wanted)
          \/ CheckCapability(e) \/ WriteUser(e)
          \/ BeginDeleteRole(e) \/ DeleteRole(e) \/ EditFails(e)
    BY <1>6, Zenon DEF AdminRolesNext
  <2>2. ASSUME NEW actor \in Users, NEW target \in Users,
               NEW t \in {"ADMIN", "STUDENT", "same"},
               BeginEdit(e, actor, target, t, {}, TRUE)
        PROVE RolesInv'
    BY <2>2, EditBegins, Zenon
  <2>3. ASSUME NEW actor \in Users, NEW target \in Users,
               NEW t \in {"ADMIN", "STUDENT", "same"},
               NEW wanted \in {{}, {"ADMIN_SUPER"}, {"ADMIN_MADE"}},
               BeginEdit(e, actor, target, t, wanted, FALSE)
        PROVE RolesInv'
    BY <2>3, EditBegins, Zenon
  <2>4. ASSUME NEW actor \in Users, NEW u \in Users, NEW t \in {"ADMIN", "STUDENT"},
               NEW wanted \in {{}, {"ADMIN_SUPER"}, {"ADMIN_MADE"}},
               BeginCreateUser(e, actor, u, t, wanted)
        PROVE RolesInv'
    BY <2>4, CreateUserBegins, Zenon
  <2>5. CASE WriteUser(e)
    BY <2>5, UserWritten
  <2>6. CASE DeleteRole(e)
    BY <2>6, RoleDeleted
  <2> QED
    BY <1>2, <1>3, <1>4, <2>1, <2>2, <2>3, <2>4, <2>5, <2>6, Zenon
<1> QED
  BY <1>5, <1>6

(***************************************************************************)
(* NoteViews                                                               *)
(***************************************************************************)

\* Visits that found room and have yet to write, reads that are to be logged.
CreatingVisits == {o \in Visits : visit[o] = "creating"}
ServingReads == {r \in Reads : read[r].pc = "serving"}

\* The limits, counting these too.  After a race one visit alone has seen the last room,
\* while the others may all be about to write.
ViewsAhead ==
  /\ IsFiniteSet(LiveViews)
  /\ Cardinality(LiveViews) + Cardinality(CreatingVisits)
       <= MaxViews + IF raced THEN Cardinality(Visits) - 1 ELSE 0
ReadsAhead == logged + Cardinality(ServingReads) <= RateLimit + Cardinality(Reads) - 1

\* A read of a session that was over does not pass the look at the session, and one of a
\* student who was banned, and still is, not the look at the ban.
Lateness(r) ==
  /\ read[r].late = "over" =>
       /\ read[r].view \in Views /\ view[read[r].view] = "over"
       /\ read[r].pc \in {"banned?", "validating"}
  /\ read[r].late = "banned" => banned /\ read[r].pc = "banned?"

ViewsInv ==
  /\ NoteViewsTypeOK /\ ViewsAhead /\ ReadsAhead
  /\ \A r \in Reads : Lateness(r)

LEMMA ViewsLimited == ViewsInv => ViewsWithinLimit /\ NothingReadTooLate
<1> SUFFICES ASSUME ViewsInv PROVE ViewsWithinLimit /\ NothingReadTooLate
  OBVIOUS
<1> USE DEF ViewsInv
<1>1. /\ CreatingVisits \subseteq Visits /\ ServingReads \subseteq Reads
      /\ IsFiniteSet(Visits) /\ IsFiniteSet(Reads)
  BY NoteViewsAssumption DEF CreatingVisits, ServingReads
<1>2. /\ Cardinality(CreatingVisits) \in Nat /\ Cardinality(ServingReads) \in Nat
      /\ Cardinality(LiveViews) \in Nat /\ Cardinality(Visits) \in Nat
      /\ Cardinality(Reads) \in Nat
  BY <1>1, FS_Subset, FS_CardinalityType DEF ViewsAhead
<1>3. ViewsWithinLimit
  BY <1>2, NoteViewsAssumption DEF ViewsWithinLimit, ViewsAhead, ReadsAhead, NoteViewsTypeOK
<1>4. NothingReadTooLate
  BY DEF NothingReadTooLate, Lateness, NoteViewsTypeOK
<1> QED
  BY <1>3, <1>4

LEMMA ViewsBegin == NoteViewsInit => ViewsInv
<1> SUFFICES ASSUME NoteViewsInit PROVE ViewsInv
  OBVIOUS
<1>1. NoteViewsTypeOK
  BY Zenon DEF NoteViewsInit, NoteViewsTypeOK, NotReading
<1>2. LiveViews = {} /\ CreatingVisits = {} /\ ServingReads = {}
  BY DEF NoteViewsInit, LiveViews, CreatingVisits, ServingReads, NotReading
<1>3. /\ Cardinality(Reads) \in Nat \ {0}
  BY NoteViewsAssumption, FS_CardinalityType, FS_EmptySet
<1>4. ViewsAhead /\ ReadsAhead
  BY <1>2, <1>3, FS_EmptySet, NoteViewsAssumption DEF ViewsAhead, ReadsAhead, NoteViewsInit
<1>5. \A r \in Reads : Lateness(r)
  BY DEF NoteViewsInit, Lateness, NotReading
<1> QED
  BY <1>1, <1>4, <1>5 DEF ViewsInv

\* A step that lets no more visits and reads ahead keeps the limits.
LEMMA FewerAhead ==
  ASSUME ViewsInv, raced' = raced, logged' \in Nat, logged' <= logged,
         LiveViews' \subseteq LiveViews, CreatingVisits' \subseteq CreatingVisits,
         ServingReads' \subseteq ServingReads
  PROVE ViewsAhead' /\ ReadsAhead'
<1> USE DEF ViewsInv
<1>1. /\ IsFiniteSet(LiveViews) /\ IsFiniteSet(CreatingVisits) /\ IsFiniteSet(ServingReads)
      /\ IsFiniteSet(Visits) /\ IsFiniteSet(Reads)
  BY NoteViewsAssumption, FS_Subset DEF CreatingVisits, ServingReads, ViewsAhead
<1>2. /\ IsFiniteSet(LiveViews') /\ Cardinality(LiveViews') <= Cardinality(LiveViews)
      /\ Cardinality(CreatingVisits') <= Cardinality(CreatingVisits)
      /\ Cardinality(ServingReads') <= Cardinality(ServingReads)
  BY <1>1, FS_Subset
<1>3. /\ Cardinality(CreatingVisits) \in Nat /\ Cardinality(ServingReads) \in Nat
      /\ Cardinality(LiveViews) \in Nat /\ Cardinality(Visits) \in Nat
      /\ Cardinality(Reads) \in Nat /\ Cardinality(LiveViews') \in Nat
      /\ Cardinality(CreatingVisits') \in Nat /\ Cardinality(ServingReads') \in Nat
  BY <1>1, FS_Subset, FS_CardinalityType
<1> QED
  BY <1>2, <1>3, NoteViewsAssumption DEF ViewsAhead, ReadsAhead, NoteViewsTypeOK

\* The steps of a visit but the two that write or are about to.
LEMMA VisitGoesOn ==
  ASSUME ViewsInv, NEW o \in Visits, NEW step \in {"away", "banned?", "entitled?", "counting"},
         Visiting(o, step), UNCHANGED <<shown, entitled, banned, view, logged, read, raced>>
  PROVE ViewsInv'
<1> USE DEF ViewsInv
<1>1. visit' = [visit EXCEPT ![o] = step]
  BY DEF Visiting
<1>2. NoteViewsTypeOK'
  BY <1>1 DEF NoteViewsTypeOK
<1>3. /\ CreatingVisits' \subseteq CreatingVisits
      /\ LiveViews' = LiveViews /\ ServingReads' = ServingReads
  BY <1>1 DEF NoteViewsTypeOK, CreatingVisits, LiveViews, ServingReads
<1>4. ViewsAhead' /\ ReadsAhead'
  BY <1>3, FewerAhead DEF NoteViewsTypeOK
<1>5. \A r \in Reads : Lateness(r)'
  BY DEF Lateness
<1> QED
  BY <1>2, <1>4, <1>5

LEMMA RoomFound ==
  ASSUME ViewsInv, NEW o \in Visits, CountViews(o), RoomForView
  PROVE ViewsInv'
<1> USE DEF ViewsInv
<1>1. /\ visit' = [visit EXCEPT ![o] = "creating"] /\ visit[o] = "counting"
      /\ raced' = (raced \/ \E p \in Visits : visit[p] = "creating")
      /\ UNCHANGED <<shown, entitled, banned, view, logged, read>>
      /\ Cardinality(LiveViews) < MaxViews
  BY DEF CountViews, Visiting, RoomForView
<1>2. NoteViewsTypeOK'
  BY <1>1 DEF NoteViewsTypeOK
<1>3. /\ CreatingVisits' = CreatingVisits \cup {o} /\ o \notin CreatingVisits
      /\ LiveViews' = LiveViews /\ ServingReads' = ServingReads
      /\ CreatingVisits \subseteq Visits /\ CreatingVisits' \subseteq Visits
      /\ ~raced' => CreatingVisits = {}
  BY <1>1, Zenon DEF NoteViewsTypeOK, CreatingVisits, LiveViews, ServingReads
<1>4. /\ IsFiniteSet(CreatingVisits) /\ IsFiniteSet(CreatingVisits') /\ IsFiniteSet(Visits)
      /\ Cardinality(CreatingVisits') <= Cardinality(Visits)
  BY <1>3, NoteViewsAssumption, FS_Subset
<1>5. /\ Cardinality(CreatingVisits') = Cardinality(CreatingVisits) + 1
      /\ ~raced' => Cardinality(CreatingVisits) = 0
  BY <1>3, <1>4, FS_AddElement, FS_EmptySet
<1>6. /\ Cardinality(LiveViews) \in Nat /\ Cardinality(CreatingVisits) \in Nat
      /\ Cardinality(Visits) \in Nat
  BY <1>4, FS_CardinalityType DEF ViewsAhead
<1>7. ViewsAhead'
  BY <1>1, <1>2, <1>3, <1>4, <1>5, <1>6, NoteViewsAssumption DEF ViewsAhead, NoteViewsTypeOK
<1>8. ReadsAhead' /\ \A r \in Reads : Lateness(r)'
  BY <1>1, <1>3 DEF ReadsAhead, Lateness
<1> QED
  BY <1>2, <1>7, <1>8

LEMMA ViewMade ==
  ASSUME ViewsInv, NEW o \in Visits, NEW v \in Views, CreateView(o, v)
  PROVE ViewsInv'
<1> USE DEF ViewsInv
<1>1. /\ visit' = [visit EXCEPT ![o] = "away"] /\ visit[o] = "creating"
      /\ view' = [view EXCEPT ![v] = "live"] /\ view[v] = "none"
      /\ UNCHANGED <<shown, entitled, banned, logged, read, raced>>
  BY DEF CreateView, Visiting
<1>2. NoteViewsTypeOK'
  BY <1>1 DEF NoteViewsTypeOK
<1>3. /\ CreatingVisits' = CreatingVisits \ {o} /\ o \in CreatingVisits
      /\ LiveViews' = LiveViews \cup {v} /\ v \notin LiveViews
      /\ ServingReads' = ServingReads /\ CreatingVisits \subseteq Visits
  BY <1>1 DEF NoteViewsTypeOK, CreatingVisits, LiveViews, ServingReads
<1>4. IsFiniteSet(CreatingVisits) /\ IsFiniteSet(LiveViews)
  BY <1>3, NoteViewsAssumption, FS_Subset DEF ViewsAhead
<1>5. /\ Cardinality(CreatingVisits') = Cardinality(CreatingVisits) - 1
      /\ Cardinality(LiveViews') = Cardinality(LiveViews) + 1
      /\ IsFiniteSet(LiveViews')
  BY <1>3, <1>4, FS_AddElement, FS_RemoveElement, Zenon
<1>6. Cardinality(LiveViews) \in Nat /\ Cardinality(CreatingVisits) \in Nat
  BY <1>4, FS_CardinalityType
<1>7. Cardinality(LiveViews') + Cardinality(CreatingVisits')
        = Cardinality(LiveViews) + Cardinality(CreatingVisits)
  BY <1>5, <1>6
<1>8. ViewsAhead'
  BY <1>1, <1>5, <1>7 DEF ViewsAhead
<1>9. ReadsAhead'
  BY <1>1, <1>3 DEF ReadsAhead
<1>10. \A r \in Reads : Lateness(r)'
  BY <1>1 DEF Lateness, NoteViewsTypeOK
<1> QED
  BY <1>2, <1>8, <1>9, <1>10

\* The steps of a read but the one that is let through to be served.
LEMMA ReadGoesOn ==
  ASSUME ViewsInv, NEW r \in Reads, NEW q, read' = [read EXCEPT ![r] = q],
         q \in [pc : {"away", "banned?", "validating", "limiting"},
                view : Views \cup {NoView}, late : {"no", "banned", "over"}],
         /\ q.late = "over" => /\ q.view \in Views /\ view[q.view] = "over"
                               /\ q.pc \in {"banned?", "validating"}
         /\ q.late = "banned" => banned /\ q.pc = "banned?",
         UNCHANGED <<shown, entitled, banned, view, visit, raced>>,
         logged' = logged \/ (read[r].pc = "serving" /\ logged' = logged + 1)
  PROVE ViewsInv'
<1> USE DEF ViewsInv
<1>1. /\ NoteViewsTypeOK' /\ \A p \in Reads : read'[p] = IF p = r THEN q ELSE read[p]
      /\ q.pc # "serving"
  BY DEF NoteViewsTypeOK
<1>2. /\ CreatingVisits' = CreatingVisits /\ LiveViews' = LiveViews
      /\ ServingReads' = ServingReads \ {r}
  BY <1>1 DEF NoteViewsTypeOK, CreatingVisits, LiveViews, ServingReads
<1>3. ViewsAhead' /\ ReadsAhead'
  <2>1. CASE logged' = logged
    BY <1>2, <2>1, FewerAhead DEF NoteViewsTypeOK
  <2>2. CASE r \in ServingReads /\ logged' = logged + 1
    <3>1. IsFiniteSet(ServingReads)
      BY NoteViewsAssumption, FS_Subset DEF ServingReads
    <3>2. /\ Cardinality(ServingReads') = Cardinality(ServingReads) - 1
          /\ Cardinality(ServingReads) \in Nat
      BY <1>2, <2>2, <3>1, FS_RemoveElement, FS_CardinalityType
    <3>3. logged' + Cardinality(ServingReads') = logged + Cardinality(ServingReads)
      BY <2>2, <3>2 DEF NoteViewsTypeOK
    <3> QED
      BY <1>2, <3>3 DEF ViewsAhead, ReadsAhead
  <2> QED
    BY <2>1, <2>2 DEF ServingReads
<1>4. \A p \in Reads : Lateness(p)'
  BY <1>1 DEF Lateness
<1> QED
  BY <1>1, <1>3, <1>4

LEMMA ReadStops ==
  ASSUME ViewsInv, NEW r \in Reads, StopReading(r),
         UNCHANGED <<shown, entitled, banned, view, visit, raced>>,
         logged' = logged \/ (read[r].pc = "serving" /\ logged' = logged + 1)
  PROVE ViewsInv'
<1>1. /\ NotReading \in [pc : {"away", "banned?", "validating", "limiting"},
                         view : Views \cup {NoView}, late : {"no", "banned", "over"}]
      /\ NotReading.late = "no"
  BY DEF NotReading
<1>2. read' = [read EXCEPT ![r] = NotReading]
  BY DEF StopReading
<1> QED
  BY <1>1, <1>2, ReadGoesOn, Zenon

LEMMA ReadReaches ==
  ASSUME ViewsInv, NEW r \in Reads, NEW step \in {"validating", "limiting"}, Reading(r, step),
         UNCHANGED <<shown, entitled, banned, view, visit, raced, logged>>,
         read[r].pc # "away",
         read[r].late # "banned", step = "limiting" => read[r].late # "over"
  PROVE ViewsInv'
<1> DEFINE q == [read[r] EXCEPT !.pc = step]
<1>1. read' = [read EXCEPT ![r] = q]
  BY DEF Reading, ViewsInv, NoteViewsTypeOK
<1>2. /\ q \in [pc : {"away", "banned?", "validating", "limiting"},
                view : Views \cup {NoView}, late : {"no", "banned", "over"}]
      /\ q.pc = step /\ q.late = read[r].late /\ q.view = read[r].view
  BY DEF ViewsInv, NoteViewsTypeOK
<1>3. /\ q.late = "over" => /\ q.view \in Views /\ view[q.view] = "over"
                            /\ q.pc \in {"banned?", "validating"}
      /\ q.late # "banned"
  BY <1>2 DEF ViewsInv, Lateness
<1> HIDE DEF q
<1> QED
  BY <1>1, <1>2, <1>3, ReadGoesOn, Zenon

LEMMA ReadStep ==
  ASSUME ViewsInv, NEW r \in Reads,
         \/ ReadUnlessBanned(r) \/ ValidateSession(r) \/ CheckRateLimit(r) \/ LogAccess(r)
         \/ \E v \in Views : BeginRead(r, v)
  PROVE ViewsInv'
<1>1. CASE \E v \in Views : BeginRead(r, v)
  <2>1. PICK v \in Views : BeginRead(r, v)
    BY <1>1
  <2> DEFINE q == [pc |-> "banned?", view |-> v,
                   late |-> IF view[v] = "over" THEN "over" ELSE IF banned THEN "banned" ELSE "no"]
  <2>2. /\ read' = [read EXCEPT ![r] = q]
        /\ UNCHANGED <<shown, entitled, banned, view, logged, visit, raced>>
    BY <2>1 DEF BeginRead
  <2>3. q \in [pc : {"away", "banned?", "validating", "limiting"},
               view : Views \cup {NoView}, late : {"no", "banned", "over"}]
    OBVIOUS
  <2>4. /\ q.late = "over" => /\ q.view \in Views /\ view[q.view] = "over"
                              /\ q.pc \in {"banned?", "validating"}
        /\ q.late = "banned" => banned /\ q.pc = "banned?"
    OBVIOUS
  <2> HIDE DEF q
  <2> QED
    BY <2>2, <2>3, <2>4, ReadGoesOn, Zenon
<1>2. CASE ReadUnlessBanned(r)
  BY <1>2, ReadStops, ReadReaches DEF ReadUnlessBanned, ViewsInv, Lateness
<1>3. CASE ValidateSession(r)
  BY <1>3, ReadStops, ReadReaches DEF ValidateSession, ViewsInv, Lateness
<1>4. CASE CheckRateLimit(r) /\ logged >= RateLimit
  BY <1>4, ReadStops DEF CheckRateLimit
<1>5. CASE CheckRateLimit(r) /\ ~(logged >= RateLimit)
  <2> USE DEF ViewsInv
  <2>1. /\ read' = [read EXCEPT ![r].pc = "serving"] /\ read[r].pc = "limiting"
        /\ UNCHANGED <<shown, entitled, banned, view, logged, visit, raced>>
    BY <1>5 DEF CheckRateLimit, Reading
  <2>2. /\ NoteViewsTypeOK'
        /\ \A p \in Reads : p # r => read'[p] = read[p]
        /\ read'[r].pc = "serving" /\ read'[r].late = read[r].late
    BY <2>1 DEF NoteViewsTypeOK
  <2>3. ServingReads' \subseteq Reads /\ LiveViews' = LiveViews /\ CreatingVisits' = CreatingVisits
    BY <2>1 DEF ServingReads, LiveViews, CreatingVisits
  <2>4. /\ Cardinality(ServingReads') \in Nat /\ Cardinality(Reads) \in Nat
        /\ Cardinality(ServingReads') <= Cardinality(Reads)
    BY <2>3, NoteViewsAssumption, FS_Subset, FS_CardinalityType
  <2>5. ReadsAhead'
    BY <1>5, <2>1, <2>4, NoteViewsAssumption DEF ReadsAhead, NoteViewsTypeOK
  <2>6. ViewsAhead'
    BY <2>1, <2>3 DEF ViewsAhead
  <2>7. \A p \in Reads : Lateness(p)'
    BY <2>1, <2>2 DEF Lateness
  <2> QED
    BY <2>2, <2>5, <2>6, <2>7
<1>6. CASE LogAccess(r)
  BY <1>6, ReadStops DEF LogAccess
<1> QED
  BY <1>1, <1>2, <1>3, <1>4, <1>5, <1>6

\* What others do meanwhile: sessions end, bans come and go, logs grow old.
LEMMA ViewsMeanwhile ==
  ASSUME ViewsInv,
         \/ PublishOrHide \/ EntitlementComesOrGoes \/ BanUser \/ UnbanUser
         \/ (\E v \in Views : EndView(v)) \/ RevokeViews \/ LogsGrowOld
  PROVE ViewsInv'
<1> USE DEF ViewsInv
<1>1. NoteViewsTypeOK'
  <2>1. CASE PublishOrHide
    BY <2>1 DEF PublishOrHide, NoteViewsTypeOK
  <2>2. CASE EntitlementComesOrGoes
    BY <2>2 DEF EntitlementComesOrGoes, NoteViewsTypeOK
  <2>3. CASE BanUser
    BY <2>3 DEF BanUser, NoteViewsTypeOK
  <2>4. CASE UnbanUser
    BY <2>4, Zenon DEF UnbanUser, NoteViewsTypeOK
  <2>5. CASE (\E v \in Views : EndView(v)) \/ RevokeViews
    BY <2>5 DEF EndView, RevokeViews, NoteViewsTypeOK
  <2>6. CASE LogsGrowOld
    <3>1. logged' \in Nat
      BY <2>6 DEF LogsGrowOld
    <3> QED
      BY <2>6, <3>1 DEF LogsGrowOld, NoteViewsTypeOK
  <2> QED
    BY <2>1, <2>2, <2>3, <2>4, <2>5, <2>6
<1>2. /\ raced' = raced /\ visit' = visit
      /\ \A v \in Views : view'[v] = view[v] \/ view'[v] = "over"
      /\ logged' = logged \/ logged' = 0
      /\ \A r \in Reads : read'[r].pc = read[r].pc /\ read'[r].view = read[r].view
  BY DEF PublishOrHide, EntitlementComesOrGoes, BanUser, UnbanUser, EndView, RevokeViews,
         LogsGrowOld, NoteViewsTypeOK
<1>3. /\ CreatingVisits' = CreatingVisits /\ LiveViews' \subseteq LiveViews
      /\ ServingReads' = ServingReads
  BY <1>2 DEF CreatingVisits, LiveViews, ServingReads
<1>4. logged' \in Nat /\ logged' <= logged
  BY <1>2 DEF NoteViewsTypeOK
<1>5. ViewsAhead' /\ ReadsAhead'
  BY <1>2, <1>3, <1>4, FewerAhead
<1>6. \A r \in Reads : \/ read'[r].late = read[r].late /\ (banned => banned')
                       \/ read'[r].late = read[r].late /\ read[r].late # "banned"
                       \/ read'[r].late = "no"
  BY DEF PublishOrHide, EntitlementComesOrGoes, BanUser, UnbanUser, EndView, RevokeViews,
         LogsGrowOld, NoteViewsTypeOK
<1>7. \A r \in Reads : Lateness(r)'
  BY <1>2, <1>6 DEF Lateness
<1> QED
  BY <1>1, <1>5, <1>7

LEMMA ViewsStep == ViewsInv /\ [NoteViewsNext]_nvars => ViewsInv'
<1> SUFFICES ASSUME ViewsInv, [NoteViewsNext]_nvars PROVE ViewsInv'
  OBVIOUS
<1>1. ASSUME NEW o \in Visits, BeginVisit(o) \/ VisitUnlessBanned(o) \/ VisitIfEntitled(o)
      PROVE ViewsInv'
  BY <1>1, VisitGoesOn DEF BeginVisit, VisitUnlessBanned, VisitIfEntitled
<1>2. ASSUME NEW o \in Visits, CountViews(o) PROVE ViewsInv'
  <2>1. CASE RoomForView
    BY <1>2, <2>1, RoomFound
  <2>2. CASE ~RoomForView
    <3>1. Visiting(o, "away") /\ UNCHANGED <<shown, entitled, banned, view, logged, read>>
      BY <1>2, <2>2 DEF CountViews
    <3>2. raced' = raced
      BY <1>2, <2>2 DEF CountViews, ViewsInv, NoteViewsTypeOK
    <3> QED
      BY <3>1, <3>2, VisitGoesOn
  <2> QED
    BY <2>1, <2>2
<1>3. ASSUME RequestFails PROVE ViewsInv'
  <2>1. CASE \E o \in Visits : Visiting(o, "away") /\ UNCHANGED read
    BY <1>3, <2>1, VisitGoesOn DEF RequestFails
  <2>2. CASE \E r \in Reads : StopReading(r) /\ UNCHANGED visit
    BY <1>3, <2>2, ReadStops DEF RequestFails
  <2> QED
    BY <1>3, <2>1, <2>2 DEF RequestFails
<1>4. CASE UNCHANGED nvars
  BY <1>4 DEF nvars, ViewsInv, NoteViewsTypeOK, ViewsAhead, ReadsAhead, Lateness, LiveViews,
              CreatingVisits, ServingReads
<1> QED
  BY <1>1, <1>2, <1>3, <1>4, ViewMade, ReadStep, ViewsMeanwhile DEF NoteViewsNext

(***************************************************************************)
(* ProviderCalls                                                           *)
(***************************************************************************)

\* A call holds a token it was issued, and has been performed only when it ended as done,
\* or as lost on the way back.
CallsTyped ==
  /\ issued \in Nat /\ accepted \subseteq 1 .. issued /\ elapsed \subseteq 1 .. issued
  /\ cached \in 0 .. issued
  /\ calling \in [Calls ->
       [pc : {"new", "asking", "storing", "sending", "done", "lost", "refused"},
        token : 0 .. issued, again : BOOLEAN]]
  /\ performed \in [Calls -> Nat]

\* After its refusal a call goes on with a token of its own, which the provider accepts
\* as long as it has not dropped it.
OwnToken(c) ==
  /\ calling[c].pc = "new" => ~calling[c].again
  /\ calling[c].again /\ calling[c].pc \in {"storing", "sending"} =>
       calling[c].token \in accepted \/ c \in dropped

CallsInv ==
  /\ CallsTyped
  /\ \A c \in Calls : calling[c].pc \notin {"done", "lost"} => performed[c] = 0
  /\ \A c \in Calls : OwnToken(c)
  /\ PerformedOnce /\ RefusedOnlyWhenDropped

LEMMA CallsKeepShape == CallsInv => ProviderCallsTypeOK
  BY DEF CallsInv, CallsTyped, ProviderCallsTypeOK

LEMMA CallsBegin == ProviderCallsInit => CallsInv
  BY DEF ProviderCallsInit, CallsInv, CallsTyped, OwnToken, PerformedOnce,
         RefusedOnlyWhenDropped

\* What a step makes of one call, q being where it gets.
CallMoved(c, q) ==
  /\ calling' = [calling EXCEPT ![c] = q]
  /\ q \in [pc : {"new", "asking", "storing", "sending", "done", "lost", "refused"},
            token : 0 .. issued', again : BOOLEAN]
  /\ issued' \in Nat /\ issued <= issued' /\ cached' \in 0 .. issued'
  /\ accepted \subseteq accepted' /\ accepted' \subseteq 1 .. issued'
  /\ elapsed' = elapsed /\ dropped' = dropped
  /\ performed' \in [Calls -> Nat] /\ performed'[c] <= 1
  /\ \A d \in Calls : d # c => performed'[d] = performed[d]
  /\ q.pc \notin {"done", "lost"} => performed'[c] = 0
  /\ q.pc = "done" => performed'[c] = 1
  /\ q.pc = "new" => ~q.again
  /\ q.again /\ q.pc \in {"storing", "sending"} => q.token \in accepted' \/ c \in dropped
  /\ q.pc = "refused" => c \in dropped

LEMMA CallMoves ==
  ASSUME CallsInv, NEW c \in Calls, NEW q, CallMoved(c, q)
  PROVE CallsInv'
<1>1. /\ CallsTyped /\ PerformedOnce /\ RefusedOnlyWhenDropped
      /\ \A d \in Calls : calling[d].pc \notin {"done", "lost"} => performed[d] = 0
      /\ \A d \in Calls : OwnToken(d)
  BY DEF CallsInv
<1>2. \A d \in Calls : calling'[d] = IF d = c THEN q ELSE calling[d]
  BY <1>1 DEF CallsTyped, CallMoved
<1>3. 0 .. issued \subseteq 0 .. issued' /\ 1 .. issued \subseteq 1 .. issued'
  BY <1>1 DEF CallsTyped, CallMoved
<1>4. \A d \in Calls : calling[d] \in
        [pc : {"new", "asking", "storing", "sending", "done", "lost", "refused"},
         token : 0 .. issued', again : BOOLEAN]
  BY <1>1, <1>3 DEF CallsTyped
<1>5. calling' \in [Calls ->
        [pc : {"new", "asking", "storing", "sending", "done", "lost", "refused"},
         token : 0 .. issued', again : BOOLEAN]]
  BY <1>1, <1>4 DEF CallsTyped, CallMoved
<1>6. CallsTyped'
  BY <1>1, <1>3, <1>5 DEF CallsTyped, CallMoved
<1>7. ASSUME NEW d \in Calls PROVE OwnToken(d)'
  <2>1. CASE d = c
    BY <1>2, <2>1 DEF OwnToken, CallMoved
  <2>2. CASE d # c
    <3>1. calling'[d] = calling[d] /\ OwnToken(d)
      BY <1>1, <1>2, <2>2
    <3> QED
      BY <3>1, Zenon DEF OwnToken, CallMoved
  <2> QED
    BY <2>1, <2>2
<1>8. /\ \A d \in Calls : calling'[d].pc \notin {"done", "lost"} => performed'[d] = 0
      /\ PerformedOnce' /\ RefusedOnlyWhenDropped'
  BY <1>1, <1>2 DEF CallMoved, PerformedOnce, RefusedOnlyWhenDropped
<1> QED
  BY <1>6, <1>7, <1>8 DEF CallsInv

LEMMA CallsStep == CallsInv /\ [ProviderCallsNext]_hvars => CallsInv'
<1> SUFFICES ASSUME CallsInv, [ProviderCallsNext]_hvars PROVE CallsInv'
  OBVIOUS
<1>0. /\ CallsTyped /\ PerformedOnce /\ RefusedOnlyWhenDropped
      /\ \A c \in Calls : calling[c].pc \notin {"done", "lost"} => performed[c] = 0
      /\ \A c \in Calls : OwnToken(c)
  BY DEF CallsInv
<1>1. /\ issued \in Nat /\ issued <= issued /\ accepted \subseteq 1 .. issued
      /\ cached \in 0 .. issued /\ performed \in [Calls -> Nat]
  BY <1>0 DEF CallsTyped
<1> USE <1>0
<1>2. ASSUME NEW c \in Calls, BeginCall(c) PROVE CallsInv'
  <2>1. calling[c].pc = "new" /\ UNCHANGED <<issued, accepted, elapsed, cached, performed, dropped>>
    BY <1>2 DEF BeginCall
  <2>2. CASE cached # 0 /\ cached \notin elapsed
    <3> DEFINE q == [calling[c] EXCEPT !.pc = "sending", !.token = cached]
    <3>1. calling' = [calling EXCEPT ![c] = q]
      BY <1>2, <2>2 DEF BeginCall, CallsTyped
    <3>2. /\ q \in [pc : {"new", "asking", "storing", "sending", "done", "lost", "refused"},
                    token : 0 .. issued', again : BOOLEAN]
          /\ q.pc = "sending" /\ q.again = calling[c].again
      BY <2>1, Zenon DEF CallsTyped
    <3> HIDE DEF q
    <3>9. CallMoved(c, q)
      BY <2>1, <3>1, <3>2, <1>1 DEF CallMoved, OwnToken
    <3> QED
      BY <3>9, CallMoves
  <2>3. CASE ~(cached # 0 /\ cached \notin elapsed)
    <3> DEFINE q == [calling[c] EXCEPT !.pc = "asking"]
    <3>1. calling' = [calling EXCEPT ![c] = q]
      BY <1>2, <2>3, Zenon DEF BeginCall, CallsTyped
    <3>2. /\ q \in [pc : {"new", "asking", "storing", "sending", "done", "lost", "refused"},
                    token : 0 .. issued', again : BOOLEAN]
          /\ q.pc = "asking"
      BY <2>1 DEF CallsTyped
    <3> HIDE DEF q
    <3>9. CallMoved(c, q)
      BY <2>1, <3>1, <3>2, <1>1 DEF CallMoved
    <3> QED
      BY <3>9, CallMoves
  <2> QED
    BY <2>2, <2>3
<1>3. ASSUME NEW c \in Calls, IssueToken(c) PROVE CallsInv'
  <2> DEFINE q == [calling[c] EXCEPT !.pc = "storing", !.token = issued + 1]
  <2>1. /\ calling' = [calling EXCEPT ![c].pc = "storing", ![c].token = issued + 1]
        /\ calling[c].pc = "asking" /\ issued' = issued + 1
        /\ accepted' = accepted \cup {issued + 1}
        /\ UNCHANGED <<elapsed, cached, performed, dropped>>
    BY <1>3 DEF IssueToken
  <2>2. calling' = [calling EXCEPT ![c] = q]
    BY <2>1 DEF CallsTyped
  <2>3. /\ issued' \in Nat /\ issued <= issued' /\ 0 .. issued \subseteq 0 .. issued'
        /\ accepted' \subseteq 1 .. issued' /\ cached \in 0 .. issued'
        /\ issued + 1 \in 0 .. issued'
    BY <2>1 DEF CallsTyped
  <2>4. /\ q \in [pc : {"new", "asking", "storing", "sending", "done", "lost", "refused"},
                  token : 0 .. issued', again : BOOLEAN]
        /\ q.pc = "storing" /\ q.token = issued + 1
    BY <2>3, Zenon DEF CallsTyped
  <2>5. performed[c] = 0 /\ q.token \in accepted'
    BY <2>1, <2>4
  <2> HIDE DEF q
  <2>9. CallMoved(c, q)
    <3>1. /\ performed' \in [Calls -> Nat] /\ performed'[c] = 0 /\ cached' \in 0 .. issued'
          /\ \A d \in Calls : performed'[d] = performed[d]
          /\ elapsed' = elapsed /\ dropped' = dropped
      BY <2>1, <2>3, <2>5, <1>1
    <3>2. accepted \subseteq accepted'
      BY <2>1
    <3> QED
      BY <2>2, <2>3, <2>4, <2>5, <3>1, <3>2 DEF CallMoved
  <2> QED
    BY <2>9, CallMoves
<1>4. ASSUME NEW c \in Calls, StoreToken(c) PROVE CallsInv'
  <2> DEFINE q == [calling[c] EXCEPT !.pc = "sending"]
  <2>1. /\ calling' = [calling EXCEPT ![c] = q] /\ calling[c].pc = "storing"
        /\ cached' = calling[c].token
        /\ UNCHANGED <<issued, accepted, elapsed, performed, dropped>>
    BY <1>4 DEF StoreToken, CallsTyped
  <2>2. /\ q \in [pc : {"new", "asking", "storing", "sending", "done", "lost", "refused"},
                  token : 0 .. issued', again : BOOLEAN]
        /\ q.pc = "sending" /\ q.again = calling[c].again /\ q.token = calling[c].token
        /\ calling[c].token \in 0 .. issued
    BY <2>1 DEF CallsTyped
  <2> HIDE DEF q
  <2>9. CallMoved(c, q)
    BY <2>1, <2>2, <1>1 DEF CallMoved, OwnToken
  <2> QED
    BY <2>9, CallMoves
<1>5. ASSUME NEW c \in Calls, Send(c) PROVE CallsInv'
  <2>0. /\ calling[c].pc = "sending" /\ UNCHANGED <<issued, accepted, elapsed, cached, dropped>>
        /\ performed[c] = 0
    BY <1>5 DEF Send
  <2>1. CASE calling[c].token \in accepted
    <3>1. PICK answer \in {"done", "lost"} : calling' = [calling EXCEPT ![c].pc = answer]
      BY <1>5, <2>1 DEF Send
    <3> DEFINE q == [calling[c] EXCEPT !.pc = answer]
    <3>2. calling' = [calling EXCEPT ![c] = q]
      BY <3>1 DEF CallsTyped
    <3>3. /\ q \in [pc : {"new", "asking", "storing", "sending", "done", "lost", "refused"},
                    token : 0 .. issued', again : BOOLEAN]
          /\ q.pc = answer
      BY <2>0 DEF CallsTyped
    <3>4. /\ performed' \in [Calls -> Nat] /\ performed'[c] = 1
          /\ \A d \in Calls : d # c => performed'[d] = performed[d]
      BY <1>5, <2>0, <2>1 DEF Send, CallsTyped
    <3> HIDE DEF q
    <3>9. CallMoved(c, q)
      BY <2>0, <3>2, <3>3, <3>4, <1>1 DEF CallMoved
    <3> QED
      BY <3>9, CallMoves
  <2>2. CASE calling[c].token \notin accepted
    <3> DEFINE q == [calling[c] EXCEPT !.pc = AfterRefusal(c), !.again = TRUE]
    <3>1. calling' = [calling EXCEPT ![c].pc = AfterRefusal(c), ![c].again = TRUE]
          /\ performed' = performed
      BY <1>5, <2>2 DEF Send
    <3>2. calling' = [calling EXCEPT ![c] = q]
      BY <3>1, Zenon DEF CallsTyped
    <3>3. /\ q \in [pc : {"new", "asking", "storing", "sending", "done", "lost", "refused"},
                    token : 0 .. issued', again : BOOLEAN]
          /\ q.pc = AfterRefusal(c)
      BY <2>0, Zenon DEF CallsTyped, AfterRefusal
    <3>4. AfterRefusal(c) = "asking" \/ (AfterRefusal(c) = "refused" /\ c \in dropped)
      BY <2>0, <2>2 DEF AfterRefusal, OwnToken
    <3> HIDE DEF q
    <3>5. q.pc = "asking" \/ (q.pc = "refused" /\ c \in dropped)
      BY <3>3, <3>4
    <3>6. q \in [pc : {"new", "asking", "storing", "sending", "done", "lost", "refused"},
                token : 0 .. issued', again : BOOLEAN]
      BY <3>3
    <3>9. CallMoved(c, q)
      <4>1. /\ performed' \in [Calls -> Nat] /\ performed'[c] = 0 /\ cached' \in 0 .. issued'
            /\ \A d \in Calls : performed'[d] = performed[d]
            /\ elapsed' = elapsed /\ dropped' = dropped
        BY <2>0, <3>1, <1>1
      <4>2. /\ issued' \in Nat /\ issued <= issued'
            /\ accepted \subseteq accepted' /\ accepted' \subseteq 1 .. issued'
        BY <2>0, <1>1
      <4> QED
        BY <3>2, <3>5, <3>6, <4>1, <4>2 DEF CallMoved
    <3> QED
      BY <3>9, CallMoves
  <2> QED
    BY <2>1, <2>2
<1>6. ASSUME NEW c \in Calls, LoseCall(c) PROVE CallsInv'
  <2> DEFINE q == [calling[c] EXCEPT !.pc = "lost"]
  <2>1. /\ calling' = [calling EXCEPT ![c] = q] /\ performed[c] = 0
        /\ UNCHANGED <<issued, accepted, elapsed, cached, performed, dropped>>
    BY <1>6 DEF LoseCall, CallsTyped
  <2>2. /\ q \in [pc : {"new", "asking", "storing", "sending", "done", "lost", "refused"},
                  token : 0 .. issued', again : BOOLEAN]
        /\ q.pc = "lost"
    BY <2>1 DEF CallsTyped
  <2> HIDE DEF q
  <2>9. CallMoved(c, q)
    BY <2>1, <2>2, <1>1 DEF CallMoved
  <2> QED
    BY <2>9, CallMoves
<1>7. ASSUME NEW token_ \in 1 .. MaxTokens, Elapse(token_) PROVE CallsInv'
  BY <1>7 DEF Elapse, CallsInv, CallsTyped, OwnToken, PerformedOnce, RefusedOnlyWhenDropped
<1>8. ASSUME NEW token_ \in 1 .. MaxTokens, DropToken(token_) PROVE CallsInv'
  <2>1. CallsTyped' /\ PerformedOnce'
        /\ \A c \in Calls : calling'[c].pc \notin {"done", "lost"} => performed'[c] = 0
    BY <1>8 DEF DropToken, CallsTyped, PerformedOnce
  <2>2. RefusedOnlyWhenDropped' /\ \A c \in Calls : OwnToken(c)'
    BY <1>8 DEF DropToken, CallsTyped, RefusedOnlyWhenDropped, OwnToken
  <2> QED
    BY <2>1, <2>2 DEF CallsInv
<1>9. CASE UNCHANGED hvars
  BY <1>9 DEF hvars, CallsInv, CallsTyped, OwnToken, PerformedOnce, RefusedOnlyWhenDropped
<1> QED
  BY <1>2, <1>3, <1>4, <1>5, <1>6, <1>7, <1>8, <1>9 DEF ProviderCallsNext

(***************************************************************************)
(* Rendering                                                               *)
(***************************************************************************)

RenderSteps == {"new", "installing", "installed", "reinstalling", "reinstalled", "launching"}
RenderTyped ==
  /\ present \in BOOLEAN /\ auto \in BOOLEAN /\ promise \in BOOLEAN
  /\ render \in [Papers -> [pc : RenderSteps \cup Ended, way : 1 .. 3, again : BOOLEAN]]
  /\ troubles \in Nat /\ seen \in [Papers -> Nat] /\ failures \in [Papers -> Nat]

\* The promise is there while somebody waits, and it is one installation.
OnePromise ==
  /\ promise <=> \E r \in Papers : Waiting(r)
  /\ promise => installs = 1
  /\ ~promise => installs = 0

\* The way a rendering tries counts its failures, and it has met a trouble if it has
\* recovered, and another one if it is at a launch and the browser is not there.
TroublesSeen(r) ==
  /\ render[r].pc # "unprinted" => failures[r] = render[r].way - 1
  /\ render[r].pc = "bare" => render[r].way = 3
  /\ render[r].again => seen[r] >= 1
  /\ render[r].pc \in {"installed", "launching"} /\ ~present => seen[r] >= 1
  /\ render[r].pc = "launching" /\ render[r].again /\ ~present => seen[r] >= 2

RenderInv ==
  /\ RenderTyped /\ OnePromise
  /\ \A r \in Papers : TroublesSeen(r)
  /\ GivesUpForCause

LEMMA RenderKeepsShape == RenderInv => RenderingTypeOK /\ OneInstallation
  BY DEF RenderInv, RenderTyped, RenderSteps, OnePromise, RenderingTypeOK, OneInstallation

LEMMA RenderBegin == RenderingInit => RenderInv
<1> SUFFICES ASSUME RenderingInit PROVE RenderInv
  OBVIOUS
<1>1. RenderTyped
  <2>1. NewRender \in [pc : RenderSteps \cup Ended, way : 1 .. 3, again : BOOLEAN]
    BY DEF RenderSteps, NewRender
  <2> QED
    BY <2>1, Zenon DEF RenderingInit, RenderTyped
<1>2. OnePromise
  BY DEF RenderingInit, OnePromise, Waiting, NewRender
<1>3. \A r \in Papers : TroublesSeen(r)
  BY DEF RenderingInit, TroublesSeen, NewRender
<1>4. GivesUpForCause
  BY DEF RenderingInit, GivesUpForCause, NewRender
<1> QED
  BY <1>1, <1>2, <1>3, <1>4 DEF RenderInv

\* What a step makes of one rendering, its history with it, in a state in which nothing
\* else changes but the installation.
Rendered(r, q, trouble, failure) ==
  /\ render' = [render EXCEPT ![r] = q]
  /\ seen' = [seen EXCEPT ![r] = @ + trouble]
  /\ failures' = [failures EXCEPT ![r] = @ + failure]
  /\ UNCHANGED <<present, auto>>

\* It is where it may be, with the troubles and failures that takes.
MayBe(q, met, failed) ==
  /\ q \in [pc : RenderSteps \cup Ended, way : 1 .. 3, again : BOOLEAN]
  /\ q.pc # "unprinted" => failed = q.way - 1
  /\ q.pc = "unprinted" => failed = 3
  /\ q.pc = "bare" => q.way = 3
  /\ q.again => met >= 1
  /\ q.pc \in {"installed", "launching"} /\ ~present => met >= 1
  /\ q.pc = "launching" /\ q.again /\ ~present => met >= 2
  /\ auto /\ q.pc = "absent" => met >= 1
  /\ auto /\ q.pc = "unlaunched" => met >= 2

\* The installation it waits for, if it waits.
Promised(q) ==
  IF q.pc \in {"installing", "reinstalling"}
    THEN promise' = TRUE /\ installs' = (IF promise THEN installs ELSE installs + 1)
    ELSE UNCHANGED <<promise, installs>>

LEMMA RenderingMoves ==
  ASSUME RenderInv, NEW r \in Papers, ~Waiting(r), NEW q, NEW trouble \in Nat, NEW failure \in Nat,
         Rendered(r, q, trouble, failure), MayBe(q, seen[r] + trouble, failures[r] + failure),
         Promised(q), troubles' \in Nat
  PROVE RenderInv'
<1>0. /\ RenderTyped /\ OnePromise /\ GivesUpForCause
      /\ \A p \in Papers : TroublesSeen(p)
      /\ q \in [pc : RenderSteps \cup Ended, way : 1 .. 3, again : BOOLEAN]
  BY DEF RenderInv, MayBe
<1> USE <1>0
<1>1. /\ render' \in [Papers -> [pc : RenderSteps \cup Ended, way : 1 .. 3, again : BOOLEAN]]
      /\ \A p \in Papers : render'[p] = IF p = r THEN q ELSE render[p]
  BY DEF Rendered, RenderTyped
<1>2. /\ seen' \in [Papers -> Nat]
      /\ \A p \in Papers : seen'[p] = IF p = r THEN seen[r] + trouble ELSE seen[p]
  BY DEF Rendered, RenderTyped
<1>3. /\ failures' \in [Papers -> Nat]
      /\ \A p \in Papers : failures'[p] = IF p = r THEN failures[r] + failure ELSE failures[p]
  BY DEF Rendered, RenderTyped
<1>4. present' = present /\ auto' = auto
  BY DEF Rendered
<1>5. RenderTyped'
  <2>1. promise' \in BOOLEAN
    BY Zenon DEF RenderTyped, Promised
  <2> QED
    BY <1>1, <1>2, <1>3, <1>4, <2>1 DEF RenderTyped
<1>6. OnePromise'
  <2>1. \A p \in Papers : p # r => (Waiting(p)' <=> Waiting(p))
    BY <1>1 DEF Waiting
  <2>2. Waiting(r)' <=> q.pc \in {"installing", "reinstalling"}
    BY <1>1 DEF Waiting
  <2>3. CASE q.pc \in {"installing", "reinstalling"}
    <3>1. promise' = TRUE /\ installs' = (IF promise THEN installs ELSE installs + 1)
      BY <2>3 DEF Promised
    <3>2. installs' = 1
      BY <3>1 DEF OnePromise
    <3>3. \E p \in Papers : Waiting(p)'
      BY <2>2, <2>3
    <3> QED
      BY <3>1, <3>2, <3>3 DEF OnePromise
  <2>4. CASE q.pc \notin {"installing", "reinstalling"}
    <3>1. (\E p \in Papers : Waiting(p)') <=> (\E p \in Papers : Waiting(p))
      BY <2>1, <2>2, <2>4
    <3>2. promise' = promise /\ installs' = installs
      BY <2>4 DEF Promised
    <3> QED
      BY <3>1, <3>2 DEF OnePromise
  <2> QED
    BY <2>3, <2>4
<1>7. ASSUME NEW p \in Papers PROVE TroublesSeen(p)'
  <2>1. CASE p = r
    BY <1>1, <1>2, <1>3, <1>4, <2>1 DEF TroublesSeen, MayBe
  <2>2. CASE p # r
    <3>1. render'[p] = render[p] /\ seen'[p] = seen[p] /\ failures'[p] = failures[p]
      BY <1>1, <1>2, <1>3, <2>2
    <3> QED
      BY <1>4, <3>1 DEF TroublesSeen
  <2> QED
    BY <2>1, <2>2
<1>8. GivesUpForCause'
  <2>1. ASSUME NEW p \in Papers
        PROVE /\ render'[p].pc = "bare" => failures'[p] >= 2
              /\ render'[p].pc = "unprinted" => failures'[p] = 3
              /\ auto /\ render'[p].pc = "absent" => seen'[p] >= 1
              /\ auto /\ render'[p].pc = "unlaunched" => seen'[p] >= 2
    <3>1. CASE p = r
      BY <1>1, <1>2, <1>3, <3>1 DEF MayBe
    <3>2. CASE p # r
      <4>1. render'[p] = render[p] /\ seen'[p] = seen[p] /\ failures'[p] = failures[p]
        BY <1>1, <1>2, <1>3, <3>2
      <4> QED
        BY <4>1 DEF GivesUpForCause
    <3> QED
      BY <3>1, <3>2
  <2> QED
    BY <1>4, <2>1 DEF GivesUpForCause
<1> QED
  BY <1>5, <1>6, <1>7, <1>8 DEF RenderInv

\* A step that changes only where a rendering is.
GoesTo(r, pc) ==
  /\ ~Waiting(r) /\ render[r].pc # "unprinted"
  /\ pc \in {"launching", "absent", "unfit", "paper", "bare"}
  /\ render' = [render EXCEPT ![r].pc = pc]
  /\ UNCHANGED <<present, auto, promise, installs, troubles, seen, failures>>
  /\ pc = "bare" => render[r].way = 3
  /\ pc = "launching" => present
  /\ auto /\ pc = "absent" => seen[r] >= 1

LEMMA RenderGoesOn ==
  ASSUME RenderInv, NEW r \in Papers, NEW pc, GoesTo(r, pc)
  PROVE RenderInv'
<1> DEFINE q == [render[r] EXCEPT !.pc = pc]
<1>0. RenderTyped /\ TroublesSeen(r)
  BY DEF RenderInv
<1>1. /\ q \in [pc : RenderSteps \cup Ended, way : 1 .. 3, again : BOOLEAN]
      /\ q.pc = pc /\ q.way = render[r].way /\ q.again = render[r].again
  BY <1>0 DEF RenderTyped, RenderSteps, Ended, GoesTo
<1>2. Rendered(r, q, 0, 0)
  BY <1>0 DEF Rendered, RenderTyped, GoesTo
<1>3. /\ failures[r] \in Nat /\ seen[r] \in Nat /\ render[r].way \in 1 .. 3
      /\ failures[r] = render[r].way - 1 /\ troubles' \in Nat
      /\ render[r].again => seen[r] >= 1
  BY <1>0 DEF RenderTyped, TroublesSeen, GoesTo
<1>4. /\ failures[r] + 0 = failures[r] /\ seen[r] + 0 = seen[r]
  BY <1>3
<1> HIDE DEF q
<1>5. MayBe(q, seen[r] + 0, failures[r] + 0)
  BY <1>1, <1>3, <1>4 DEF MayBe, GoesTo
<1>6. Promised(q)
  BY <1>1 DEF Promised, GoesTo
<1> QED
  BY <1>2, <1>3, <1>5, <1>6, RenderingMoves, Zenon DEF GoesTo

\* A rendering that goes to wait for the installation.
LEMMA RenderWaits ==
  ASSUME RenderInv, NEW r \in Papers, NEW pc \in {"installing", "reinstalling"},
         NEW trouble \in {0, 1},
         Install(r, pc), ~Waiting(r), render[r].pc # "unprinted",
         UNCHANGED <<present, auto, failures>>, troubles' \in Nat,
         seen' = [seen EXCEPT ![r] = @ + trouble],
         pc = "reinstalling" => seen[r] + trouble >= 1
  PROVE RenderInv'
<1> DEFINE q == [render[r] EXCEPT !.pc = pc, !.again = (pc = "reinstalling" \/ @)]
<1>0. RenderTyped /\ TroublesSeen(r)
  BY DEF RenderInv
<1>1. /\ q \in [pc : RenderSteps \cup Ended, way : 1 .. 3, again : BOOLEAN]
      /\ q.pc = pc /\ q.way = render[r].way
      /\ q.again => pc = "reinstalling" \/ render[r].again
  BY <1>0, Zenon DEF RenderTyped, RenderSteps
<1>2. render' = [render EXCEPT ![r] = q]
  BY <1>0, Zenon DEF Install, RenderTyped
<1>3. Rendered(r, q, trouble, 0)
  BY <1>0, <1>2 DEF Rendered, RenderTyped
<1>4. /\ failures[r] \in Nat /\ seen[r] \in Nat /\ render[r].way \in 1 .. 3
      /\ failures[r] = render[r].way - 1
      /\ render[r].again => seen[r] >= 1
  BY <1>0 DEF RenderTyped, TroublesSeen
<1>5. promise' = TRUE /\ installs' = (IF promise THEN installs ELSE installs + 1)
  BY DEF Install
<1> HIDE DEF q
<1>6. failures[r] + 0 = failures[r] /\ (q.again => seen[r] + trouble >= 1) /\ trouble \in Nat
  BY <1>1, <1>4
<1>7. MayBe(q, seen[r] + trouble, failures[r] + 0)
  BY <1>1, <1>4, <1>6 DEF MayBe
<1>8. Promised(q)
  BY <1>1, <1>5 DEF Promised
<1> QED
  BY <1>3, <1>6, <1>7, <1>8, RenderingMoves

LEMMA RenderStep == RenderInv /\ [RenderingNext]_qvars => RenderInv'
<1> SUFFICES ASSUME RenderInv, [RenderingNext]_qvars PROVE RenderInv'
  OBVIOUS
<1>0. RenderTyped /\ OnePromise /\ GivesUpForCause /\ \A r \in Papers : TroublesSeen(r)
  BY DEF RenderInv
<1> USE <1>0
<1>3. ASSUME NEW r \in Papers, EnsureBrowser(r) PROVE RenderInv'
  <2>1. /\ ~Waiting(r) /\ render[r].pc # "unprinted"
        /\ UNCHANGED <<present, auto, troubles, seen, failures>>
    BY <1>3 DEF EnsureBrowser, Waiting
  <2>2. CASE present
    <3>1. render' = [render EXCEPT ![r].pc = "launching"] /\ UNCHANGED <<promise, installs>>
      BY <1>3, <2>2 DEF EnsureBrowser
    <3>2. GoesTo(r, "launching")
      BY <2>1, <2>2, <3>1 DEF GoesTo
    <3> QED
      BY <3>2, RenderGoesOn
  <2>3. CASE ~present /\ auto
    <3>1. Install(r, "installing") /\ seen' = [seen EXCEPT ![r] = @ + 0] /\ troubles' \in Nat
      BY <1>3, <2>1, <2>3 DEF EnsureBrowser, RenderTyped
    <3> QED
      BY <2>1, <3>1, RenderWaits, Zenon
  <2>4. CASE ~present /\ ~auto
    <3>1. render' = [render EXCEPT ![r].pc = "absent"] /\ UNCHANGED <<promise, installs>>
      BY <1>3, <2>4 DEF EnsureBrowser
    <3>2. GoesTo(r, "absent")
      BY <2>1, <2>4, <3>1 DEF GoesTo
    <3> QED
      BY <3>2, RenderGoesOn
  <2> QED
    BY <2>2, <2>3, <2>4
<1>4. ASSUME NEW r \in Papers, LookAgain(r) PROVE RenderInv'
  <2>1. ~present => seen[r] >= 1
    BY <1>4 DEF LookAgain, TroublesSeen
  <2>2. GoesTo(r, IF present THEN "launching" ELSE "absent")
    BY <1>4, <2>1 DEF LookAgain, GoesTo, Waiting
  <2> QED
    BY <2>2, RenderGoesOn
<1>5. ASSUME NEW r \in Papers, LaunchFails(r) PROVE RenderInv'
  <2>1. /\ ~Waiting(r) /\ render[r].pc = "launching" /\ UNCHANGED <<present, auto, failures>>
        /\ troubles' \in Nat /\ seen[r] \in Nat
    BY <1>5 DEF LaunchFails, Waiting, RenderTyped
  <2>2. PICK trouble \in {0, 1} : /\ seen' = [seen EXCEPT ![r] = @ + trouble]
                                  /\ trouble = IF present THEN 1 ELSE 0
    BY <1>5 DEF LaunchFails, RenderTyped
  <2>3. /\ seen[r] + trouble >= 1
        /\ render[r].again => seen[r] + trouble >= 2
    BY <2>1, <2>2 DEF TroublesSeen
  <2>4. CASE auto /\ ~render[r].again
    <3>1. Install(r, "reinstalling")
      BY <1>5, <2>4 DEF LaunchFails
    <3> QED
      BY <2>1, <2>2, <2>3, <3>1, RenderWaits, Zenon
  <2>5. CASE ~(auto /\ ~render[r].again)
    <3> DEFINE q == [render[r] EXCEPT !.pc = "unlaunched"]
    <3>1. /\ render' = [render EXCEPT ![r].pc = "unlaunched"] /\ UNCHANGED <<promise, installs>>
      BY <1>5, <2>5 DEF LaunchFails
    <3>2. /\ q \in [pc : RenderSteps \cup Ended, way : 1 .. 3, again : BOOLEAN]
          /\ q.pc = "unlaunched" /\ q.way = render[r].way /\ q.again = render[r].again
      BY DEF RenderTyped, Ended
    <3>3. Rendered(r, q, trouble, 0)
      BY <2>1, <2>2, <3>1 DEF Rendered, RenderTyped
    <3>4. /\ failures[r] \in Nat /\ failures[r] + 0 = render[r].way - 1 /\ trouble \in Nat
          /\ auto => render[r].again
      BY <2>1, <2>5 DEF RenderTyped, TroublesSeen
    <3> HIDE DEF q
    <3>5. MayBe(q, seen[r] + trouble, failures[r] + 0)
      BY <2>3, <3>2, <3>4 DEF MayBe
    <3>6. Promised(q)
      BY <3>1, <3>2 DEF Promised
    <3> QED
      BY <2>1, <3>3, <3>4, <3>5, <3>6, RenderingMoves
  <2> QED
    BY <2>4, <2>5
<1>6. ASSUME NEW r \in Papers, PageFails(r) PROVE RenderInv'
  <2>1. GoesTo(r, "unfit")
    BY <1>6 DEF PageFails, GoesTo, Waiting
  <2> QED
    BY <2>1, RenderGoesOn
<1>7. ASSUME NEW r \in Papers, PrintFails(r) PROVE RenderInv'
  <2>0. /\ render[r].pc = "launching" /\ present /\ ~Waiting(r)
        /\ UNCHANGED <<present, auto, promise, installs, troubles, seen>>
        /\ failures' = [failures EXCEPT ![r] = @ + 1]
        /\ seen[r] \in Nat /\ failures[r] \in Nat /\ failures[r] = render[r].way - 1
        /\ render[r].way \in 1 .. 3 /\ seen' = [seen EXCEPT ![r] = @ + 0] /\ troubles' \in Nat
    BY <1>7 DEF PrintFails, Waiting, RenderTyped, TroublesSeen
  <2>1. CASE render[r].way < 3
    <3> DEFINE q == [pc |-> "launching", way |-> render[r].way + 1, again |-> FALSE]
    <3>1. render' = [render EXCEPT ![r] = q]
      BY <1>7, <2>1 DEF PrintFails, RenderTyped
    <3>2. q \in [pc : RenderSteps \cup Ended, way : 1 .. 3, again : BOOLEAN]
      BY <2>0, <2>1 DEF RenderSteps
    <3>3. Rendered(r, q, 0, 1)
      BY <2>0, <3>1, Zenon DEF Rendered
    <3>4. q.pc = "launching" /\ q.way = render[r].way + 1 /\ q.again = FALSE
      OBVIOUS
    <3> HIDE DEF q
    <3>5. MayBe(q, seen[r] + 0, failures[r] + 1)
      BY <2>0, <3>2, <3>4 DEF MayBe
    <3>6. Promised(q)
      BY <2>0, <3>4 DEF Promised
    <3> QED
      BY <2>0, <3>3, <3>5, <3>6, RenderingMoves
  <2>2. CASE ~(render[r].way < 3)
    <3> DEFINE q == [render[r] EXCEPT !.pc = "unprinted"]
    <3>1. render' = [render EXCEPT ![r] = q]
      BY <1>7, <2>2 DEF PrintFails, RenderTyped
    <3>2. /\ q \in [pc : RenderSteps \cup Ended, way : 1 .. 3, again : BOOLEAN]
          /\ q.pc = "unprinted" /\ q.again = render[r].again
      BY DEF RenderTyped, Ended
    <3>3. Rendered(r, q, 0, 1)
      BY <2>0, <3>1, Zenon DEF Rendered
    <3> HIDE DEF q
    <3>4. failures[r] + 1 = 3 /\ (q.again => seen[r] + 0 >= 1)
      BY <2>0, <2>2, <3>2 DEF TroublesSeen
    <3>5. MayBe(q, seen[r] + 0, failures[r] + 1)
      BY <3>2, <3>4 DEF MayBe
    <3>6. Promised(q)
      BY <2>0, <3>2 DEF Promised
    <3> QED
      BY <2>0, <3>3, <3>5, <3>6, RenderingMoves
  <2> QED
    BY <2>1, <2>2
<1>8. ASSUME NEW r \in Papers, PrintPage(r) PROVE RenderInv'
  <2>1. GoesTo(r, IF render[r].way = 3 THEN "bare" ELSE "paper")
    BY <1>8 DEF PrintPage, GoesTo, Waiting
  <2> QED
    BY <2>1, RenderGoesOn
<1>9. ASSUME NEW ok \in BOOLEAN, EndInstall(ok) PROVE RenderInv'
  <2>1. /\ UNCHANGED <<auto, troubles, seen, failures>> /\ promise' = FALSE
        /\ present' = (present \/ ok) /\ installs > 0 /\ installs' = installs - 1
    BY <1>9 DEF EndInstall
  <2>2. /\ render' \in [Papers -> [pc : RenderSteps \cup Ended, way : 1 .. 3, again : BOOLEAN]]
        /\ \A r \in Papers :
             /\ Waiting(r) => render'[r] = [render[r] EXCEPT !.pc = AfterInstall(r, ok)]
             /\ ~Waiting(r) => render'[r] = render[r]
    BY <1>9, Zenon DEF EndInstall, AfterInstall, RenderTyped, RenderSteps, Ended
  <2>3. \A r \in Papers :
          /\ render'[r].way = render[r].way /\ render'[r].again = render[r].again
          /\ Waiting(r) => render'[r].pc = AfterInstall(r, ok)
    BY <2>2 DEF RenderTyped
  <2>4. RenderTyped'
    BY <2>1, <2>2, Zenon DEF RenderTyped
  <2>5. \A r \in Papers : ~Waiting(r)'
    BY <2>2, <2>3 DEF Waiting, AfterInstall
  <2>6. OnePromise'
    <3>1. installs = 1
      BY <2>1 DEF OnePromise
    <3> QED
      BY <2>1, <2>5, <3>1 DEF OnePromise
  <2>7. ASSUME NEW r \in Papers PROVE TroublesSeen(r)'
    <3>1. CASE Waiting(r)
      BY <2>1, <2>3, <3>1 DEF TroublesSeen, AfterInstall, Waiting, RenderTyped
    <3>2. CASE ~Waiting(r)
      BY <2>1, <2>2, <3>2 DEF TroublesSeen, RenderTyped
    <3> QED
      BY <3>1, <3>2
  <2>8. GivesUpForCause'
    <3>1. ASSUME NEW r \in Papers
          PROVE \/ render'[r] = render[r]
                \/ render'[r].pc \notin {"bare", "unprinted", "absent", "unlaunched"}
      BY <2>2, <2>3 DEF AfterInstall
    <3> QED
      BY <2>1, <3>1 DEF GivesUpForCause
  <2> QED
    BY <2>4, <2>6, <2>7, <2>8 DEF RenderInv
<1>10. ASSUME Vanish PROVE RenderInv'
  <2>1. /\ present /\ present' = FALSE /\ troubles' = troubles + 1
        /\ UNCHANGED <<auto, promise, installs, render, failures>>
        /\ seen' \in [Papers -> Nat]
        /\ \A r \in Papers : seen'[r] = IF render[r].pc \in {"new"} \cup Ended
                                          THEN seen[r] ELSE seen[r] + 1
    BY <1>10 DEF Vanish, RenderTyped
  <2>2. RenderTyped'
    <3>1. troubles' \in Nat
      BY <2>1 DEF RenderTyped
    <3> QED
      BY <2>1, <3>1, Zenon DEF RenderTyped
  <2>3. OnePromise'
    BY <2>1 DEF OnePromise, Waiting
  <2>4. \A r \in Papers : TroublesSeen(r)'
    BY <2>1 DEF TroublesSeen, Ended, RenderTyped
  <2>5. GivesUpForCause'
    BY <2>1 DEF GivesUpForCause, RenderTyped
  <2> QED
    BY <2>2, <2>3, <2>4, <2>5 DEF RenderInv
<1>11. CASE UNCHANGED qvars
  BY <1>11
  DEF qvars, RenderInv, RenderTyped, OnePromise, Waiting, TroublesSeen, GivesUpForCause
<1> QED
  BY <1>3, <1>4, <1>5, <1>6, <1>7, <1>8, <1>9, <1>10, <1>11 DEF RenderingNext

(***************************************************************************)
(* OneTimeCodes                                                            *)
(***************************************************************************)

CodeRows == [age : Ages, consumed : BOOLEAN]
SpenderSteps ==
  {"away", "registering", "verifying", "claiming", "tokening", "signing", "resetting"}

CodesTyped ==
  /\ OneTimeCodesTypeOK
  /\ spender \in [Spenders -> [pc : SpenderSteps, item : Nat \cup Tokens]]

\* Requests for a code that are past the cooldown, and those of them past the limit.
PassedAskers == {a \in Askers : asker[a] \in {"counting", "creating"}}
CreatingAskers == {a \in Askers : asker[a] = "creating"}
FreshCodes == {i \in CodeNumbers : codes[i].age = "fresh"}
Beside == IF hurried THEN Cardinality(Askers) - 1 ELSE 0

\* Both limits, counting these requests too.
CodesAhead ==
  /\ Cardinality(FreshCodes) + Cardinality(PassedAskers) <= 1 + Beside
  /\ Cardinality(Recent) + Cardinality(CreatingAskers) <= MaxRecent + Beside

\* A code is never younger than one made after it: unless the last one is fresh, none is.
Rank(age) ==
  IF age = "fresh" THEN 0 ELSE IF age = "valid" THEN 1 ELSE IF age = "expired" THEN 2 ELSE 3
AgesInOrder ==
  \A i, j \in CodeNumbers : i < j => Rank(codes[j].age) <= Rank(codes[i].age)

\* A code that brought something is consumed, and not two things.
CodeSpent(i) ==
  /\ yields[i] > 0 => i \in CodeNumbers /\ codes[i].consumed
  /\ yields[i] <= 1 \/ i \in crowded

\* A verification alone with its code is the first to bring something of it.
HeldAlone(s) ==
  spender[s].pc = "verifying" /\ spender[s].item \notin crowded =>
    /\ yields[spender[s].item] = 0
    /\ \A q \in Spenders : q # s /\ Claiming(q) => spender[q].item # spender[s].item

TokenSpent(t) ==
  /\ token[t] \in {"none", "live"} => resets[t] = 0
  /\ resets[t] <= 1 \/ t \in shared

\* A reset alone with its token is the first to set a password with it.
ResetAlone(s) ==
  spender[s].pc = "resetting" /\ spender[s].item \notin shared =>
    /\ resets[spender[s].item] = 0
    /\ \A q \in Spenders :
         q # s /\ spender[q].pc = "resetting" => spender[q].item # spender[s].item

CodesCounted == CodesAhead /\ AgesInOrder
CodesHeld == (\A i \in 1 .. MaxCodes : CodeSpent(i)) /\ (\A s \in Spenders : HeldAlone(s))
TokensHeld == (\A t \in Tokens : TokenSpent(t)) /\ (\A s \in Spenders : ResetAlone(s))

CodesKept == CodesTyped /\ CodesCounted /\ CodesHeld /\ TokensHeld

LEMMA CodesFinite ==
  ASSUME CodesTyped
  PROVE  /\ IsFiniteSet(FreshCodes) /\ IsFiniteSet(Recent)
         /\ IsFiniteSet(PassedAskers) /\ IsFiniteSet(CreatingAskers)
         /\ Cardinality(FreshCodes) \in Nat /\ Cardinality(Recent) \in Nat
         /\ Cardinality(PassedAskers) \in Nat /\ Cardinality(CreatingAskers) \in Nat
         /\ Cardinality(Askers) \in Nat \ {0}
         /\ Cardinality(PassedAskers) <= Cardinality(Askers)
         /\ Cardinality(CreatingAskers) <= Cardinality(PassedAskers)
         /\ Len(codes) \in Nat /\ hurried \in BOOLEAN
         /\ \A i \in CodeNumbers : codes[i] \in CodeRows
<1>1. /\ Len(codes) \in Nat /\ hurried \in BOOLEAN
      /\ \A i \in CodeNumbers : codes[i] \in CodeRows
  <2>1. codes \in Seq(CodeRows)
    BY DEF CodesTyped, OneTimeCodesTypeOK, CodeRows
  <2> QED
    BY <2>1, ElementOfSeq, LenProperties DEF CodesTyped, OneTimeCodesTypeOK, CodeNumbers
<1>2. IsFiniteSet(CodeNumbers)
  BY <1>1, FS_Interval DEF CodeNumbers
<1>3. /\ FreshCodes \subseteq CodeNumbers /\ Recent \subseteq CodeNumbers
      /\ PassedAskers \subseteq Askers /\ CreatingAskers \subseteq PassedAskers
  BY DEF FreshCodes, Recent, PassedAskers, CreatingAskers
<1>4. /\ IsFiniteSet(FreshCodes) /\ IsFiniteSet(Recent) /\ IsFiniteSet(PassedAskers)
      /\ Cardinality(PassedAskers) <= Cardinality(Askers)
  BY <1>2, <1>3, FS_Subset, OneTimeCodesAssumption
<1>5. IsFiniteSet(CreatingAskers) /\ Cardinality(CreatingAskers) <= Cardinality(PassedAskers)
  BY <1>3, <1>4, FS_Subset
<1>6. Cardinality(Askers) \in Nat \ {0}
  BY FS_CardinalityType, FS_EmptySet, OneTimeCodesAssumption
<1> QED
  BY <1>1, <1>4, <1>5, <1>6, FS_CardinalityType

\* A request that spends a code holds one, and one that resets a password a token.
LEMMA SpendersHold ==
  ASSUME CodesTyped, NEW s \in Spenders
  PROVE  /\ spender[s].pc \in {"verifying", "claiming", "tokening", "signing"} =>
              spender[s].item \in CodeNumbers /\ spender[s].item \in 1 .. MaxCodes
         /\ spender[s].pc = "resetting" => spender[s].item \in Tokens
<1>1. /\ NotSpending.pc = "away"
      /\ [pc |-> "registering", item |-> 0].pc = "registering"
  BY DEF NotSpending
<1>2. CodeNumbers \subseteq 1 .. MaxCodes
  BY CodesFinite, OneTimeCodesAssumption DEF CodeNumbers, CodesTyped, OneTimeCodesTypeOK
<1>3. \/ spender[s] = NotSpending
      \/ spender[s] = [pc |-> "registering", item |-> 0]
      \/ /\ spender[s].pc \in {"verifying", "claiming", "tokening", "signing"}
         /\ spender[s].item \in CodeNumbers
      \/ spender[s].pc = "resetting" /\ spender[s].item \in Tokens
  BY DEF CodesTyped, OneTimeCodesTypeOK
<1> QED
  BY <1>1, <1>2, <1>3, Zenon

\* One code changes.
LEMMA CodeReplaced ==
  ASSUME CodesTyped, NEW i \in CodeNumbers, NEW c \in CodeRows, codes' = [codes EXCEPT ![i] = c]
  PROVE  /\ codes' \in Seq(CodeRows) /\ Len(codes') = Len(codes)
         /\ \A j \in CodeNumbers : codes'[j] = IF j = i THEN c ELSE codes[j]
<1>1. codes \in Seq(CodeRows) /\ i \in 1 .. Len(codes)
  BY DEF CodesTyped, OneTimeCodesTypeOK, CodeRows, CodeNumbers
<1> QED
  BY <1>1, ExceptSeq DEF CodeNumbers

LEMMA CodesLimited == CodesKept => SpentOnce /\ CodesWithinLimit
<1> SUFFICES ASSUME CodesKept PROVE SpentOnce /\ CodesWithinLimit
  OBVIOUS
<1> USE DEF CodesKept
<1>1. SpentOnce
  <2>1. CodeNumbers \subseteq 1 .. MaxCodes
    BY CodesFinite, OneTimeCodesAssumption DEF CodeNumbers, CodesTyped, OneTimeCodesTypeOK
  <2> QED
    BY <2>1 DEF SpentOnce, CodesHeld, CodeSpent, TokensHeld, TokenSpent
<1>2. CodesWithinLimit
  BY CodesFinite, OneTimeCodesAssumption
  DEF CodesWithinLimit, CodesCounted, CodesAhead, Beside, FreshCodes
<1> QED
  BY <1>1, <1>2

LEMMA CodesBegin == OneTimeCodesInit => CodesKept
<1> SUFFICES ASSUME OneTimeCodesInit PROVE CodesKept
  OBVIOUS
<1>1. CodesTyped
  <2>1. codes \in Seq(CodeRows) /\ Len(codes) = 0
    BY EmptySeq DEF OneTimeCodesInit
  <2>2. spender \in [Spenders -> [pc : SpenderSteps, item : Nat \cup Tokens]]
    BY DEF OneTimeCodesInit, NotSpending, SpenderSteps
  <2>3. /\ yields \in [1 .. MaxCodes -> Nat] /\ resets \in [Tokens -> Nat]
        /\ token \in [Tokens -> {"none", "live", "used", "expired"}]
        /\ asker \in [Askers -> {"away", "cooling", "counting", "creating"}]
    BY DEF OneTimeCodesInit
  <2>4. /\ purpose \in {"LOGIN", "PASSWORD_RESET"} /\ account \in BOOLEAN
        /\ crowded = {} /\ shared = {} /\ hurried \in BOOLEAN
        /\ \A s \in Spenders : spender[s] = NotSpending
    BY Zenon DEF OneTimeCodesInit
  <2>5. Len(codes) <= MaxCodes
    BY <2>1, OneTimeCodesAssumption
  <2> QED
    BY <2>1, <2>2, <2>3, <2>4, <2>5 DEF CodesTyped, OneTimeCodesTypeOK, CodeRows
<1>2. FreshCodes = {} /\ Recent = {} /\ PassedAskers = {} /\ CreatingAskers = {}
  BY EmptySeq
  DEF OneTimeCodesInit, FreshCodes, Recent, CodeNumbers, PassedAskers, CreatingAskers
<1>3. CodesCounted
  <2>1. CodeNumbers = {}
    BY EmptySeq DEF OneTimeCodesInit, CodeNumbers
  <2> QED
    BY <1>2, <2>1, FS_EmptySet, OneTimeCodesAssumption
    DEF CodesCounted, CodesAhead, AgesInOrder, Beside, OneTimeCodesInit
<1>4. CodesHeld /\ TokensHeld
  BY
  DEF OneTimeCodesInit, CodesHeld, TokensHeld, CodeSpent, HeldAlone, TokenSpent, ResetAlone,
         NotSpending
<1> QED
  BY <1>1, <1>3, <1>4 DEF CodesKept

\* What a step may leave as it is for the limits, the spending of codes, and tokens.
SameAges ==
  /\ Len(codes') = Len(codes)
  /\ \A i \in CodeNumbers : codes'[i].age = codes[i].age
SameConsumed ==
  /\ Len(codes') = Len(codes)
  /\ \A i \in CodeNumbers : codes'[i].consumed = codes[i].consumed

LEMMA CountsUntouched ==
  ASSUME CodesKept, SameAges, UNCHANGED <<asker, hurried>>
  PROVE CodesCounted'
<1>1. /\ FreshCodes' = FreshCodes /\ Recent' = Recent
      /\ PassedAskers' = PassedAskers /\ CreatingAskers' = CreatingAskers
  BY DEF SameAges, FreshCodes, Recent, CodeNumbers, PassedAskers, CreatingAskers
<1>2. Beside' = Beside /\ CodeNumbers' = CodeNumbers
  BY DEF Beside, SameAges, CodeNumbers
<1> QED
  BY <1>1, <1>2 DEF CodesKept, CodesCounted, CodesAhead, AgesInOrder, SameAges

\* The same requests or fewer ahead, and no younger codes.
LEMMA FewerAsk ==
  ASSUME CodesKept, CodesTyped', hurried' = hurried,
         FreshCodes' \subseteq FreshCodes, Recent' \subseteq Recent,
         PassedAskers' \subseteq PassedAskers, CreatingAskers' \subseteq CreatingAskers
  PROVE CodesAhead'
<1>1. /\ IsFiniteSet(FreshCodes) /\ IsFiniteSet(Recent) /\ IsFiniteSet(PassedAskers)
      /\ IsFiniteSet(CreatingAskers)
  BY CodesFinite DEF CodesKept
<1>2. /\ Cardinality(FreshCodes') <= Cardinality(FreshCodes)
      /\ Cardinality(Recent') <= Cardinality(Recent)
      /\ Cardinality(PassedAskers') <= Cardinality(PassedAskers)
      /\ Cardinality(CreatingAskers') <= Cardinality(CreatingAskers)
  BY <1>1, FS_Subset
<1>3. /\ Cardinality(FreshCodes) \in Nat /\ Cardinality(Recent) \in Nat
      /\ Cardinality(PassedAskers) \in Nat /\ Cardinality(CreatingAskers) \in Nat
      /\ Cardinality(Askers) \in Nat /\ hurried \in BOOLEAN
  BY CodesFinite DEF CodesKept
<1>4. /\ Cardinality(FreshCodes') \in Nat /\ Cardinality(Recent') \in Nat
      /\ Cardinality(PassedAskers') \in Nat /\ Cardinality(CreatingAskers') \in Nat
  BY <1>1, FS_Subset, FS_CardinalityType
<1>5. Beside' = Beside /\ Beside \in Int
  BY <1>3 DEF Beside
<1> QED
  BY <1>2, <1>3, <1>4, <1>5, OneTimeCodesAssumption DEF CodesKept, CodesCounted, CodesAhead

\* A request for a code goes on, without passing a limit.
LEMMA AskerGoesOn ==
  ASSUME CodesKept, NEW a \in Askers, NEW step \in {"away", "cooling"}, Asking(a, step),
         UNCHANGED <<purpose, account, codes, token, spender, yields, resets, crowded, shared,
                     hurried>>
  PROVE CodesKept'
<1> USE DEF CodesKept
<1>1. asker' = [asker EXCEPT ![a] = step]
  BY DEF Asking
<1>2. CodesTyped'
  BY <1>1 DEF CodesTyped, OneTimeCodesTypeOK, CodeNumbers
<1>3. /\ PassedAskers' \subseteq PassedAskers /\ CreatingAskers' \subseteq CreatingAskers
      /\ FreshCodes' = FreshCodes /\ Recent' = Recent
  BY <1>1 DEF PassedAskers, CreatingAskers, FreshCodes, Recent, CodeNumbers, CodesTyped,
              OneTimeCodesTypeOK
<1>4. CodesAhead'
  BY <1>2, <1>3, FewerAsk
<1>5. AgesInOrder' /\ CodesHeld' /\ TokensHeld'
  BY DEF CodesCounted, AgesInOrder, CodeNumbers, CodesHeld, CodeSpent, HeldAlone, Claiming,
         TokensHeld, TokenSpent, ResetAlone
<1> QED
  BY <1>2, <1>4, <1>5 DEF CodesCounted

LEMMA CooldownPassed ==
  ASSUME CodesKept, NEW a \in Askers, CheckCooldown(a),
         ~(Len(codes) > 0 /\ codes[Len(codes)].age = "fresh")
  PROVE CodesKept'
<1> USE DEF CodesKept
<1>1. /\ asker' = [asker EXCEPT ![a] = "counting"] /\ asker[a] = "cooling"
      /\ hurried' = (hurried \/ \E b \in Askers : asker[b] \in {"counting", "creating"})
      /\ UNCHANGED <<purpose, account, codes, token, spender, yields, resets, crowded, shared>>
  BY DEF CheckCooldown, Asking
<1>2. CodesTyped'
  BY <1>1 DEF CodesTyped, OneTimeCodesTypeOK, CodeNumbers
<1>3. FreshCodes = {}
  <2>1. SUFFICES ASSUME NEW i \in CodeNumbers, codes[i].age = "fresh" PROVE FALSE
    BY DEF FreshCodes
  <2>2. Len(codes) \in Nat /\ i \in 1 .. Len(codes) /\ Len(codes) \in CodeNumbers
    BY CodesFinite DEF CodeNumbers
  <2>3. codes[Len(codes)].age # "fresh"
    BY <2>2
  <2>4. i < Len(codes)
    BY <2>1, <2>2, <2>3
  <2>5. Rank(codes[Len(codes)].age) <= 0
    BY <2>1, <2>2, <2>4 DEF CodesCounted, AgesInOrder, Rank
  <2>6. codes[Len(codes)].age \in Ages
    BY <2>2, CodesFinite DEF CodeRows
  <2> QED
    BY <2>3, <2>5, <2>6 DEF Rank, Ages
<1>4. /\ FreshCodes' = FreshCodes /\ Recent' = Recent /\ CreatingAskers' = CreatingAskers
      /\ PassedAskers' = PassedAskers \cup {a}
      /\ ~hurried' => PassedAskers = {}
  BY <1>1, Zenon DEF PassedAskers, CreatingAskers, FreshCodes, Recent, CodeNumbers, CodesTyped,
              OneTimeCodesTypeOK
<1>5. Cardinality(FreshCodes') = 0
  BY <1>3, <1>4, FS_EmptySet
<1>6. /\ Cardinality(PassedAskers') <= Cardinality(Askers)
      /\ ~hurried' => Cardinality(PassedAskers') = 1
      /\ Cardinality(Askers) \in Nat \ {0} /\ Cardinality(PassedAskers') \in Nat
      /\ hurried' \in BOOLEAN
  <2>1. /\ Cardinality(PassedAskers') <= Cardinality(Askers)
        /\ Cardinality(PassedAskers') \in Nat /\ hurried' \in BOOLEAN
    <3>1. PassedAskers' \subseteq Askers
      BY <1>4 DEF PassedAskers
    <3> QED
      BY <1>2, <3>1, FS_Subset, FS_CardinalityType, OneTimeCodesAssumption
      DEF CodesTyped, OneTimeCodesTypeOK
  <2>2. ~hurried' => PassedAskers' = {a}
    BY <1>4
  <2> QED
    BY <2>1, <2>2, FS_Singleton, CodesFinite, Zenon
<1>7. /\ Cardinality(Recent) \in Nat /\ Cardinality(CreatingAskers) \in Nat
      /\ Beside \in Int /\ Beside' \in Int /\ Beside <= Beside'
  BY <1>1, <1>6, CodesFinite DEF Beside
<1>8. CodesAhead'
  <2>1. Cardinality(FreshCodes') + Cardinality(PassedAskers') <= 1 + Beside'
    BY <1>5, <1>6 DEF Beside
  <2>2. Cardinality(Recent') + Cardinality(CreatingAskers') <= MaxRecent + Beside'
    BY <1>4, <1>7, OneTimeCodesAssumption DEF CodesCounted, CodesAhead
  <2> QED
    BY <2>1, <2>2 DEF CodesAhead
<1>9. AgesInOrder' /\ CodesHeld' /\ TokensHeld'
  BY <1>1
  DEF CodesCounted, AgesInOrder, CodeNumbers, CodesHeld, CodeSpent, HeldAlone, Claiming,
              TokensHeld, TokenSpent, ResetAlone
<1> QED
  BY <1>2, <1>8, <1>9 DEF CodesCounted

LEMMA LimitPassed ==
  ASSUME CodesKept, NEW a \in Askers, CountRecent(a), RecentWithinLimit
  PROVE CodesKept'
<1> USE DEF CodesKept
<1>1. /\ asker' = [asker EXCEPT ![a] = "creating"] /\ asker[a] = "counting"
      /\ UNCHANGED <<purpose, account, codes, token, spender, yields, resets, crowded, shared,
                     hurried>>
      /\ Cardinality(Recent) < MaxRecent
  BY DEF CountRecent, Asking, RecentWithinLimit
<1>2. CodesTyped'
  BY <1>1 DEF CodesTyped, OneTimeCodesTypeOK, CodeNumbers
<1>3. /\ FreshCodes' = FreshCodes /\ Recent' = Recent
      /\ PassedAskers' = PassedAskers /\ Beside' = Beside
      /\ CreatingAskers' \subseteq PassedAskers
  BY <1>1 DEF PassedAskers, CreatingAskers, FreshCodes, Recent, CodeNumbers, CodesTyped,
              OneTimeCodesTypeOK, Beside
<1>4. /\ Cardinality(CreatingAskers') <= Cardinality(PassedAskers)
      /\ Cardinality(CreatingAskers') \in Nat
  BY <1>3, CodesFinite, FS_Subset, FS_CardinalityType
<1>5. /\ Cardinality(FreshCodes) \in Nat /\ Cardinality(Recent) \in Nat
      /\ Cardinality(PassedAskers) \in Nat /\ Cardinality(Askers) \in Nat
      /\ Cardinality(PassedAskers) <= Cardinality(Askers) /\ hurried \in BOOLEAN
      /\ Beside \in Int
  BY CodesFinite DEF Beside
<1>6. Cardinality(PassedAskers) <= 1 + Beside
  BY <1>5 DEF CodesCounted, CodesAhead
<1>7. Cardinality(Recent') + Cardinality(CreatingAskers') <= MaxRecent + Beside'
  BY <1>1, <1>3, <1>4, <1>5, <1>6, OneTimeCodesAssumption
<1>8. CodesAhead'
  BY <1>3, <1>7 DEF CodesCounted, CodesAhead
<1>9. AgesInOrder' /\ CodesHeld' /\ TokensHeld'
  BY <1>1
  DEF CodesCounted, AgesInOrder, CodeNumbers, CodesHeld, CodeSpent, HeldAlone, Claiming,
              TokensHeld, TokenSpent, ResetAlone
<1> QED
  BY <1>2, <1>8, <1>9 DEF CodesCounted

LEMMA CodeMade ==
  ASSUME CodesKept, NEW a \in Askers, CreateCode(a)
  PROVE CodesKept'
<1> USE DEF CodesKept
<1> DEFINE n == Len(codes) + 1
<1>1. /\ asker' = [asker EXCEPT ![a] = "away"] /\ asker[a] = "creating"
      /\ codes' = Append(codes, [age |-> "fresh", consumed |-> FALSE]) /\ Len(codes) < MaxCodes
      /\ UNCHANGED <<purpose, account, token, spender, yields, resets, crowded, shared, hurried>>
  BY DEF CreateCode, Asking
<1>2. /\ codes' \in Seq(CodeRows) /\ Len(codes') = n /\ Len(codes) \in Nat
      /\ \A i \in CodeNumbers : codes'[i] = codes[i]
      /\ codes'[n] = [age |-> "fresh", consumed |-> FALSE]
  <2>1. codes \in Seq(CodeRows) /\ [age |-> "fresh", consumed |-> FALSE] \in CodeRows
    BY DEF CodesTyped, OneTimeCodesTypeOK, CodeRows, Ages
  <2> QED
    BY <1>1, <2>1, AppendProperties, CodesFinite DEF CodeNumbers
<1>3. CodeNumbers' = CodeNumbers \cup {n} /\ n \notin CodeNumbers
  BY <1>2 DEF CodeNumbers
<1>4. CodesTyped'
  <2>1. /\ Len(codes') <= MaxCodes /\ crowded' \subseteq CodeNumbers'
        /\ asker' \in [Askers -> {"away", "cooling", "counting", "creating"}]
    BY <1>1, <1>2, <1>3, OneTimeCodesAssumption DEF CodesTyped, OneTimeCodesTypeOK
  <2>2. \A s \in Spenders : spender[s].item \in CodeNumbers => spender[s].item \in CodeNumbers'
    BY <1>3
  <2> QED
    BY <1>1, <1>2, <2>1, <2>2 DEF CodesTyped, OneTimeCodesTypeOK, CodeRows
<1> HIDE DEF n
<1>5. /\ FreshCodes' = FreshCodes \cup {n} /\ n \notin FreshCodes
      /\ Recent' = Recent \cup {n} /\ n \notin Recent
  BY <1>2, <1>3 DEF FreshCodes, Recent
<1>6. /\ PassedAskers' = PassedAskers \ {a} /\ a \in PassedAskers
      /\ CreatingAskers' = CreatingAskers \ {a} /\ a \in CreatingAskers
  BY <1>1 DEF PassedAskers, CreatingAskers, CodesTyped, OneTimeCodesTypeOK
<1>7. /\ Cardinality(FreshCodes') = Cardinality(FreshCodes) + 1
      /\ Cardinality(Recent') = Cardinality(Recent) + 1
      /\ Cardinality(PassedAskers') = Cardinality(PassedAskers) - 1
      /\ Cardinality(CreatingAskers') = Cardinality(CreatingAskers) - 1
  BY <1>5, <1>6, CodesFinite, FS_AddElement, FS_RemoveElement, Zenon
<1>8. /\ Cardinality(FreshCodes') + Cardinality(PassedAskers')
           = Cardinality(FreshCodes) + Cardinality(PassedAskers)
      /\ Cardinality(Recent') + Cardinality(CreatingAskers')
           = Cardinality(Recent) + Cardinality(CreatingAskers)
  BY <1>7, CodesFinite, SMTT(30)
<1>9. CodesAhead'
  BY <1>1, <1>8 DEF CodesCounted, CodesAhead, Beside
<1>10. AgesInOrder'
  <2>1. \A i \in CodeNumbers : codes[i].age \in Ages
    BY CodesFinite DEF CodeRows
  <2>2. ASSUME NEW i \in CodeNumbers', NEW j \in CodeNumbers', i < j
        PROVE Rank(codes'[j].age) <= Rank(codes'[i].age)
    <3>1. i \in CodeNumbers
      BY <1>2, <1>3, <2>2 DEF CodeNumbers, n
    <3>2. CASE j = n
      BY <1>2, <2>1, <3>1, <3>2 DEF Rank
    <3>3. CASE j \in CodeNumbers
      BY <1>2, <2>2, <3>1, <3>3 DEF CodesCounted, AgesInOrder
    <3> QED
      BY <1>3, <3>2, <3>3
  <2> QED
    BY <2>2 DEF AgesInOrder
<1>11. CodesHeld'
  BY <1>1, <1>2, <1>3, Zenon DEF CodesHeld, CodeSpent, HeldAlone, Claiming
<1>12. TokensHeld'
  BY <1>1 DEF TokensHeld, TokenSpent, ResetAlone
<1> QED
  BY <1>4, <1>9, <1>10, <1>11, <1>12 DEF CodesCounted

LEMMA CodeOlder ==
  ASSUME CodesKept, NEW i \in CodeNumbers, CodeAges(i)
  PROVE CodesKept'
<1> USE DEF CodesKept
<1> DEFINE c == [codes[i] EXCEPT !.age = Older(codes[i].age)]
<1>1. /\ codes' = [codes EXCEPT ![i].age = Older(@)] /\ codes[i].age # "forgotten"
      /\ i > 1 => codes[i].age # codes[i - 1].age
      /\ UNCHANGED <<purpose, account, token, asker, spender, yields, resets, crowded, shared,
                     hurried>>
  BY DEF CodeAges
<1>2. /\ codes \in Seq(CodeRows) /\ codes[i] \in CodeRows
      /\ i \in 1 .. Len(codes) /\ Len(codes) \in Nat
  BY CodesFinite DEF CodesTyped, OneTimeCodesTypeOK, CodeRows, CodeNumbers
<1>3. /\ c \in CodeRows /\ c.age = Older(codes[i].age) /\ c.consumed = codes[i].consumed
      /\ c.age # "fresh"
      /\ Rank(c.age) = Rank(codes[i].age) + 1
  BY <1>1, <1>2 DEF CodeRows, Older, Ages, Rank
<1>4. codes' = [codes EXCEPT ![i] = c]
  BY <1>1, <1>2
<1> HIDE DEF c
<1>5. /\ codes' \in Seq(CodeRows) /\ Len(codes') = Len(codes)
      /\ \A j \in CodeNumbers : codes'[j] = IF j = i THEN c ELSE codes[j]
  BY <1>3, <1>4, CodeReplaced, Zenon
<1>6. CodesTyped' /\ CodeNumbers' = CodeNumbers
  BY <1>1, <1>5 DEF CodesTyped, OneTimeCodesTypeOK, CodeRows, CodeNumbers
<1>7. /\ FreshCodes' \subseteq FreshCodes /\ Recent' \subseteq Recent
      /\ PassedAskers' = PassedAskers /\ CreatingAskers' = CreatingAskers
  BY <1>1, <1>3, <1>5, <1>6 DEF FreshCodes, Recent, PassedAskers, CreatingAskers
<1>8. CodesAhead'
  BY <1>1, <1>6, <1>7, FewerAsk
<1>9. AgesInOrder'
  <2>1. \A j \in CodeNumbers : codes[j].age \in Ages /\ Rank(codes[j].age) \in Nat
    BY CodesFinite DEF CodeRows, Rank
  <2>2. ASSUME NEW j \in CodeNumbers, NEW k \in CodeNumbers, j < k
        PROVE Rank(codes'[k].age) <= Rank(codes'[j].age)
    <3>1. j \in Int /\ k \in Int /\ Rank(codes[k].age) <= Rank(codes[j].age)
      BY <2>2, CodesFinite DEF CodesCounted, AgesInOrder, CodeNumbers
    <3>2. CASE k # i
      <4>1. codes'[k] = codes[k]
        BY <1>5, <3>2
      <4>2. CASE j # i
        <5>1. codes'[j] = codes[j]
          BY <1>5, <4>2
        <5> QED
          BY <3>1, <4>1, <5>1
      <4>3. CASE j = i
        <5>1. codes'[j] = c /\ Rank(codes'[j].age) = Rank(codes[j].age) + 1
          BY <1>3, <1>5, <4>3
        <5> QED
          BY <2>1, <3>1, <4>1, <5>1
      <4> QED
        BY <4>2, <4>3
    <3>3. CASE k = i
      <4>1. i > 1 /\ i - 1 \in CodeNumbers /\ j <= i - 1
        BY <1>2, <2>2, <3>1, <3>3 DEF CodeNumbers
      <4>2. Rank(codes[i].age) <= Rank(codes[i - 1].age)
        BY <1>2, <4>1 DEF CodesCounted, AgesInOrder
      <4>3. Rank(codes[i].age) + 1 <= Rank(codes[i - 1].age)
        <5>1. codes[i].age # codes[i - 1].age
          BY <1>1, <4>1
        <5> PICK x \in Ages, y \in Ages : x = codes[i].age /\ y = codes[i - 1].age
          BY <2>1, <4>1
        <5>2. x # y /\ Rank(x) <= Rank(y)
          BY <4>2, <5>1
        <5>3. Rank(x) + 1 <= Rank(y)
          BY <5>2 DEF Rank, Ages
        <5> QED
          BY <5>3
      <4>4. Rank(codes[i - 1].age) <= Rank(codes[j].age)
        <5>1. CASE j = i - 1
          BY <2>1, <5>1
        <5>2. CASE j # i - 1
          <6>1. j < i - 1 /\ i - 1 \in CodeNumbers
            BY <3>1, <4>1, <5>2
          <6>2. AgesInOrder
            BY DEF CodesCounted
          <6> QED
            BY <6>1, <6>2 DEF AgesInOrder
        <5> QED
          BY <5>1, <5>2
      <4>5. codes'[k] = c /\ codes'[j] = codes[j] /\ j # i
        BY <1>5, <2>2, <3>1, <3>3
      <4>6. Rank(codes'[k].age) = Rank(codes[i].age) + 1
        BY <1>3, <4>5
      <4>7. Rank(codes'[j].age) = Rank(codes[j].age)
        BY <4>5
      <4> PICK x \in Nat, y \in Nat, z \in Nat :
            /\ x = Rank(codes[i].age) /\ y = Rank(codes[i - 1].age)
            /\ z = Rank(codes[j].age)
        BY <2>1, <4>1
      <4>8. x + 1 <= z
        BY <4>3, <4>4
      <4> QED
        BY <4>6, <4>7, <4>8
    <3> QED
      BY <3>2, <3>3
  <2> QED
    BY <1>6, <2>2 DEF AgesInOrder
<1>10. SameConsumed
  BY <1>3, <1>5 DEF SameConsumed
<1>11. CodesHeld' /\ TokensHeld'
  BY <1>1, <1>6, <1>10
  DEF SameConsumed, CodesHeld, CodeSpent, HeldAlone, Claiming, TokensHeld,
                           TokenSpent, ResetAlone
<1> QED
  BY <1>6, <1>8, <1>9, <1>11 DEF CodesCounted

\* How a spending request is formed.
WellSpending(q) ==
  /\ q \in [pc : SpenderSteps, item : Nat \cup Tokens]
  /\ \/ q = NotSpending
     \/ q = [pc |-> "registering", item |-> 0]
     \/ q.pc \in {"verifying", "claiming", "tokening", "signing"} /\ q.item \in CodeNumbers
     \/ q.pc = "resetting" /\ q.item \in Tokens

\* A step of a spending request, over the same codes but for consumedAt.
SpenderMoved(s, q) ==
  /\ WellSpending(q) /\ spender' = [spender EXCEPT ![s] = q]
  /\ codes' \in Seq(CodeRows) /\ SameAges /\ UNCHANGED <<purpose, asker, hurried>>
  /\ account' \in BOOLEAN /\ token' \in [Tokens -> {"none", "live", "used", "expired"}]
  /\ yields' \in [1 .. MaxCodes -> Nat] /\ resets' \in [Tokens -> Nat]
  /\ crowded' \subseteq CodeNumbers /\ shared' \subseteq Tokens

LEMMA SpenderMoves ==
  ASSUME CodesKept, NEW s \in Spenders, NEW q, SpenderMoved(s, q)
  PROVE  /\ CodesTyped' /\ CodesCounted' /\ CodeNumbers' = CodeNumbers
         /\ \A p \in Spenders : spender'[p] = IF p = s THEN q ELSE spender[p]
<1> USE DEF CodesKept
<1>1. /\ CodeNumbers' = CodeNumbers
      /\ \A p \in Spenders : spender'[p] = IF p = s THEN q ELSE spender[p]
      /\ spender' \in [Spenders -> [pc : SpenderSteps, item : Nat \cup Tokens]]
  BY DEF SpenderMoved, SameAges, CodeNumbers, CodesTyped, WellSpending
<1>2. CodesTyped'
  BY <1>1 DEF SpenderMoved, SameAges, CodesTyped, OneTimeCodesTypeOK, WellSpending, CodeRows
<1>3. CodesCounted'
  BY CountsUntouched DEF SpenderMoved
<1> QED
  BY <1>1, <1>2, <1>3

\* A spending request that goes where it holds neither a code nor a token to reset with.
LEMMA SpenderLeaves ==
  ASSUME CodesKept, NEW s \in Spenders, NEW q, WellSpending(q),
         spender' = [spender EXCEPT ![s] = q],
         q.pc \in {"away", "registering", "tokening", "signing"},
         UNCHANGED <<purpose, codes, asker, yields, resets, crowded, shared, hurried>>,
         account' \in BOOLEAN, token' \in [Tokens -> {"none", "live", "used", "expired"}],
         \A t \in Tokens : token'[t] \in {"none", "live"} => token[t] \in {"none", "live"}
  PROVE CodesKept'
<1> USE DEF CodesKept
<1>1. codes' \in Seq(CodeRows) /\ SameAges
  BY DEF CodesTyped, OneTimeCodesTypeOK, CodeRows, SameAges
<1>2. /\ CodesTyped' /\ CodesCounted' /\ CodeNumbers' = CodeNumbers
      /\ \A p \in Spenders : spender'[p] = IF p = s THEN q ELSE spender[p]
  <2>1. /\ yields' \in [1 .. MaxCodes -> Nat] /\ resets' \in [Tokens -> Nat]
        /\ crowded' \subseteq CodeNumbers /\ shared' \subseteq Tokens
    BY DEF CodesTyped, OneTimeCodesTypeOK
  <2>2. SpenderMoved(s, q)
    BY <1>1, <2>1 DEF SpenderMoved
  <2> QED
    BY <2>2, SpenderMoves
<1>3. CodesHeld'
  BY <1>2 DEF CodesHeld, CodeSpent, HeldAlone, Claiming
<1>4. TokensHeld'
  BY <1>2 DEF TokensHeld, TokenSpent, ResetAlone
<1> QED
  BY <1>2, <1>3, <1>4

LEMMA CodeFound ==
  ASSUME CodesKept, NEW s \in Spenders, NEW i \in CodeNumbers,
         NEW step \in {"verifying", "claiming"}, FindCode(s, i, step),
         UNCHANGED <<purpose, account, codes, token, asker, yields, resets, shared, hurried>>
  PROVE CodesKept'
<1> USE DEF CodesKept
<1> DEFINE q == [pc |-> step, item |-> i]
<1>1. /\ spender' = [spender EXCEPT ![s] = q] /\ ~codes[i].consumed
      /\ crowded' = IF \E p \in Spenders \ {s} :
                          Claiming(p) /\ spender[p].item = i /\ "verifying" \in {step, spender[p].pc}
                      THEN crowded \cup {i} ELSE crowded
  BY DEF FindCode, Latest, Spendable
<1>2. WellSpending(q) /\ i \in 1 .. MaxCodes
  <2>1. i \in Nat /\ i \in 1 .. MaxCodes
    BY CodesFinite, OneTimeCodesAssumption DEF CodeNumbers, CodesTyped, OneTimeCodesTypeOK
  <2> QED
    BY <2>1 DEF WellSpending, SpenderSteps
<1>3. /\ codes' \in Seq(CodeRows) /\ SameAges /\ crowded' \subseteq CodeNumbers
      /\ crowded \subseteq crowded'
  BY <1>1 DEF CodesTyped, OneTimeCodesTypeOK, CodeRows, SameAges
<1>4. /\ CodesTyped' /\ CodesCounted' /\ CodeNumbers' = CodeNumbers
      /\ \A p \in Spenders : spender'[p] = IF p = s THEN q ELSE spender[p]
  <2>1. /\ yields' \in [1 .. MaxCodes -> Nat] /\ resets' \in [Tokens -> Nat]
        /\ shared' \subseteq Tokens /\ account' \in BOOLEAN
        /\ token' \in [Tokens -> {"none", "live", "used", "expired"}]
    BY DEF CodesTyped, OneTimeCodesTypeOK
  <2> HIDE DEF q
  <2>2. SpenderMoved(s, q)
    BY <1>1, <1>2, <1>3, <2>1 DEF SpenderMoved
  <2> QED
    BY <2>2, SpenderMoves
<1>5. yields[i] = 0
  BY <1>1, <1>2 DEF CodesHeld, CodeSpent, CodesTyped, OneTimeCodesTypeOK
<1>6. ASSUME NEW p \in Spenders PROVE HeldAlone(p)'
  <2>1. CASE p = s
    BY <1>1, <1>4, <1>5, <2>1 DEF HeldAlone, Claiming
  <2>2. CASE p # s /\ spender[p].pc = "verifying" /\ spender[p].item = i
    <3>1. i \in crowded'
      BY <1>1, <2>2 DEF Claiming
    <3> QED
      BY <1>4, <2>2, <3>1 DEF HeldAlone
  <2>3. CASE p # s /\ ~(spender[p].pc = "verifying" /\ spender[p].item = i)
    <3>1. spender'[p] = spender[p] /\ HeldAlone(p)
      BY <1>4, <2>3 DEF CodesHeld
    <3> QED
      BY <1>3, <1>4, <2>3, <3>1 DEF HeldAlone, Claiming
  <2> QED
    BY <2>1, <2>2, <2>3
<1>7. CodesHeld'
  BY <1>3, <1>4, <1>6 DEF CodesHeld, CodeSpent
<1>8. TokensHeld'
  BY <1>4 DEF TokensHeld, TokenSpent, ResetAlone
<1> QED
  BY <1>4, <1>7, <1>8

\* A code is consumed, by a verification or a registration, and brings something unless
\* the registration comes late.
LEMMA CodeConsumed ==
  ASSUME CodesKept, NEW s \in Spenders, Claiming(s), NEW q, WellSpending(q),
         q.pc \in {"away", "tokening", "signing"},
         spender' = [spender EXCEPT ![s] = q],
         codes' = [codes EXCEPT ![spender[s].item].consumed = TRUE],
         \/ /\ yields' = [yields EXCEPT ![spender[s].item] = @ + 1]
            /\ spender[s].pc = "verifying" \/ ~codes[spender[s].item].consumed
         \/ yields' = yields,
         UNCHANGED <<purpose, account, token, asker, resets, crowded, shared, hurried>>
  PROVE CodesKept'
<1> USE DEF CodesKept
<1> DEFINE i == spender[s].item
           c == [codes[i] EXCEPT !.consumed = TRUE]
<1>1. /\ i \in CodeNumbers /\ i \in 1 .. MaxCodes /\ i \in 1 .. Len(codes)
      /\ codes \in Seq(CodeRows) /\ codes[i] \in CodeRows
  <2>1. i \in CodeNumbers
    BY SpendersHold DEF Claiming
  <2>2. Len(codes) \in Nat /\ codes[i] \in CodeRows
    BY <2>1, CodesFinite
  <2> HIDE DEF i
  <2> QED
    BY <2>1, <2>2, OneTimeCodesAssumption
    DEF CodesTyped, OneTimeCodesTypeOK, CodeRows, CodeNumbers
<1>2. c \in CodeRows /\ c.age = codes[i].age /\ c.consumed = TRUE
  BY <1>1, Zenon DEF CodeRows
<1>3. codes' = [codes EXCEPT ![i] = c]
  BY <1>1
<1>4. spender[s].item = i
  OBVIOUS
<1>5. \/ /\ yields' = [yields EXCEPT ![i] = @ + 1]
         /\ spender[s].pc = "verifying" \/ ~codes[i].consumed
      \/ yields' = yields
  OBVIOUS
<1> HIDE DEF i, c
<1>6. /\ codes' \in Seq(CodeRows) /\ Len(codes') = Len(codes)
      /\ \A j \in CodeNumbers : codes'[j] = IF j = i THEN c ELSE codes[j]
  BY <1>1, <1>2, <1>3, CodeReplaced, Zenon
<1>7. SameAges
  BY <1>2, <1>6 DEF SameAges
<1>8. /\ yields' \in [1 .. MaxCodes -> Nat]
      /\ \A j \in 1 .. MaxCodes : j # i => yields'[j] = yields[j]
      /\ \/ yields'[i] = yields[i]
         \/ yields'[i] = yields[i] + 1 /\ (spender[s].pc = "verifying" \/ ~codes[i].consumed)
      /\ yields[i] \in Nat
  <2>1. yields \in [1 .. MaxCodes -> Nat]
    BY DEF CodesTyped, OneTimeCodesTypeOK
  <2>2. CASE yields' = yields
    BY <1>1, <2>1, <2>2
  <2>3. CASE /\ yields' = [yields EXCEPT ![i] = @ + 1]
             /\ spender[s].pc = "verifying" \/ ~codes[i].consumed
    BY <1>1, <2>1, <2>3
  <2> QED
    BY <1>5, <2>2, <2>3
<1>9. /\ CodesTyped' /\ CodesCounted' /\ CodeNumbers' = CodeNumbers
      /\ \A p \in Spenders : spender'[p] = IF p = s THEN q ELSE spender[p]
  <2>1. /\ crowded' \subseteq CodeNumbers /\ resets' \in [Tokens -> Nat]
        /\ shared' \subseteq Tokens /\ account' \in BOOLEAN
        /\ token' \in [Tokens -> {"none", "live", "used", "expired"}]
    BY DEF CodesTyped, OneTimeCodesTypeOK
  <2>2. SpenderMoved(s, q)
    BY <1>6, <1>7, <1>8, <2>1 DEF SpenderMoved
  <2> QED
    BY <2>2, SpenderMoves
<1>10. ASSUME NEW j \in 1 .. MaxCodes PROVE CodeSpent(j)'
  <2>1. CASE j # i
    BY <1>6, <1>8, <1>9, <2>1 DEF CodesHeld, CodeSpent
  <2>2. CASE j = i
    <3>1. codes'[i].consumed /\ i \in CodeNumbers'
      BY <1>1, <1>2, <1>6, <1>9
    <3>2. yields'[i] <= 1 \/ i \in crowded
      <4>1. CASE yields'[i] = yields[i]
        BY <1>1, <4>1 DEF CodesHeld, CodeSpent
      <4>2. CASE yields'[i] = yields[i] + 1 /\ spender[s].pc = "verifying"
        BY <1>4, <1>8, <4>2 DEF CodesHeld, HeldAlone
      <4>3. CASE yields'[i] = yields[i] + 1 /\ ~codes[i].consumed
        BY <1>1, <1>8, <4>3 DEF CodesHeld, CodeSpent
      <4> QED
        BY <1>8, <4>1, <4>2, <4>3
    <3> QED
      BY <2>2, <3>1, <3>2 DEF CodeSpent
  <2> QED
    BY <2>1, <2>2
<1>11. ASSUME NEW p \in Spenders PROVE HeldAlone(p)'
  <2>1. CASE p = s
    BY <1>9, <2>1 DEF HeldAlone
  <2>2. CASE p # s
    <3>1. spender'[p] = spender[p] /\ HeldAlone(p)
      BY <1>9, <2>2 DEF CodesHeld
    <3>2. SUFFICES ASSUME spender[p].pc = "verifying", spender[p].item \notin crowded
                   PROVE HeldAlone(p)'
      BY <3>1 DEF HeldAlone
    <3>3. spender[p].item # i
      BY <1>4, <2>2, <3>1, <3>2 DEF HeldAlone
    <3>4. spender[p].item \in 1 .. MaxCodes
      BY <3>2, SpendersHold
    <3> QED
      BY <1>8, <1>9, <3>1, <3>2, <3>3, <3>4 DEF HeldAlone, Claiming
  <2> QED
    BY <2>1, <2>2
<1>12. TokensHeld'
  BY <1>9 DEF TokensHeld, TokenSpent, ResetAlone
<1> QED
  BY <1>9, <1>10, <1>11, <1>12 DEF CodesHeld

LEMMA ResetBegun ==
  ASSUME CodesKept, NEW s \in Spenders, NEW t \in Tokens, BeginReset(s, t)
  PROVE CodesKept'
<1> USE DEF CodesKept
<1> DEFINE q == [pc |-> "resetting", item |-> t]
<1>1. /\ spender' = [spender EXCEPT ![s] = q] /\ token[t] = "live"
      /\ shared' = IF \E p \in Spenders : spender[p].pc = "resetting" /\ spender[p].item = t
                     THEN shared \cup {t} ELSE shared
      /\ UNCHANGED <<purpose, account, codes, token, asker, yields, resets, crowded, hurried>>
  BY DEF BeginReset
<1>2. WellSpending(q)
  BY DEF WellSpending, SpenderSteps
<1>3. /\ codes' \in Seq(CodeRows) /\ SameAges /\ shared' \subseteq Tokens /\ shared \subseteq shared'
  BY <1>1 DEF CodesTyped, OneTimeCodesTypeOK, CodeRows, SameAges
<1>4. /\ CodesTyped' /\ CodesCounted' /\ CodeNumbers' = CodeNumbers
      /\ \A p \in Spenders : spender'[p] = IF p = s THEN q ELSE spender[p]
  <2>1. /\ yields' \in [1 .. MaxCodes -> Nat] /\ resets' \in [Tokens -> Nat]
        /\ crowded' \subseteq CodeNumbers /\ account' \in BOOLEAN
        /\ token' \in [Tokens -> {"none", "live", "used", "expired"}]
    BY <1>1 DEF CodesTyped, OneTimeCodesTypeOK
  <2> HIDE DEF q
  <2>2. SpenderMoved(s, q)
    BY <1>1, <1>2, <1>3, <2>1 DEF SpenderMoved
  <2> QED
    BY <2>2, SpenderMoves
<1>5. resets[t] = 0
  BY <1>1 DEF TokensHeld, TokenSpent
<1>6. ASSUME NEW p \in Spenders PROVE ResetAlone(p)'
  <2>1. CASE p = s
    BY <1>1, <1>4, <1>5, <2>1 DEF ResetAlone
  <2>2. CASE p # s /\ spender[p].pc = "resetting" /\ spender[p].item = t
    <3>1. t \in shared'
      BY <1>1, <2>2
    <3> QED
      BY <1>4, <2>2, <3>1 DEF ResetAlone
  <2>3. CASE p # s /\ ~(spender[p].pc = "resetting" /\ spender[p].item = t)
    <3>1. spender'[p] = spender[p] /\ ResetAlone(p)
      BY <1>4, <2>3 DEF TokensHeld
    <3> QED
      BY <1>1, <1>3, <1>4, <2>3, <3>1 DEF ResetAlone
  <2> QED
    BY <2>1, <2>2, <2>3
<1>7. TokensHeld'
  BY <1>1, <1>3, <1>6 DEF TokensHeld, TokenSpent
<1>8. CodesHeld'
  BY <1>1, <1>4 DEF CodesHeld, CodeSpent, HeldAlone, Claiming
<1> QED
  BY <1>4, <1>7, <1>8

LEMMA PasswordSet ==
  ASSUME CodesKept, NEW s \in Spenders, ResetPassword(s)
  PROVE CodesKept'
<1> USE DEF CodesKept
<1> DEFINE t == spender[s].item
<1>1. /\ spender' = [spender EXCEPT ![s] = NotSpending] /\ spender[s].pc = "resetting"
      /\ token' = [token EXCEPT ![t] = "used"]
      /\ resets' = [resets EXCEPT ![t] = @ + 1]
      /\ UNCHANGED <<purpose, account, codes, asker, yields, crowded, shared, hurried>>
  BY DEF ResetPassword, TokenUsed, StopSpending
<1>2. t \in Tokens
  BY <1>1, SpendersHold
<1>3. spender[s].item = t
  OBVIOUS
<1> HIDE DEF t
<1>4. /\ token' \in [Tokens -> {"none", "live", "used", "expired"}] /\ resets' \in [Tokens -> Nat]
      /\ \A u \in Tokens : /\ token'[u] = IF u = t THEN "used" ELSE token[u]
                           /\ resets'[u] = IF u = t THEN resets[u] + 1 ELSE resets[u]
  BY <1>1, <1>2 DEF CodesTyped, OneTimeCodesTypeOK
<1>5. WellSpending(NotSpending)
  BY DEF WellSpending, NotSpending, SpenderSteps
<1>6. codes' \in Seq(CodeRows) /\ SameAges
  BY <1>1 DEF CodesTyped, OneTimeCodesTypeOK, CodeRows, SameAges
<1>7. /\ CodesTyped' /\ CodesCounted' /\ CodeNumbers' = CodeNumbers
      /\ \A p \in Spenders : spender'[p] = IF p = s THEN NotSpending ELSE spender[p]
  <2>1. /\ yields' \in [1 .. MaxCodes -> Nat] /\ shared' \subseteq Tokens
        /\ crowded' \subseteq CodeNumbers /\ account' \in BOOLEAN
    BY <1>1 DEF CodesTyped, OneTimeCodesTypeOK
  <2>2. SpenderMoved(s, NotSpending)
    BY <1>1, <1>4, <1>5, <1>6, <2>1 DEF SpenderMoved
  <2> QED
    BY <2>2, SpenderMoves
<1>8. ASSUME NEW u \in Tokens PROVE TokenSpent(u)'
  <2>1. CASE u # t
    BY <1>1, <1>4, <2>1 DEF TokensHeld, TokenSpent
  <2>2. CASE u = t
    BY <1>1, <1>2, <1>3, <1>4, <2>2 DEF TokensHeld, TokenSpent, ResetAlone
  <2> QED
    BY <2>1, <2>2
<1>9. ASSUME NEW p \in Spenders PROVE ResetAlone(p)'
  <2>1. CASE p = s
    BY <1>7, <2>1 DEF ResetAlone, NotSpending
  <2>2. CASE p # s
    <3>1. spender'[p] = spender[p] /\ ResetAlone(p)
      BY <1>7, <2>2 DEF TokensHeld
    <3>2. SUFFICES ASSUME spender[p].pc = "resetting", spender[p].item \notin shared
                   PROVE ResetAlone(p)'
      BY <1>1, <3>1 DEF ResetAlone
    <3>3. spender[p].item # t /\ spender[p].item \in Tokens
      <4>1. spender[p].item \in Tokens
        BY <3>2, SpendersHold
      <4> QED
        BY <1>1, <1>3, <2>2, <3>1, <3>2, <4>1 DEF ResetAlone
    <3> QED
      BY <1>1, <1>4, <1>7, <3>1, <3>2, <3>3 DEF ResetAlone, NotSpending
  <2> QED
    BY <2>1, <2>2
<1>10. CodesHeld'
  BY <1>1, <1>7 DEF CodesHeld, CodeSpent, HeldAlone, Claiming, NotSpending
<1> QED
  BY <1>7, <1>8, <1>9, <1>10 DEF TokensHeld

LEMMA CodesStep == CodesKept /\ [OneTimeCodesNext]_ovars => CodesKept'
<1> SUFFICES ASSUME CodesKept, [OneTimeCodesNext]_ovars PROVE CodesKept'
  OBVIOUS
<1>0. /\ WellSpending(NotSpending) /\ NotSpending.pc = "away"
      /\ account \in BOOLEAN /\ token \in [Tokens -> {"none", "live", "used", "expired"}]
  BY DEF WellSpending, NotSpending, SpenderSteps, CodesKept, CodesTyped, OneTimeCodesTypeOK
<1>1. ASSUME NEW a \in Askers, BeginAsk(a) \/ CheckCooldown(a) \/ CountRecent(a) \/ CreateCode(a)
      PROVE CodesKept'
  <2>1. CASE BeginAsk(a)
    BY <2>1, AskerGoesOn DEF BeginAsk
  <2>2. CASE CheckCooldown(a) /\ Len(codes) > 0 /\ codes[Len(codes)].age = "fresh"
    BY <2>2, AskerGoesOn DEF CheckCooldown
  <2>3. CASE CheckCooldown(a) /\ ~(Len(codes) > 0 /\ codes[Len(codes)].age = "fresh")
    BY <2>3, CooldownPassed
  <2>4. CASE CountRecent(a) /\ RecentWithinLimit
    BY <2>4, LimitPassed
  <2>5. CASE CountRecent(a) /\ ~RecentWithinLimit
    BY <2>5, AskerGoesOn DEF CountRecent
  <2>6. CASE CreateCode(a)
    BY <2>6, CodeMade
  <2> QED
    BY <1>1, <2>1, <2>2, <2>3, <2>4, <2>5, <2>6
<1>2. ASSUME NEW s \in Spenders, NEW i \in CodeNumbers,
             BeginVerify(s, i) \/ FindRegistrationCode(s, i)
      PROVE CodesKept'
  BY <1>2, CodeFound DEF BeginVerify, FindRegistrationCode
<1>3. ASSUME NEW s \in Spenders, NEW pc \in {"tokening", "signing"}, Spending(s, pc), Claiming(s)
      PROVE /\ spender' = [spender EXCEPT ![s] = [spender[s] EXCEPT !.pc = pc]]
            /\ WellSpending([spender[s] EXCEPT !.pc = pc])
            /\ [spender[s] EXCEPT !.pc = pc].pc = pc
  <2>1. /\ spender[s] \in [pc : SpenderSteps, item : Nat \cup Tokens]
        /\ spender[s].item \in CodeNumbers
    BY <1>3, SpendersHold DEF Claiming, CodesKept, CodesTyped
  <2>2. /\ [spender[s] EXCEPT !.pc = pc] \in [pc : SpenderSteps, item : Nat \cup Tokens]
        /\ [spender[s] EXCEPT !.pc = pc].pc = pc
        /\ [spender[s] EXCEPT !.pc = pc].item = spender[s].item
    BY <2>1 DEF SpenderSteps
  <2> QED
    BY <1>3, <2>1, <2>2 DEF Spending, WellSpending, CodesKept, CodesTyped
<1>4. ASSUME NEW s \in Spenders, ConsumeVerified(s) PROVE CodesKept'
  <2>1. Claiming(s) /\ spender[s].pc = "verifying"
    BY <1>4 DEF ConsumeVerified, Claiming
  <2>2. PICK q : /\ WellSpending(q) /\ q.pc \in {"away", "tokening", "signing"}
                 /\ spender' = [spender EXCEPT ![s] = q]
    BY <1>0, <1>3, <1>4, <2>1, Zenon DEF ConsumeVerified, StopSpending
  <2> QED
    BY <1>4, <2>1, <2>2, CodeConsumed, Zenon DEF ConsumeVerified
<1>5. ASSUME NEW s \in Spenders, ConsumeRegistrationOtp(s) PROVE CodesKept'
  <2>1. Claiming(s)
    BY <1>5 DEF ConsumeRegistrationOtp, Claiming
  <2>2. PICK q : /\ WellSpending(q) /\ q.pc \in {"away", "tokening", "signing"}
                 /\ spender' = [spender EXCEPT ![s] = q]
    BY <1>0, <1>3, <1>5, <2>1, Zenon DEF ConsumeRegistrationOtp, StopSpending
  <2> QED
    BY <1>5, <2>1, <2>2, CodeConsumed, Zenon DEF ConsumeRegistrationOtp, Unclaimed
<1>6. ASSUME NEW s \in Spenders, BeginRegister(s) PROVE CodesKept'
  <2> DEFINE q == [pc |-> "registering", item |-> 0]
  <2>1. spender' = [spender EXCEPT ![s] = q]
    BY <1>6 DEF BeginRegister
  <2>2. WellSpending(q) /\ q.pc = "registering"
    BY DEF WellSpending, SpenderSteps
  <2> HIDE DEF q
  <2> QED
    BY <1>0, <1>6, <2>1, <2>2, SpenderLeaves, Zenon DEF BeginRegister
<1>7. ASSUME NEW s \in Spenders, CreateUser(s) PROVE CodesKept'
  BY <1>0, <1>7, SpenderLeaves, Zenon DEF CreateUser, StopSpending
<1>8. ASSUME NEW s \in Spenders, NEW t \in Tokens, CreateToken(s, t) PROVE CodesKept'
  <2>1. /\ token[t] = "none" /\ token' = [token EXCEPT ![t] = "live"]
        /\ spender' = [spender EXCEPT ![s] = NotSpending]
        /\ UNCHANGED <<purpose, account, codes, asker, yields, resets, crowded, shared, hurried>>
    BY <1>8 DEF CreateToken, StopSpending
  <2>2. /\ token' \in [Tokens -> {"none", "live", "used", "expired"}]
        /\ \A u \in Tokens : token'[u] \in {"none", "live"} => token[u] \in {"none", "live"}
    BY <1>0, <2>1
  <2> QED
    BY <1>0, <2>1, <2>2, SpenderLeaves, Zenon
<1>9. ASSUME NEW t \in Tokens, RequestReset(t) \/ TokenExpires(t) PROVE CodesKept'
  <2>1. /\ UNCHANGED <<purpose, account, codes, asker, spender, yields, resets, crowded, shared,
                       hurried>>
        /\ token' \in [Tokens -> {"none", "live", "used", "expired"}]
        /\ \A u \in Tokens : token'[u] \in {"none", "live"} => token[u] \in {"none", "live"}
    BY <1>0, <1>9 DEF RequestReset, TokenExpires
  <2>2. CodesTyped'
    BY <2>1 DEF CodesKept, CodesTyped, OneTimeCodesTypeOK, CodeNumbers
  <2>3. CodesCounted'
    BY <2>1, CountsUntouched DEF SameAges
  <2>4. CodesHeld' /\ TokensHeld'
    BY <2>1
    DEF CodesKept, CodesHeld, CodeSpent, CodeNumbers, HeldAlone, Claiming, TokensHeld,
                TokenSpent, ResetAlone
  <2> QED
    BY <2>2, <2>3, <2>4 DEF CodesKept
<1>10. ASSUME CodeRequestFails PROVE CodesKept'
  <2>1. CASE \E a \in Askers : Asking(a, "away") /\ UNCHANGED spender
    BY <1>10, <2>1, AskerGoesOn DEF CodeRequestFails
  <2>2. CASE \E s \in Spenders : StopSpending(s) /\ UNCHANGED asker
    BY <1>0, <1>10, <2>2, SpenderLeaves, Zenon DEF CodeRequestFails, StopSpending
  <2> QED
    BY <1>10, <2>1, <2>2 DEF CodeRequestFails
<1>11. CASE UNCHANGED ovars
  <2>1. CodesTyped'
    BY <1>11 DEF ovars, CodesKept, CodesTyped, OneTimeCodesTypeOK, CodeNumbers
  <2>2. CodesCounted'
    BY <1>11, CountsUntouched DEF ovars, SameAges
  <2>3. CodesHeld' /\ TokensHeld'
    BY <1>11 DEF ovars, CodesKept, CodesHeld, CodeSpent, CodeNumbers, HeldAlone, Claiming,
                 TokensHeld, TokenSpent, ResetAlone
  <2> QED
    BY <2>1, <2>2, <2>3 DEF CodesKept
<1> QED
  BY <1>1, <1>2, <1>4, <1>5, <1>6, <1>7, <1>8, <1>9, <1>10, <1>11, CodeOlder, ResetBegun,
     PasswordSet
  DEF OneTimeCodesNext

(***************************************************************************)
(* ManualGrants                                                            *)
(***************************************************************************)

\* How far a grant has come tells what it has written.
Granting(g) ==
  /\ desk[g] # "away" => grantOrder[g] \in {"CREATED", "EXPIRED"}
  /\ desk[g] \in {"reading", "expiring", "closing", "subscribing"} => grantSub[g] = "none"
  /\ desk[g] = "entitling" => grantSub[g] # "none" /\ grantRight[g] = "none"
  /\ desk[g] = "concluding" => grantRight[g] # "none"
  /\ desk[g] = "failing" /\ g \notin spoiled => grantSub[g] = "none"
  /\ desk[g] = "away" /\ g \notin spoiled =>
       /\ (grantOrder[g] = "SUCCESS") = (grantSub[g] # "none")
       /\ (grantOrder[g] = "SUCCESS") = (grantRight[g] # "none")
  /\ \A q \in replacing[g] : grantSub[q] # "none"

\* A replaced grant that has not been closed is in the hand of whoever replaces it.
Closing(g) ==
  g \notin spoiled /\ grantSub[g] = "EXPIRED" /\ grantRight[g] # "closed" =>
    \E q \in Grants : desk[q] = "closing" /\ g \in replacing[q]

GrantsInv ==
  /\ ManualGrantsTypeOK
  /\ \A g \in Grants : Granting(g) /\ Closing(g)

LEMMA GrantsBegin == ManualGrantsInit => GrantsInv
  BY ManualGrantsAssumption DEF ManualGrantsInit, GrantsInv, ManualGrantsTypeOK, Granting,
                                Closing

LEMMA GrantsAgree == GrantsInv => ManualOrderTells
  BY DEF GrantsInv, Granting, Closing, ManualOrderTells, ManualGrantsTypeOK

LEMMA GrantsStep == GrantsInv /\ [ManualGrantsNext]_gvars => GrantsInv'
<1> SUFFICES ASSUME GrantsInv, [ManualGrantsNext]_gvars PROVE GrantsInv'
  OBVIOUS
<1> USE ManualGrantsAssumption DEF GrantsInv, Hand
<1>1. ASSUME NEW g \in Grants, CreateManualOrder(g) PROVE GrantsInv'
  BY <1>1 DEF CreateManualOrder, ManualGrantsTypeOK, Granting, Closing
<1>2. ASSUME NEW g \in Grants, SweepManualOrder(g) PROVE GrantsInv'
  BY <1>2 DEF SweepManualOrder, ManualGrantsTypeOK, Granting, Closing
<1>3. ASSUME NEW g \in Grants, ReadActive(g) PROVE GrantsInv'
  <2>1. ManualGrantsTypeOK'
    BY <1>3 DEF ReadActive, ManualGrantsTypeOK, ActiveGrants
  <2>2. ASSUME NEW h \in Grants PROVE Granting(h)'
    BY <1>3 DEF ReadActive, ManualGrantsTypeOK, Granting, ActiveGrants
  <2>3. ASSUME NEW h \in Grants PROVE Closing(h)'
    BY <1>3 DEF ReadActive, ManualGrantsTypeOK, Closing
  <2> QED
    BY <2>1, <2>2, <2>3
<1>4. ASSUME NEW g \in Grants, ExpireReplaced(g) PROVE GrantsInv'
  <2>1. ManualGrantsTypeOK'
    BY <1>4 DEF ExpireReplaced, ManualGrantsTypeOK, Granting
  <2>2. ASSUME NEW h \in Grants PROVE Granting(h)'
    BY <1>4 DEF ExpireReplaced, ManualGrantsTypeOK, Granting
  <2>3. ASSUME NEW h \in Grants PROVE Closing(h)'
    BY <1>4 DEF ExpireReplaced, ManualGrantsTypeOK, Closing
  <2> QED
    BY <2>1, <2>2, <2>3
<1>5. ASSUME NEW g \in Grants, CloseReplaced(g) PROVE GrantsInv'
  <2>1. ManualGrantsTypeOK'
    BY <1>5 DEF CloseReplaced, ManualGrantsTypeOK, Granting
  <2>2. ASSUME NEW h \in Grants PROVE Granting(h)'
    BY <1>5 DEF CloseReplaced, ManualGrantsTypeOK, Granting
  <2>3. ASSUME NEW h \in Grants PROVE Closing(h)'
    BY <1>5 DEF CloseReplaced, ManualGrantsTypeOK, Closing
  <2> QED
    BY <2>1, <2>2, <2>3
<1>6. ASSUME NEW g \in Grants, CreateSubscription(g) PROVE GrantsInv'
  BY <1>6 DEF CreateSubscription, ManualGrantsTypeOK, Granting, Closing
<1>7. ASSUME NEW g \in Grants, CreateEntitlements(g) PROVE GrantsInv'
  BY <1>7 DEF CreateEntitlements, ManualGrantsTypeOK, Granting, Closing
<1>8. ASSUME NEW g \in Grants, ConcludeGrant(g) PROVE GrantsInv'
  BY <1>8 DEF ConcludeGrant, Concluded, ManualGrantsTypeOK, Granting, Closing
<1>9. ASSUME NEW g \in Grants, GrantFails(g) PROVE GrantsInv'
  <2>1. ManualGrantsTypeOK'
    BY <1>9 DEF GrantFails, HalfDone, ManualGrantsTypeOK
  <2>2. ASSUME NEW h \in Grants PROVE Granting(h)'
    BY <1>9 DEF GrantFails, HalfDone, ManualGrantsTypeOK, Granting
  <2>3. ASSUME NEW h \in Grants PROVE Closing(h)'
    BY <1>9 DEF GrantFails, HalfDone, ManualGrantsTypeOK, Closing
  <2> QED
    BY <2>1, <2>2, <2>3
<1>10. ASSUME NEW g \in Grants, MarkFailed(g) PROVE GrantsInv'
  BY <1>10 DEF MarkFailed, ManualGrantsTypeOK, Granting, Closing
<1>11. ASSUME NEW g \in Grants, GrantDies(g) PROVE GrantsInv'
  <2>1. ManualGrantsTypeOK'
    BY <1>11 DEF GrantDies, HalfDone, ManualGrantsTypeOK
  <2>2. ASSUME NEW h \in Grants PROVE Granting(h)'
    BY <1>11 DEF GrantDies, HalfDone, ManualGrantsTypeOK, Granting
  <2>3. ASSUME NEW h \in Grants PROVE Closing(h)'
    BY <1>11 DEF GrantDies, HalfDone, ManualGrantsTypeOK, Closing
  <2> QED
    BY <2>1, <2>2, <2>3
<1>12. CASE RevokeEntitlement
  BY <1>12 DEF RevokeEntitlement, ManualGrantsTypeOK, Granting, Closing
<1>13. CASE UNCHANGED gvars
  BY <1>13 DEF gvars, ManualGrantsTypeOK, Granting, Closing
<1> QED
  BY <1>1, <1>2, <1>3, <1>4, <1>5, <1>6, <1>7, <1>8, <1>9, <1>10, <1>11, <1>12, <1>13
  DEF ManualGrantsNext, GrantStep

(***************************************************************************)
(* PlanCatalog                                                             *)
(***************************************************************************)

Lengths ==
  [unit : Unit, value : Nat \cup {Nothing} \cup {i.value : i \in Inputs}, durationDays : Nat \ {0}]
PlanRows == [durationDays : Nat, validity : Lengths \cup {Nothing}]
OrderRows == [plan : Plans \cup {Nothing}, coupon : Coupons \cup {Nothing}, made : BOOLEAN]
Updates ==
  [pc : {"updating"}, it : Plans, input : Inputs \cup {Nothing}, stale : BOOLEAN,
   validity : Lengths]
Orderings == [pc : {"ordering"}, it : NewOrders, plan : Plans, coupon : Coupons \cup {Nothing}]
PlanDeletions == [pc : {"deletingPlan"}, it : Plans]
CouponDeletions == [pc : {"deletingCoupon"}, it : Coupons]
SellerRequests == {Gone} \cup Updates \cup Orderings \cup PlanDeletions \cup CouponDeletions

\* A length that calls itself a lifetime lasts one.
Measured(v) == v \in Lengths /\ (v.unit = "LIFETIME" => v.durationDays >= LifetimeDays)

PlanSound(p) ==
  /\ p \in OnSale => plan[p].durationDays # 0
  /\ plan[p].validity # Nothing => Measured(plan[p].validity)
  /\ p \in OnSale \ overwrote /\ plan[p].validity # Nothing =>
       plan[p].validity.durationDays = plan[p].durationDays

OrderSound(o) ==
  /\ order[o].plan \in OnSale \cup {Nothing} /\ order[o].coupon \in coupons \cup {Nothing}
  /\ ~order[o].made => order[o].plan = Nothing /\ order[o].coupon = Nothing

\* An update that only rewrites the validity still holds the plan's length, unless another
\* update came between; what a deletion did not count has slipped.
RequestSound(r) ==
  /\ r.pc = "updating" =>
       /\ Measured(r.validity)
       /\ r.input = Nothing /\ ~r.stale /\ r.it \in OnSale \ overwrote =>
            r.validity.durationDays = plan[r.it].durationDays
  /\ r.pc = "deletingPlan" => \A o \in NewOrders : order[o].plan = r.it => o \in slipped
  /\ r.pc = "deletingCoupon" => \A o \in NewOrders : order[o].coupon = r.it => o \in slipped

CatalogTyped ==
  /\ plan \in [Plans -> PlanRows] /\ order \in [NewOrders -> OrderRows]
  /\ seller \in [Sellers -> SellerRequests]
  /\ coupons \subseteq Coupons /\ editions \in 0 .. MaxEditions
  /\ overwrote \subseteq Plans /\ slipped \subseteq NewOrders /\ bared \subseteq NewOrders

CatalogInv ==
  /\ CatalogTyped
  /\ \A p \in Plans : PlanSound(p)
  /\ \A o \in NewOrders : OrderSound(o)
  /\ \A c \in Sellers : RequestSound(seller[c])
  /\ OrdersKeepTheirPlan

LEMMA CatalogRows ==
  /\ NoPlan \in PlanRows /\ NoPlan.durationDays = 0 /\ NoPlan.validity = Nothing
  /\ NoOrder \in OrderRows /\ NoOrder.plan = Nothing /\ NoOrder.coupon = Nothing
  /\ ~NoOrder.made
  /\ Gone \in SellerRequests /\ Gone.pc = "away"
  BY DEF NoPlan, NoOrder, Gone, PlanRows, OrderRows, SellerRequests

LEMMA CatalogBegins == PlanCatalogInit => CatalogInv
<1> SUFFICES ASSUME PlanCatalogInit PROVE CatalogInv
  OBVIOUS
<1>1. /\ plan \in [Plans -> {NoPlan, [durationDays |-> 365, validity |-> Nothing]}]
      /\ coupons = Coupons /\ order = [o \in NewOrders |-> NoOrder]
      /\ seller = [c \in Sellers |-> Gone] /\ editions = MaxEditions
      /\ overwrote = {} /\ slipped = {} /\ bared = {}
  BY DEF PlanCatalogInit
<1>2. \A p \in Plans : /\ plan[p] \in PlanRows /\ plan[p].validity = Nothing
                       /\ p \in OnSale => plan[p].durationDays # 0
  BY <1>1, CatalogRows DEF PlanRows, OnSale
<1>3. CatalogTyped
  BY <1>1, <1>2, CatalogRows, PlanCatalogAssumption DEF CatalogTyped
<1>4. \A p \in Plans : PlanSound(p)
  BY <1>2 DEF PlanSound
<1>5. \A o \in NewOrders : OrderSound(o)
  BY <1>1, CatalogRows DEF OrderSound
<1>6. \A c \in Sellers : RequestSound(seller[c])
  BY <1>1, CatalogRows DEF RequestSound
<1> QED
  BY <1>1, <1>3, <1>4, <1>5, <1>6 DEF CatalogInv, OrdersKeepTheirPlan

\* What the invariant says of the two lengths of a plan, and of the shapes.
LEMMA CatalogAgrees == CatalogInv => PlanCatalogTypeOK /\ ValidityAgrees
<1> SUFFICES ASSUME CatalogInv PROVE PlanCatalogTypeOK /\ ValidityAgrees
  OBVIOUS
<1>1. ASSUME NEW p \in OnSale
      PROVE  /\ plan[p].durationDays \in Nat \ {0}
             /\ plan[p].validity # Nothing => /\ plan[p].validity.unit \in Unit
                                              /\ Measured(plan[p].validity)
             /\ p \notin overwrote /\ plan[p].validity # Nothing =>
                  plan[p].validity.durationDays = plan[p].durationDays
  <2>1. p \in Plans /\ plan[p] \in PlanRows /\ PlanSound(p)
    BY DEF CatalogInv, CatalogTyped, OnSale
  <2> QED
    BY <2>1 DEF PlanSound, PlanRows, Measured, Lengths
<1>2. \A c \in Sellers :
        seller[c].pc \in {"away", "updating", "ordering", "deletingPlan", "deletingCoupon"}
  BY CatalogRows DEF CatalogInv, CatalogTyped, SellerRequests, Updates, Orderings, PlanDeletions,
         CouponDeletions
<1>3. PlanCatalogTypeOK
  BY <1>1, <1>2 DEF PlanCatalogTypeOK, CatalogInv, CatalogTyped, OrderSound
<1>4. ASSUME NEW p \in OnSale \ overwrote
      PROVE  isLifetimePlan(p) <=> plan[p].durationDays >= LifetimeDays
  BY <1>1 DEF isLifetimePlan, Measured
<1> QED
  BY <1>1, <1>3, <1>4 DEF ValidityAgrees

LEMMA LengthDerived ==
  ASSUME NEW n \in Nat \ {0}
  PROVE  /\ Measured(deriveValidityFromDurationDays(n))
         /\ deriveValidityFromDurationDays(n).durationDays = n
<1>1. LifetimeDays \in Nat
  BY PlanCatalogAssumption
<1>2. n \div 365 \in Nat /\ n \div 30 \in Nat
  OBVIOUS
<1> QED
  BY <1>1, <1>2 DEF deriveValidityFromDurationDays, Validity, Measured, Lengths, Unit

\* resolveDuration gives a length that lasts what it says; given nothing, the one on record.
LEMMA DurationResolved ==
  ASSUME NEW input \in Inputs \cup {Nothing}, NEW days \in Nat, NEW validity \in Lengths \cup {Nothing},
         validity # Nothing => Measured(validity), input = Nothing => days # 0
  PROVE  /\ Measured(resolveDuration(input, days, validity))
         /\ input = Nothing =>
              resolveDuration(input, days, validity).durationDays =
                (IF validity # Nothing THEN validity.durationDays ELSE days)
<1>1. CASE input = Nothing
  BY <1>1, LengthDerived DEF resolveDuration, KnownValidity
<1>2. CASE input # Nothing /\ input.unit = Nothing
  <2>1. input.durationDays \in Nat \ {0}
    BY <1>2, PlanCatalogAssumption
  <2> QED
    BY <1>2, <2>1, LengthDerived DEF resolveDuration
<1>3. CASE input # Nothing /\ input.unit # Nothing
  <2>1. input.unit \in Unit /\ (input.unit # "LIFETIME" => input.value \in Nat \ {0})
    BY <1>3, PlanCatalogAssumption
  <2>2. LifetimeDays \in Nat \ {0}
    BY PlanCatalogAssumption
  <2> DEFINE n == convertToDays(input.value, input.unit)
  <2>3. n \in Nat \ {0} /\ (input.unit = "LIFETIME" => n = LifetimeDays)
    BY <2>1, <2>2 DEF convertToDays, Unit
  <2> HIDE DEF n
  <2>4. Measured(Validity(input.unit, input.value, n))
    BY <1>3, <2>1, <2>2, <2>3 DEF Validity, Measured, Lengths
  <2> QED
    BY <1>3, <2>4 DEF resolveDuration, n
<1> QED
  BY <1>1, <1>2, <1>3

\* A request that begins or ends and writes no row is sound or away.
LEMMA SellerMoves ==
  ASSUME CatalogInv, NEW c \in Sellers, NEW r \in SellerRequests, RequestSound(r),
         seller' = [seller EXCEPT ![c] = r], editions' \in 0 .. MaxEditions,
         UNCHANGED <<plan, coupons, order, overwrote, slipped, bared>>
  PROVE  CatalogInv'
<1>1. /\ seller' \in [Sellers -> SellerRequests] /\ seller'[c] = r
      /\ \A d \in Sellers \ {c} : seller'[d] = seller[d]
  BY DEF CatalogInv, CatalogTyped
<1>2. CatalogTyped'
  BY <1>1 DEF CatalogInv, CatalogTyped
<1>3. \A p \in Plans : PlanSound(p)'
  BY DEF CatalogInv, PlanSound, OnSale
<1>4. \A o \in NewOrders : OrderSound(o)'
  BY DEF CatalogInv, OrderSound, OnSale
<1>5. RequestSound(r)'
  BY DEF RequestSound, OnSale
<1>6. ASSUME NEW d \in Sellers, d # c PROVE RequestSound(seller[d])'
  BY <1>1, <1>6 DEF CatalogInv, RequestSound, OnSale
<1> QED
  BY <1>1, <1>2, <1>3, <1>4, <1>5, <1>6 DEF CatalogInv, OrdersKeepTheirPlan

LEMMA EditionsLeft ==
  ASSUME CatalogInv
  PROVE  /\ editions \in 0 .. MaxEditions
         /\ editions > 0 => editions - 1 \in 0 .. MaxEditions
  BY PlanCatalogAssumption DEF CatalogInv, CatalogTyped

\* A request by what it is doing.
LEMMA RequestKinds ==
  ASSUME CatalogInv, NEW c \in Sellers
  PROVE  /\ seller[c].pc = "updating" => seller[c] \in Updates
         /\ seller[c].pc = "ordering" => seller[c] \in Orderings
         /\ seller[c].pc = "deletingPlan" => seller[c] \in PlanDeletions
         /\ seller[c].pc = "deletingCoupon" => seller[c] \in CouponDeletions
         /\ RequestSound(seller[c]) /\ seller[c] \in SellerRequests
  BY CatalogRows DEF CatalogInv, CatalogTyped, SellerRequests, Updates, Orderings, PlanDeletions,
         CouponDeletions

LEMMA UpdateBegins ==
  ASSUME CatalogInv, NEW c \in Sellers, NEW p \in Plans, NEW input \in Inputs \cup {Nothing},
         BeginUpdatePlan(c, p, input)
  PROVE  CatalogInv'
<1> DEFINE v == resolveDuration(input, plan[p].durationDays, plan[p].validity)
           r == [pc |-> "updating", it |-> p, input |-> input, stale |-> FALSE, validity |-> v]
<1>1. /\ p \in OnSale /\ editions > 0 /\ editions' = editions - 1
      /\ seller' = [seller EXCEPT ![c] = r]
      /\ UNCHANGED <<plan, coupons, order, overwrote, slipped, bared>>
  BY DEF BeginUpdatePlan, Ask
<1>2. plan[p] \in PlanRows /\ PlanSound(p)
  BY DEF CatalogInv, CatalogTyped
<1>3. /\ plan[p].durationDays \in Nat /\ plan[p].validity \in Lengths \cup {Nothing}
      /\ plan[p].durationDays # 0
      /\ plan[p].validity # Nothing => Measured(plan[p].validity)
      /\ p \notin overwrote /\ plan[p].validity # Nothing =>
           plan[p].validity.durationDays = plan[p].durationDays
  BY <1>1, <1>2 DEF PlanRows, PlanSound
<1>4. Measured(v) /\ (input = Nothing /\ p \notin overwrote => v.durationDays = plan[p].durationDays)
  BY <1>3, DurationResolved
<1> HIDE DEF v
<1>5. r \in SellerRequests /\ RequestSound(r)
  BY <1>4 DEF SellerRequests, Updates, RequestSound, Measured
<1> HIDE DEF r
<1> QED
  BY <1>1, <1>5, EditionsLeft, SellerMoves, Zenon

LEMMA OrderBegins ==
  ASSUME CatalogInv, NEW c \in Sellers, NEW o \in NewOrders, NEW p \in Plans,
         NEW k \in Coupons \cup {Nothing}, BeginOrder(c, o, p, k)
  PROVE  CatalogInv'
<1> DEFINE r == [pc |-> "ordering", it |-> o, plan |-> p, coupon |-> k]
<1>1. /\ editions > 0 /\ editions' = editions - 1 /\ seller' = [seller EXCEPT ![c] = r]
      /\ UNCHANGED <<plan, coupons, order, overwrote, slipped, bared>>
  BY DEF BeginOrder, Ask
<1>2. r \in SellerRequests /\ RequestSound(r)
  BY DEF SellerRequests, Orderings, RequestSound
<1> HIDE DEF r
<1> QED
  BY <1>1, <1>2, EditionsLeft, SellerMoves, Zenon

\* An order that names a plan or coupon has been made.
LEMMA NamedIsLinked ==
  ASSUME CatalogInv, NEW o \in NewOrders, NEW x, x # Nothing,
         x \in {order[o].plan, order[o].coupon}
  PROVE  Linked(x)
<1>1. OrderSound(o) /\ order[o] \in OrderRows
  BY DEF CatalogInv, CatalogTyped
<1> QED
  BY <1>1 DEF OrderSound, Linked

LEMMA DeletionsBegin ==
  ASSUME CatalogInv, NEW c \in Sellers,
         \/ \E p \in Plans : BeginDeletePlan(c, p)
         \/ \E k \in Coupons : BeginDeleteCoupon(c, k)
  PROVE  CatalogInv'
<1>1. ASSUME NEW p \in Plans, BeginDeletePlan(c, p) PROVE CatalogInv'
  <2> DEFINE r == [pc |-> "deletingPlan", it |-> p]
  <2>1. /\ ~Linked(p) /\ editions > 0 /\ editions' = editions - 1
        /\ seller' = [seller EXCEPT ![c] = r]
        /\ UNCHANGED <<plan, coupons, order, overwrote, slipped, bared>>
    BY <1>1 DEF BeginDeletePlan, Ask
  <2>2. \A o \in NewOrders : order[o].plan # p
    BY <2>1, NamedIsLinked, PlanCatalogAssumption
  <2>3. r \in SellerRequests /\ RequestSound(r)
    BY <2>2 DEF SellerRequests, PlanDeletions, RequestSound
  <2> HIDE DEF r
  <2> QED
    BY <2>1, <2>3, EditionsLeft, SellerMoves, Zenon
<1>2. ASSUME NEW k \in Coupons, BeginDeleteCoupon(c, k) PROVE CatalogInv'
  <2> DEFINE r == [pc |-> "deletingCoupon", it |-> k]
  <2>1. /\ ~Linked(k) /\ editions > 0 /\ editions' = editions - 1
        /\ seller' = [seller EXCEPT ![c] = r]
        /\ UNCHANGED <<plan, coupons, order, overwrote, slipped, bared>>
    BY <1>2 DEF BeginDeleteCoupon, Ask
  <2>2. \A o \in NewOrders : order[o].coupon # k
    BY <2>1, NamedIsLinked, PlanCatalogAssumption
  <2>3. r \in SellerRequests /\ RequestSound(r)
    BY <2>2 DEF SellerRequests, CouponDeletions, RequestSound
  <2> HIDE DEF r
  <2> QED
    BY <2>1, <2>3, EditionsLeft, SellerMoves, Zenon
<1> QED
  BY <1>1, <1>2

\* A plan's row is written whole: measured, and its lengths agree unless the write is known
\* to be of an old reading.
LEMMA PlanWritten ==
  ASSUME CatalogInv, NEW p \in Plans, NEW row \in PlanRows, row.durationDays # 0,
         row.validity # Nothing => Measured(row.validity),
         p \notin overwrote' /\ row.validity # Nothing =>
           row.validity.durationDays = row.durationDays,
         plan' = [plan EXCEPT ![p] = row], overwrote' \ {p} = overwrote \ {p},
         editions' \in 0 .. MaxEditions, seller' \in [Sellers -> SellerRequests],
         \A c \in Sellers : RequestSound(seller[c])',
         UNCHANGED <<coupons, order, slipped, bared>>
  PROVE  CatalogInv'
<1>1. /\ plan' \in [Plans -> PlanRows] /\ plan'[p] = row
      /\ \A x \in Plans \ {p} : plan'[x] = plan[x]
  BY DEF CatalogInv, CatalogTyped
<1>2. row # NoPlan
  BY CatalogRows
<1>3. OnSale' = OnSale \cup {p}
  BY <1>1, <1>2 DEF OnSale
<1>4. CatalogTyped'
  BY <1>1 DEF CatalogInv, CatalogTyped
<1>5. ASSUME NEW x \in Plans PROVE PlanSound(x)'
  <2>1. CASE x = p
    BY <1>1, <2>1 DEF PlanSound
  <2>2. CASE x # p
    BY <1>1, <1>3, <2>2 DEF CatalogInv, PlanSound
  <2> QED
    BY <2>1, <2>2
<1>6. \A o \in NewOrders : OrderSound(o)'
  BY <1>3 DEF CatalogInv, OrderSound
<1> QED
  BY <1>4, <1>5, <1>6 DEF CatalogInv, OrdersKeepTheirPlan

LEMMA PlanCreated ==
  ASSUME CatalogInv, NEW c \in Sellers, NEW p \in Plans, NEW input \in Inputs,
         CreatePlan(c, p, input)
  PROVE  CatalogInv'
<1> DEFINE v == resolveDuration(input, 0, Nothing)
           row == [durationDays |-> v.durationDays, validity |-> v]
<1>1. /\ p \notin OnSale /\ input # Nothing /\ ~Concerned(p)
      /\ seller[c] = Gone /\ seller' = [seller EXCEPT ![c] = Gone]
      /\ editions > 0 /\ editions' = editions - 1
      /\ plan' = [plan EXCEPT ![p] = row]
      /\ UNCHANGED <<coupons, order, overwrote, slipped, bared>>
  BY DEF CreatePlan, Ask
<1>2. Measured(v)
  BY <1>1, DurationResolved
<1> HIDE DEF v
<1>3. /\ row \in PlanRows /\ row.durationDays = v.durationDays /\ row.validity = v
      /\ row.durationDays # 0
  BY <1>2 DEF Measured, Lengths, PlanRows
<1> HIDE DEF row
<1>4. /\ seller' \in [Sellers -> SellerRequests]
      /\ \A d \in Sellers : seller'[d] = seller[d]
  BY <1>1 DEF CatalogInv, CatalogTyped
<1>5. ASSUME NEW d \in Sellers PROVE RequestSound(seller[d])'
  <2>1. seller'[d] = seller[d] /\ RequestSound(seller[d])
    BY <1>4 DEF CatalogInv
  <2>2. seller[d].pc = "updating" => seller[d].it # p /\ seller[d].it \in Plans
    BY <1>1, CatalogRows, RequestKinds DEF Concerned, Updates
  <2>3. \A x \in Plans \ {p} : plan'[x] = plan[x] /\ (x \in OnSale' <=> x \in OnSale)
    BY <1>1 DEF CatalogInv, CatalogTyped, OnSale
  <2> QED
    BY <1>1, <2>1, <2>2, <2>3 DEF RequestSound
<1> QED
  BY <1>1, <1>2, <1>3, <1>4, <1>5, EditionsLeft, PlanWritten, Zenon

LEMMA PlanUpdated ==
  ASSUME CatalogInv, NEW c \in Sellers, UpdatePlan(c)
  PROVE  CatalogInv'
<1> DEFINE r == seller[c]
           p == r.it
           row == [plan[p] EXCEPT
                    !.durationDays = IF DurationGiven(r.input) THEN r.validity.durationDays ELSE @,
                    !.validity = r.validity]
<1>1. /\ r.pc = "updating"
      /\ seller' = [d \in Sellers |->
           IF d = c THEN Gone
           ELSE IF At(d, "updating") /\ seller[d].it = p THEN [seller[d] EXCEPT !.stale = TRUE]
           ELSE seller[d]]
      /\ UNCHANGED <<coupons, order, editions, slipped, bared>>
  BY DEF UpdatePlan, At
<1>2. r \in Updates /\ RequestSound(r)
  BY <1>1, RequestKinds
<1>3. p \in Plans /\ r.validity \in Lengths /\ Measured(r.validity)
  BY <1>1, <1>2 DEF Updates, RequestSound
<1> HIDE DEF p
<1>4. ASSUME NEW d \in Sellers
      PROVE  /\ seller'[d] \in SellerRequests
             /\ \/ seller'[d] = Gone
                \/ /\ seller[d].pc = "updating" /\ seller[d].it = p
                   /\ seller'[d].pc = "updating" /\ seller'[d].it = p /\ seller'[d].stale
                   /\ seller'[d].validity = seller[d].validity
                \/ /\ ~(seller[d].pc = "updating" /\ seller[d].it = p)
                   /\ seller'[d] = seller[d]
  <2>1. CASE d = c
    BY <1>1, <2>1, CatalogRows
  <2>2. CASE d # c /\ At(d, "updating") /\ seller[d].it = p
    <3>1. seller[d] \in Updates
      BY <2>2, RequestKinds DEF At
    <3>2. seller'[d] = [seller[d] EXCEPT !.stale = TRUE]
      BY <1>1, <2>2
    <3>3. /\ seller'[d] \in Updates /\ seller'[d].stale /\ seller'[d].it = p
          /\ seller'[d].pc = "updating" /\ seller'[d].validity = seller[d].validity
      BY <2>2, <3>1, <3>2, Zenon DEF Updates, At
    <3> QED
      BY <2>2, <3>3 DEF SellerRequests, At
  <2>3. CASE d # c /\ ~(At(d, "updating") /\ seller[d].it = p)
    BY <1>1, <2>3, RequestKinds DEF At
  <2> QED
    BY <2>1, <2>2, <2>3
<1>5. seller' \in [Sellers -> SellerRequests]
  BY <1>1, <1>4
<1>6. CASE p \in OnSale
  <2>1. /\ plan' = [plan EXCEPT
             ![p].durationDays = IF DurationGiven(r.input) THEN r.validity.durationDays ELSE @,
             ![p].validity = r.validity]
        /\ overwrote' = IF r.input = Nothing /\ r.stale THEN overwrote \cup {p}
                        ELSE IF r.input = Nothing THEN overwrote ELSE overwrote \ {p}
    BY <1>6 DEF UpdatePlan, p
  <2>2. plan[p] \in PlanRows /\ plan[p].durationDays # 0
    BY <1>3, <1>6 DEF CatalogInv, CatalogTyped, PlanSound
  <2>3. plan' = [plan EXCEPT ![p] = row]
    BY <2>1, <2>2, Zenon DEF CatalogInv, CatalogTyped
  <2>4. r.validity.durationDays \in Nat \ {0}
    BY <1>3 DEF Lengths
  <2>5. /\ row \in PlanRows /\ row.durationDays # 0 /\ row.validity = r.validity
        /\ row.durationDays = IF r.input # Nothing THEN r.validity.durationDays
                              ELSE plan[p].durationDays
    BY <1>3, <2>2, <2>4, Zenon DEF PlanRows, DurationGiven
  <2> HIDE DEF row
  <2>6. r.input = Nothing /\ ~r.stale /\ p \notin overwrote =>
          r.validity.durationDays = plan[p].durationDays
    BY <1>1, <1>2, <1>6 DEF RequestSound, p
  <2>7. p \notin overwrote' => row.validity.durationDays = row.durationDays
    BY <1>2, <2>1, <2>5, <2>6 DEF Updates
  <2>8. overwrote' \ {p} = overwrote \ {p}
    BY <2>1
  <2>9. ASSUME NEW d \in Sellers PROVE RequestSound(seller[d])'
    <3>1. \A x \in Plans \ {p} : plan'[x] = plan[x] /\ (x \in OnSale' <=> x \in OnSale)
      BY <2>3 DEF CatalogInv, CatalogTyped, OnSale
    <3>2. CASE seller'[d] = Gone
      BY <3>2, CatalogRows DEF RequestSound
    <3>3. CASE /\ seller[d].pc = "updating" /\ seller[d].it = p
               /\ seller'[d].pc = "updating" /\ seller'[d].it = p /\ seller'[d].stale
               /\ seller'[d].validity = seller[d].validity
      <4>1. Measured(seller[d].validity)
        BY <3>3, RequestKinds DEF RequestSound
      <4> QED
        BY <3>3, <4>1 DEF RequestSound
    <3>4. CASE /\ ~(seller[d].pc = "updating" /\ seller[d].it = p)
               /\ seller'[d] = seller[d]
      <4>1. RequestSound(seller[d])
        BY RequestKinds
      <4>2. seller[d].pc = "updating" => seller[d].it \in Plans \ {p}
        BY <3>4, RequestKinds DEF Updates
      <4> QED
        BY <1>1, <2>8, <3>1, <3>4, <4>1, <4>2 DEF RequestSound
    <3> QED
      BY <1>4, <3>2, <3>3, <3>4
  <2>10. editions' \in 0 .. MaxEditions
    BY <1>1, EditionsLeft
  <2> QED
    BY <1>1, <1>3, <1>5, <2>3, <2>5, <2>7, <2>8, <2>9, <2>10, PlanWritten, Zenon
<1>7. CASE p \notin OnSale
  <2>1. UNCHANGED <<plan, overwrote>>
    BY <1>7 DEF UpdatePlan, p
  <2>2. ASSUME NEW d \in Sellers PROVE RequestSound(seller[d])'
    <3>1. CASE seller'[d] = Gone
      BY <3>1, CatalogRows DEF RequestSound
    <3>2. CASE /\ seller[d].pc = "updating" /\ seller[d].it = p
               /\ seller'[d].pc = "updating" /\ seller'[d].it = p /\ seller'[d].stale
               /\ seller'[d].validity = seller[d].validity
      <4>1. Measured(seller[d].validity)
        BY <3>2, RequestKinds DEF RequestSound
      <4> QED
        BY <3>2, <4>1 DEF RequestSound
    <3>3. CASE seller'[d] = seller[d]
      BY <1>1, <2>1, <3>3, RequestKinds DEF RequestSound, OnSale
    <3> QED
      BY <1>4, <3>1, <3>2, <3>3
  <2>3. CatalogTyped'
    BY <1>1, <1>5, <2>1 DEF CatalogInv, CatalogTyped
  <2>4. \A x \in Plans : PlanSound(x)'
    BY <2>1 DEF CatalogInv, PlanSound, OnSale
  <2>5. \A o \in NewOrders : OrderSound(o)'
    BY <1>1, <2>1 DEF CatalogInv, OrderSound, OnSale
  <2> QED
    BY <1>1, <2>2, <2>3, <2>4, <2>5 DEF CatalogInv, OrdersKeepTheirPlan
<1> QED
  BY <1>6, <1>7

LEMMA OrderMade ==
  ASSUME CatalogInv, NEW c \in Sellers, MakeOrder(c)
  PROVE  CatalogInv'
<1> DEFINE r == seller[c]
           row == [plan |-> r.plan, coupon |-> r.coupon, made |-> TRUE]
<1>1. /\ r.pc = "ordering" /\ seller' = [seller EXCEPT ![c] = Gone]
      /\ UNCHANGED <<plan, coupons, editions, overwrote, bared>>
  BY DEF MakeOrder, At, Done
<1>2. CASE Makes(r.plan, r.coupon)
  <2>1. /\ order' = [order EXCEPT ![r.it] = row]
        /\ slipped' = IF \E d \in Sellers : /\ At(d, "deletingPlan") \/ At(d, "deletingCoupon")
                                            /\ seller[d].it \in {r.plan, r.coupon}
                        THEN slipped \cup {r.it} ELSE slipped
    BY <1>2 DEF MakeOrder
  <2>2. r \in Orderings
    BY <1>1, RequestKinds
  <2>3. r.it \in NewOrders /\ row \in OrderRows
    BY <2>2 DEF Orderings, OrderRows
  <2> DEFINE i == r.it
  <2>4. /\ slipped \subseteq slipped' /\ slipped' \subseteq slipped \cup {i}
        /\ \A d \in Sellers :
             /\ seller[d].pc \in {"deletingPlan", "deletingCoupon"}
             /\ seller[d].it \in {r.plan, r.coupon}
             => i \in slipped'
    BY <2>1 DEF At
  <2>5. /\ row.plan = r.plan /\ row.coupon = r.coupon /\ row.made
        /\ r.plan \in OnSale /\ r.coupon \in coupons \cup {Nothing}
    BY <1>2 DEF Makes
  <2> HIDE DEF row, i
  <2>6. /\ order' \in [NewOrders -> OrderRows] /\ order'[i] = row
        /\ \A o \in NewOrders \ {i} : order'[o] = order[o]
    BY <2>1, <2>3 DEF CatalogInv, CatalogTyped, i
  <2>7. OnSale' = OnSale
    BY <1>1 DEF OnSale
  <2>8. /\ seller' \in [Sellers -> SellerRequests] /\ seller'[c] = Gone
        /\ \A d \in Sellers \ {c} : seller'[d] = seller[d]
    BY <1>1, CatalogRows DEF CatalogInv, CatalogTyped
  <2>9. CatalogTyped'
    BY <1>1, <2>3, <2>4, <2>6, <2>8 DEF CatalogInv, CatalogTyped, i
  <2>10. \A p \in Plans : PlanSound(p)'
    BY <1>1, <2>7 DEF CatalogInv, PlanSound
  <2>11. ASSUME NEW o \in NewOrders PROVE OrderSound(o)'
    <3>1. CASE o = i
      BY <1>1, <2>5, <2>6, <2>7, <3>1 DEF OrderSound
    <3>2. CASE o # i
      BY <1>1, <2>6, <2>7, <3>2 DEF CatalogInv, OrderSound
    <3> QED
      BY <3>1, <3>2
  <2>12. ASSUME NEW d \in Sellers PROVE RequestSound(seller[d])'
    <3>1. CASE d = c
      BY <2>8, <3>1, CatalogRows DEF RequestSound
    <3>2. CASE d # c
      <4>1. seller'[d] = seller[d] /\ RequestSound(seller[d])
        BY <2>8, <3>2, RequestKinds
      <4> QED
        BY <1>1, <2>4, <2>5, <2>6, <2>7, <4>1 DEF RequestSound
    <3> QED
      BY <3>1, <3>2
  <2>13. OrdersKeepTheirPlan'
    BY <1>1, <2>4 DEF CatalogInv, OrdersKeepTheirPlan
  <2> QED
    BY <2>9, <2>10, <2>11, <2>12, <2>13 DEF CatalogInv
<1>3. CASE ~Makes(r.plan, r.coupon)
  <2>1. UNCHANGED <<order, slipped>>
    BY <1>3 DEF MakeOrder
  <2> QED
    BY <1>1, <2>1, CatalogRows, EditionsLeft, SellerMoves, Zenon DEF RequestSound
<1> QED
  BY <1>2, <1>3

LEMMA PlanDeleted ==
  ASSUME CatalogInv, NEW c \in Sellers, DeletePlan(c)
  PROVE  CatalogInv'
<1> DEFINE p == seller[c].it
           losing == {o \in NewOrders : order[o].plan = p}
<1>1. /\ seller[c].pc = "deletingPlan" /\ seller' = [seller EXCEPT ![c] = Gone]
      /\ plan' = [plan EXCEPT ![p] = NoPlan]
      /\ order' = [o \in NewOrders |->
           IF o \in losing THEN [order[o] EXCEPT !.plan = Nothing] ELSE order[o]]
      /\ bared' = bared \cup losing /\ overwrote' = overwrote \ {p}
      /\ UNCHANGED <<coupons, editions, slipped>>
  BY DEF DeletePlan, At, Done
<1>2. /\ losing \subseteq slipped /\ p \in Plans
  BY <1>1, RequestKinds DEF RequestSound, PlanDeletions
<1> HIDE DEF p
<1>3. /\ plan' \in [Plans -> PlanRows] /\ plan'[p] = NoPlan
      /\ \A x \in Plans \ {p} : plan'[x] = plan[x]
      /\ OnSale' = OnSale \ {p}
  BY <1>1, <1>2, CatalogRows DEF CatalogInv, CatalogTyped, OnSale
<1>4. ASSUME NEW o \in NewOrders
      PROVE  /\ order'[o] \in OrderRows /\ order'[o].coupon = order[o].coupon
             /\ (order'[o].made <=> order[o].made)
             /\ order'[o].plan = Nothing \/ (order'[o].plan = order[o].plan /\ order[o].plan # p)
  <2>1. order[o] \in OrderRows
    BY DEF CatalogInv, CatalogTyped
  <2>2. CASE o \in losing
    BY <1>1, <2>1, <2>2 DEF OrderRows
  <2>3. CASE o \notin losing
    BY <1>1, <2>1, <2>3
  <2> QED
    BY <2>2, <2>3
<1>5. /\ seller' \in [Sellers -> SellerRequests] /\ seller'[c] = Gone
      /\ \A d \in Sellers \ {c} : seller'[d] = seller[d]
  BY <1>1, CatalogRows DEF CatalogInv, CatalogTyped
<1>6. bared' \subseteq bared \cup slipped
  BY <1>1, <1>2
<1> HIDE DEF losing
<1>7. CatalogTyped'
  <2>1. order' \in [NewOrders -> OrderRows]
    BY <1>1, <1>4
  <2> QED
    BY <1>1, <1>3, <1>5, <1>6, <2>1 DEF CatalogInv, CatalogTyped
<1>8. ASSUME NEW x \in Plans PROVE PlanSound(x)'
  <2>1. CASE x = p
    BY <1>3, <2>1, CatalogRows DEF PlanSound
  <2>2. CASE x # p
    BY <1>1, <1>3, <2>2 DEF CatalogInv, PlanSound
  <2> QED
    BY <2>1, <2>2
<1>9. ASSUME NEW o \in NewOrders PROVE OrderSound(o)'
  <2>1. OrderSound(o)
    BY DEF CatalogInv
  <2>2. order'[o].plan \in OnSale' \cup {Nothing} /\ order'[o].coupon \in coupons' \cup {Nothing}
    <3>1. order[o].plan \in OnSale \cup {Nothing} /\ order[o].coupon \in coupons \cup {Nothing}
      BY <2>1 DEF OrderSound
    <3>2. coupons' = coupons
      BY <1>1
    <3>3. OnSale' = OnSale \ {p}
      BY <1>3
    <3> QED
      BY <1>4, <3>1, <3>2, <3>3
  <2>3. order[o].made \/ (order[o].plan = Nothing /\ order[o].coupon = Nothing)
    BY <2>1 DEF OrderSound
  <2>4. order'[o].made \/ (order'[o].plan = Nothing /\ order'[o].coupon = Nothing)
    BY <1>1, <1>3, <1>4, <2>3
  <2> QED
    BY <2>2, <2>4 DEF OrderSound
<1>10. ASSUME NEW d \in Sellers PROVE RequestSound(seller[d])'
  <2>1. CASE d = c
    BY <1>5, <2>1, CatalogRows DEF RequestSound
  <2>2. CASE d # c
    <3>1. seller'[d] = seller[d] /\ RequestSound(seller[d])
      BY <1>5, <2>2, RequestKinds
    <3>2. /\ seller[d].pc = "deletingPlan" => seller[d].it \in Plans
          /\ seller[d].pc = "updating" => seller[d].it \in Plans
      BY RequestKinds DEF PlanDeletions, Updates
    <3>3. Nothing \notin Plans
      BY PlanCatalogAssumption
    <3>4. seller[d].pc = "updating" => RequestSound(seller[d])'
      BY <1>1, <1>3, <3>1, <3>2 DEF RequestSound
    <3>5. seller[d].pc # "updating" => RequestSound(seller[d])'
      BY <1>1, <1>4, <3>1, <3>2, <3>3 DEF RequestSound
    <3> QED
      BY <3>4, <3>5
  <2> QED
    BY <2>1, <2>2
<1>11. OrdersKeepTheirPlan'
  BY <1>1, <1>6 DEF CatalogInv, OrdersKeepTheirPlan
<1> QED
  BY <1>7, <1>8, <1>9, <1>10, <1>11 DEF CatalogInv

LEMMA CouponDeleted ==
  ASSUME CatalogInv, NEW c \in Sellers, DeleteCoupon(c)
  PROVE  CatalogInv'
<1> DEFINE k == seller[c].it
           losing == {o \in NewOrders : order[o].coupon = k}
<1>1. /\ seller[c].pc = "deletingCoupon" /\ seller' = [seller EXCEPT ![c] = Gone]
      /\ coupons' = coupons \ {k}
      /\ order' = [o \in NewOrders |->
           IF o \in losing THEN [order[o] EXCEPT !.coupon = Nothing] ELSE order[o]]
      /\ bared' = bared \cup losing
      /\ UNCHANGED <<plan, editions, overwrote, slipped>>
  BY DEF DeleteCoupon, At, Done
<1>2. losing \subseteq slipped /\ k \in Coupons
  BY <1>1, RequestKinds DEF RequestSound, CouponDeletions
<1> HIDE DEF k
<1>3. ASSUME NEW o \in NewOrders
      PROVE  /\ order'[o] \in OrderRows /\ order'[o].plan = order[o].plan
             /\ (order'[o].made <=> order[o].made)
             /\ order'[o].coupon = Nothing
                  \/ (order'[o].coupon = order[o].coupon /\ order[o].coupon # k)
  <2>1. order[o] \in OrderRows
    BY DEF CatalogInv, CatalogTyped
  <2>2. CASE o \in losing
    BY <1>1, <2>1, <2>2 DEF OrderRows
  <2>3. CASE o \notin losing
    BY <1>1, <2>1, <2>3
  <2> QED
    BY <2>2, <2>3
<1>4. /\ seller' \in [Sellers -> SellerRequests] /\ seller'[c] = Gone
      /\ \A d \in Sellers \ {c} : seller'[d] = seller[d]
  BY <1>1, CatalogRows DEF CatalogInv, CatalogTyped
<1>5. bared' \subseteq bared \cup slipped /\ OnSale' = OnSale
  BY <1>1, <1>2 DEF OnSale
<1> HIDE DEF losing
<1>6. CatalogTyped'
  <2>1. order' \in [NewOrders -> OrderRows]
    BY <1>1, <1>3
  <2> QED
    BY <1>1, <1>4, <1>5, <2>1 DEF CatalogInv, CatalogTyped
<1>7. \A x \in Plans : PlanSound(x)'
  BY <1>1, <1>5 DEF CatalogInv, PlanSound
<1>8. ASSUME NEW o \in NewOrders PROVE OrderSound(o)'
  <2>1. OrderSound(o)
    BY DEF CatalogInv
  <2>2. order'[o].plan \in OnSale' \cup {Nothing} /\ order'[o].coupon \in coupons' \cup {Nothing}
    <3>1. order[o].plan \in OnSale \cup {Nothing} /\ order[o].coupon \in coupons \cup {Nothing}
      BY <2>1 DEF OrderSound
    <3>2. coupons' = coupons \ {k}
      BY <1>1
    <3>3. OnSale' = OnSale
      BY <1>5
    <3> QED
      BY <1>3, <3>1, <3>2, <3>3
  <2>3. order[o].made \/ (order[o].plan = Nothing /\ order[o].coupon = Nothing)
    BY <2>1 DEF OrderSound
  <2>4. order'[o].made \/ (order'[o].plan = Nothing /\ order'[o].coupon = Nothing)
    BY <1>1, <1>3, <1>5, <2>3
  <2> QED
    BY <2>2, <2>4 DEF OrderSound
<1>9. ASSUME NEW d \in Sellers PROVE RequestSound(seller[d])'
  <2>1. CASE d = c
    BY <1>4, <2>1, CatalogRows DEF RequestSound
  <2>2. CASE d # c
    <3>1. seller'[d] = seller[d] /\ RequestSound(seller[d])
      BY <1>4, <2>2, RequestKinds
    <3>2. seller[d].pc = "deletingCoupon" => seller[d].it \in Coupons
      BY RequestKinds DEF CouponDeletions
    <3>3. Nothing \notin Coupons
      BY PlanCatalogAssumption
    <3> QED
      BY <1>1, <1>3, <1>5, <3>1, <3>2, <3>3 DEF RequestSound
  <2> QED
    BY <2>1, <2>2
<1>10. OrdersKeepTheirPlan'
  BY <1>1, <1>5 DEF CatalogInv, OrdersKeepTheirPlan
<1> QED
  BY <1>6, <1>7, <1>8, <1>9, <1>10 DEF CatalogInv

LEMMA CatalogStep == CatalogInv /\ [PlanCatalogNext]_kvars => CatalogInv'
<1> SUFFICES ASSUME CatalogInv, [PlanCatalogNext]_kvars PROVE CatalogInv'
  OBVIOUS
<1>1. CASE UNCHANGED kvars
  BY <1>1 DEF kvars, CatalogInv, CatalogTyped, PlanSound, OrderSound, RequestSound, OnSale,
              OrdersKeepTheirPlan
<1>2. CASE PlanCatalogNext
  <2>1. PICK c \in Sellers :
          \/ UpdatePlan(c) \/ MakeOrder(c) \/ DeletePlan(c) \/ DeleteCoupon(c)
          \/ \E k \in Coupons : BeginDeleteCoupon(c, k)
          \/ \E p \in Plans :
               \/ BeginDeletePlan(c, p)
               \/ \E i \in Inputs : CreatePlan(c, p, i)
               \/ \E i \in Inputs \cup {Nothing} : BeginUpdatePlan(c, p, i)
               \/ \E o \in NewOrders, k \in Coupons \cup {Nothing} : BeginOrder(c, o, p, k)
    BY <1>2 DEF PlanCatalogNext
  <2>2. CASE UpdatePlan(c) \/ MakeOrder(c) \/ DeletePlan(c) \/ DeleteCoupon(c)
    BY <2>2, PlanUpdated, OrderMade, PlanDeleted, CouponDeleted
  <2>3. CASE \/ \E k \in Coupons : BeginDeleteCoupon(c, k)
             \/ \E p \in Plans : BeginDeletePlan(c, p)
    BY <2>3, DeletionsBegin
  <2>4. CASE \E p \in Plans :
               \/ \E i \in Inputs : CreatePlan(c, p, i)
               \/ \E i \in Inputs \cup {Nothing} : BeginUpdatePlan(c, p, i)
               \/ \E o \in NewOrders, k \in Coupons \cup {Nothing} : BeginOrder(c, o, p, k)
    BY <2>4, PlanCreated, UpdateBegins, OrderBegins
  <2> QED
    BY <2>1, <2>2, <2>3, <2>4
<1> QED
  BY <1>1, <1>2

(***************************************************************************)
(* DailyStats                                                              *)
(***************************************************************************)

SaleRows == [status : {"PENDING", "SUCCESS", "REFUNDED"}, day : Dates]
Rollups ==
  [pc : {"rest", "reading", "writing"}, day : Dates, unread : SUBSET Metrics,
   got : [Metrics -> 0 .. Missing], unwritten : SUBSET Metrics]

StatsTyped ==
  /\ today \in [day : 1 .. MaxDay, three : BOOLEAN]
  /\ sale \in [Sales -> SaleRows] /\ \A o \in Sales : sale[o].day <= today.day
  /\ readOn \in [Readers -> Dates] /\ \A u \in Readers : readOn[u] <= today.day
  /\ stats \in [Dates -> [Metrics -> 0 .. Missing]]
  /\ rollup \in [Processes -> Rollups]
  /\ ran \in [Processes -> 1 .. MaxDay] /\ \A p \in Processes : ran[p] <= today.day
  /\ readers \in [Dates -> SUBSET Readers] /\ early \in [Dates -> SUBSET Readers]

\* The number n says what happened on day d.
Tells(d, m, n) ==
  /\ n \in 0 .. Missing /\ n # Missing
  /\ IF m = "active"
       THEN Cardinality(readers[d] \ early[d]) <= n /\ n <= Cardinality(readers[d])
       ELSE d \in refunded \/ n = Cardinality(PaidOn(d))

\* Who read and has not read since bears the day.
LastReadKept ==
  \A u \in Readers : \A d \in Dates \ {0} :
    /\ readOn[u] = d => u \in readers[d]
    /\ u \in readers[d] \ early[d] => readOn[u] = d

\* A rollup works on yesterday, and what it has got still tells of it.
RollupSound(p) ==
  /\ rollup[p].pc = "rest" => rollup[p] = AtRest
  /\ rollup[p].pc # "rest" =>
       /\ rollup[p].day = today.day - 1 /\ rollup[p].day # 0 /\ ran[p] = today.day
       /\ \A m \in Metrics \ rollup[p].unread : Tells(rollup[p].day, m, rollup[p].got[m])
  /\ rollup[p].pc = "reading" => rollup[p].unwritten = {}
  /\ rollup[p].pc = "writing" => rollup[p].unread = {}

\* What is written is of a day whose rollup has begun.
StatsSound ==
  \A d \in Dates : \A m \in Metrics :
    Known(d, m) => (\E p \in Processes : ran[p] > d) /\ Tells(d, m, stats[d][m])

StatsInv ==
  /\ StatsTyped /\ LastReadKept /\ StatsSound
  /\ \A p \in Processes : RollupSound(p)

LEMMA StatsNumbers ==
  /\ MaxDay \in Nat \ {0} /\ Dates = 0 .. MaxDay
  /\ Cardinality(Sales) \in Nat /\ Cardinality(Readers) \in Nat
  /\ Missing \in Nat /\ Missing > Cardinality(Sales) /\ Missing > Cardinality(Readers)
  /\ \A S \in SUBSET Sales : Cardinality(S) \in Nat /\ Cardinality(S) <= Cardinality(Sales)
  /\ \A R \in SUBSET Readers :
       /\ IsFiniteSet(R) /\ Cardinality(R) \in Nat /\ Cardinality(R) <= Cardinality(Readers)
       /\ \A Q \in SUBSET R : Cardinality(Q) \in Nat /\ Cardinality(Q) <= Cardinality(R)
<1>1. Cardinality(Sales) \in Nat /\ Cardinality(Readers) \in Nat
  BY DailyStatsAssumption, FS_CardinalityType
<1>2. ASSUME NEW S \in SUBSET Sales
      PROVE  Cardinality(S) \in Nat /\ Cardinality(S) <= Cardinality(Sales)
  BY DailyStatsAssumption, FS_Subset, FS_CardinalityType
<1>3. ASSUME NEW R \in SUBSET Readers
      PROVE  /\ IsFiniteSet(R) /\ Cardinality(R) \in Nat
             /\ Cardinality(R) <= Cardinality(Readers)
             /\ \A Q \in SUBSET R : Cardinality(Q) \in Nat /\ Cardinality(Q) <= Cardinality(R)
  <2>1. IsFiniteSet(R) /\ Cardinality(R) <= Cardinality(Readers)
    BY DailyStatsAssumption, FS_Subset
  <2>2. Cardinality(R) \in Nat
    BY <2>1, FS_CardinalityType
  <2>3. ASSUME NEW Q \in SUBSET R
        PROVE  Cardinality(Q) \in Nat /\ Cardinality(Q) <= Cardinality(R)
    BY <2>1, FS_Subset, FS_CardinalityType
  <2> QED
    BY <2>1, <2>2, <2>3
<1> QED
  BY <1>1, <1>2, <1>3, DailyStatsAssumption DEF Missing, Dates

LEMMA AtRestIs ==
  /\ AtRest \in Rollups /\ AtRest.pc = "rest" /\ AtRest.unread = {} /\ AtRest.unwritten = {}
  /\ AtRest.day = 0
  BY StatsNumbers DEF AtRest, Rollups

LEMMA StatsBegin == DailyStatsInit => StatsInv
<1> SUFFICES ASSUME DailyStatsInit PROVE StatsInv
  OBVIOUS
<1>1. /\ today = [day |-> 1, three |-> TRUE]
      /\ sale = [o \in Sales |-> [status |-> "PENDING", day |-> 0]]
      /\ readOn = [u \in Readers |-> 0]
      /\ stats = [d \in Dates |-> [m \in Metrics |-> Missing]]
      /\ rollup = [p \in Processes |-> AtRest] /\ ran = [p \in Processes |-> 1]
      /\ readers = [d \in Dates |-> {}] /\ early = [d \in Dates |-> {}]
  BY DEF DailyStatsInit
<1>2. StatsTyped
  BY <1>1, StatsNumbers, AtRestIs DEF StatsTyped, SaleRows
<1>3. LastReadKept
  BY <1>1 DEF LastReadKept
<1>4. StatsSound
  BY <1>1 DEF StatsSound, Known
<1>5. \A p \in Processes : RollupSound(p)
  BY <1>1, AtRestIs DEF RollupSound
<1> QED
  BY <1>2, <1>3, <1>4, <1>5 DEF StatsInv

\* The day's successful orders, field by field.
LEMMA PaidOnDay ==
  ASSUME StatsTyped, NEW d \in Dates
  PROVE  PaidOn(d) = {o \in Sales : sale[o].day = d /\ sale[o].status = "SUCCESS"}
  BY DEF StatsTyped, SaleRows, PaidOn

\* What the invariant says of the books and the shapes.
LEMMA StatsTell == StatsInv => DailyStatsTypeOK /\ RevenueOfOrders /\ ReadersCounted
<1> SUFFICES ASSUME StatsInv PROVE DailyStatsTypeOK /\ RevenueOfOrders /\ ReadersCounted
  OBVIOUS
<1>1. ASSUME NEW p \in Processes
      PROVE  rollup[p].pc \in {"rest", "reading", "writing"} /\ rollup[p].day < today.day
  <2>1. rollup[p] \in Rollups /\ RollupSound(p) /\ today.day \in 1 .. MaxDay
    BY DEF StatsInv, StatsTyped
  <2> QED
    BY <2>1, AtRestIs DEF Rollups, RollupSound
<1>2. DailyStatsTypeOK
  BY <1>1 DEF StatsInv, StatsTyped, DailyStatsTypeOK
<1>3. RevenueOfOrders
  BY PaidOnDay, Zenon DEF StatsInv, StatsSound, RevenueOfOrders, Tells, Metrics
<1>4. ReadersCounted
  <2>1. ASSUME NEW d \in Dates, Known(d, "active")
        PROVE  /\ stats[d]["active"] >= Cardinality(readers[d] \ early[d])
               /\ stats[d]["active"] <= Cardinality(readers[d])
    <3>1. Tells(d, "active", stats[d]["active"])
      BY <2>1 DEF StatsInv, StatsSound, Metrics
    <3>2. readers[d] \in SUBSET Readers /\ readers[d] \ early[d] \in SUBSET Readers
      BY DEF StatsInv, StatsTyped
    <3>3. Cardinality(readers[d]) \in Nat /\ Cardinality(readers[d] \ early[d]) \in Nat
      BY <3>2, StatsNumbers
    <3>4. stats[d]["active"] \in Int
      BY <3>1, StatsNumbers DEF Tells
    <3> QED
      BY <3>1, <3>3, <3>4 DEF Tells
  <2> QED
    BY <2>1 DEF ReadersCounted
<1> QED
  BY <1>2, <1>3, <1>4

\* A day whose rollup has begun is over: what has been told of it stays told.
LEMMA TellingStays ==
  ASSUME StatsInv, StatsTyped', today' = today, NEW d \in Dates, d < today.day,
         NEW m \in Metrics, NEW n, Tells(d, m, n),
         readers'[d] = readers[d], early[d] \subseteq early'[d],
         refunded \subseteq refunded', d \in refunded' \/ PaidOn(d)' = PaidOn(d)
  PROVE  Tells(d, m, n)'
<1>1. CASE m = "active"
  <2>1. readers[d] \in SUBSET Readers /\ readers[d] \ early[d] \in SUBSET Readers
    BY DEF StatsInv, StatsTyped
  <2>2. readers[d] \ early'[d] \in SUBSET (readers[d] \ early[d])
    OBVIOUS
  <2>3. /\ Cardinality(readers[d] \ early'[d]) <= Cardinality(readers[d] \ early[d])
        /\ Cardinality(readers[d] \ early'[d]) \in Nat
        /\ Cardinality(readers[d] \ early[d]) \in Nat
    BY <2>1, <2>2, StatsNumbers
  <2>4. n \in Nat /\ Cardinality(readers[d] \ early[d]) <= n
    BY <1>1, StatsNumbers DEF Tells
  <2>5. Cardinality(readers[d] \ early'[d]) <= n
    BY <2>3, <2>4
  <2> QED
    BY <1>1, <2>5 DEF Tells, Missing
<1>2. CASE m # "active"
  BY <1>2 DEF Tells, Missing
<1> QED
  BY <1>1, <1>2

\* What happens during the day leaves the rollups and the statistics alone.
LEMMA DayGoesOn ==
  ASSUME StatsInv, StatsTyped', LastReadKept', UNCHANGED <<today, stats, rollup, ran>>,
         \A d \in Dates : d < today.day =>
           readers'[d] = readers[d] /\ early[d] \subseteq early'[d],
         refunded \subseteq refunded',
         \A d \in Dates : (\E p \in Processes : ran[p] > d) =>
           d \in refunded' \/ PaidOn(d)' = PaidOn(d)
  PROVE  StatsInv'
<1>1. today.day \in 1 .. MaxDay /\ \A p \in Processes : ran[p] \in 1 .. MaxDay /\ ran[p] <= today.day
  BY DEF StatsInv, StatsTyped
<1>2. ASSUME NEW d \in Dates, NEW m \in Metrics, NEW n, Tells(d, m, n),
             \E p \in Processes : ran[p] > d
      PROVE  Tells(d, m, n)'
  <2>1. d < today.day
    BY <1>1, <1>2, StatsNumbers
  <2> QED
    BY <1>2, <2>1, TellingStays
<1>3. StatsSound'
  <2>1. ASSUME NEW d \in Dates, NEW m \in Metrics, Known(d, m)'
        PROVE  (\E p \in Processes : ran'[p] > d) /\ Tells(d, m, stats[d][m])'
    <3>1. Known(d, m)
      BY <2>1 DEF Known, Missing
    <3>2. (\E p \in Processes : ran[p] > d) /\ Tells(d, m, stats[d][m])
      BY <3>1 DEF StatsInv, StatsSound
    <3>3. stats'[d][m] = stats[d][m]
      OBVIOUS
    <3> QED
      BY <1>2, <3>2, <3>3, Zenon DEF Tells
  <2> QED
    BY <2>1 DEF StatsSound
<1>4. ASSUME NEW p \in Processes PROVE RollupSound(p)'
  <2>1. RollupSound(p) /\ rollup[p] \in Rollups
    BY DEF StatsInv, StatsTyped
  <2>2. ASSUME rollup[p].pc # "rest", NEW m \in Metrics \ rollup[p].unread
        PROVE  Tells(rollup[p].day, m, rollup[p].got[m])'
    <3>1. /\ Tells(rollup[p].day, m, rollup[p].got[m])
          /\ rollup[p].day = today.day - 1 /\ ran[p] = today.day
      BY <2>1, <2>2 DEF RollupSound
    <3>2. rollup[p].day \in Dates /\ ran[p] > rollup[p].day
      BY <1>1, <2>1, <3>1 DEF Rollups
    <3>3. rollup' = rollup
      OBVIOUS
    <3> QED
      BY <1>2, <3>1, <3>2, <3>3 DEF Tells
  <2>3. AtRest' = AtRest
    OBVIOUS
  <2> QED
    BY <2>1, <2>2, <2>3 DEF RollupSound
<1> QED
  BY <1>3, <1>4 DEF StatsInv

LEMMA OrderPaid ==
  ASSUME StatsInv, NEW o \in Sales, Pay(o)
  PROVE  StatsInv'
<1>1. /\ sale[o].status = "PENDING"
      /\ sale' = [sale EXCEPT ![o] = [status |-> "SUCCESS", day |-> today.day]]
      /\ UNCHANGED <<today, readOn, stats, rollup, ran, readers, refunded, early>>
  BY DEF Pay
<1>2. today.day \in 1 .. MaxDay /\ today.day \in Dates
  BY StatsNumbers DEF StatsInv, StatsTyped
<1>3. StatsTyped'
  <2> DEFINE row == [status |-> "SUCCESS", day |-> today.day]
  <2>1. row \in SaleRows /\ row.day = today.day
    BY <1>2 DEF SaleRows
  <2>2. sale' = [sale EXCEPT ![o] = row]
    BY <1>1
  <2> HIDE DEF row
  <2>3. sale' \in [Sales -> SaleRows] /\ \A x \in Sales : sale'[x].day <= today.day
    BY <1>2, <2>1, <2>2, StatsNumbers DEF StatsInv, StatsTyped
  <2>4. Missing' = Missing
    BY DEF Missing
  <2> QED
    BY <1>1, <2>3, <2>4 DEF StatsInv, StatsTyped
<1>4. LastReadKept'
  BY <1>1 DEF StatsInv, LastReadKept
<1>5. ASSUME NEW d \in Dates, NEW p \in Processes, ran[p] > d
      PROVE  PaidOn(d)' = PaidOn(d)
  <2>1. d < today.day
    BY <1>2, <1>5, StatsNumbers DEF StatsInv, StatsTyped
  <2>2. /\ PaidOn(d) = {x \in Sales : sale[x].day = d /\ sale[x].status = "SUCCESS"}
        /\ PaidOn(d)' = {x \in Sales : sale'[x].day = d /\ sale'[x].status = "SUCCESS"}
    BY <1>3, PaidOnDay DEF StatsInv, StatsTyped, SaleRows, PaidOn
  <2>3. /\ sale'[o].day = today.day
        /\ \A x \in Sales \ {o} : sale'[x] = sale[x]
    BY <1>1 DEF StatsInv, StatsTyped
  <2>4. today.day # d
    BY <1>2, <2>1, StatsNumbers
  <2> QED
    BY <1>1, <2>2, <2>3, <2>4
<1> QED
  BY <1>1, <1>3, <1>4, <1>5, DayGoesOn

LEMMA OrderRefunded ==
  ASSUME StatsInv, NEW o \in Sales, Refund(o)
  PROVE  StatsInv'
<1>1. /\ sale[o].status = "SUCCESS" /\ sale' = [sale EXCEPT ![o].status = "REFUNDED"]
      /\ refunded' = IF \E p \in Processes : ran[p] > sale[o].day
                       THEN refunded \cup {sale[o].day} ELSE refunded
      /\ UNCHANGED <<today, readOn, stats, rollup, ran, readers, early>>
  BY DEF Refund
<1>2. /\ sale' \in [Sales -> SaleRows] /\ sale'[o].day = sale[o].day
      /\ sale'[o].status = "REFUNDED"
      /\ \A x \in Sales \ {o} : sale'[x] = sale[x]
  BY <1>1 DEF StatsInv, StatsTyped, SaleRows
<1>3. StatsTyped'
  BY <1>1, <1>2 DEF StatsInv, StatsTyped, Missing
<1>4. LastReadKept'
  BY <1>1 DEF StatsInv, LastReadKept
<1>5. ASSUME NEW d \in Dates, NEW p \in Processes, ran[p] > d, d \notin refunded'
      PROVE  PaidOn(d)' = PaidOn(d)
  <2>1. sale[o].day # d
    BY <1>1, <1>5
  <2>2. /\ PaidOn(d) = {x \in Sales : sale[x].day = d /\ sale[x].status = "SUCCESS"}
        /\ PaidOn(d)' = {x \in Sales : sale'[x].day = d /\ sale'[x].status = "SUCCESS"}
    BY <1>3, PaidOnDay DEF StatsInv, StatsTyped, SaleRows, PaidOn
  <2> QED
    BY <1>2, <2>1, <2>2
<1> QED
  BY <1>1, <1>3, <1>4, <1>5, DayGoesOn

LEMMA NoteReadOn ==
  ASSUME StatsInv, NEW u \in Readers, ReadNote(u)
  PROVE  StatsInv'
<1>1. /\ readOn[u] # today.day /\ readOn' = [readOn EXCEPT ![u] = today.day]
      /\ readers' = [readers EXCEPT ![today.day] = @ \cup {u}]
      /\ early' = IF readOn[u] # 0 THEN [early EXCEPT ![readOn[u]] = @ \cup {u}] ELSE early
      /\ UNCHANGED <<today, sale, stats, rollup, ran, refunded>>
  BY DEF ReadNote
<1>2. today.day \in 1 .. MaxDay /\ today.day \in Dates \ {0} /\ readOn[u] \in Dates
  BY StatsNumbers DEF StatsInv, StatsTyped
<1>3. /\ readOn' \in [Readers -> Dates] /\ readOn'[u] = today.day
      /\ \A v \in Readers \ {u} : readOn'[v] = readOn[v]
      /\ \A v \in Readers : readOn'[v] <= today.day
  BY <1>1, <1>2, StatsNumbers DEF StatsInv, StatsTyped
<1>4. /\ readers' \in [Dates -> SUBSET Readers]
      /\ readers'[today.day] = readers[today.day] \cup {u}
      /\ \A d \in Dates : d # today.day => readers'[d] = readers[d]
  BY <1>1, <1>2 DEF StatsInv, StatsTyped
<1>5. /\ early' \in [Dates -> SUBSET Readers]
      /\ \A d \in Dates : early'[d] = IF readOn[u] # 0 /\ d = readOn[u] THEN early[d] \cup {u}
                                      ELSE early[d]
  BY <1>1, <1>2, Zenon DEF StatsInv, StatsTyped
<1>6. StatsTyped'
  BY <1>1, <1>3, <1>4, <1>5 DEF StatsInv, StatsTyped, Missing
<1>7. LastReadKept'
  <2>1. ASSUME NEW v \in Readers, NEW d \in Dates \ {0}
        PROVE  /\ readOn'[v] = d => v \in readers'[d]
               /\ v \in readers'[d] \ early'[d] => readOn'[v] = d
    <3>1. /\ readOn[v] = d => v \in readers[d]
          /\ v \in readers[d] \ early[d] => readOn[v] = d
      BY DEF StatsInv, LastReadKept
    <3>2. CASE v = u
      BY <1>3, <1>4, <1>5, <3>1, <3>2
    <3>3. CASE v # u
      BY <1>3, <1>4, <1>5, <3>1, <3>3
    <3> QED
      BY <3>2, <3>3
  <2> QED
    BY <2>1 DEF LastReadKept
<1>8. \A d \in Dates : d < today.day => readers'[d] = readers[d] /\ early[d] \subseteq early'[d]
  BY <1>2, <1>4, <1>5, StatsNumbers
<1>9. \A d : PaidOn(d)' = PaidOn(d)
  BY <1>1 DEF PaidOn
<1> QED
  BY <1>1, <1>6, <1>7, <1>8, <1>9, DayGoesOn

LEMMA TimePassed ==
  ASSUME StatsInv, PassTime
  PROVE  StatsInv'
<1>1. /\ \A p \in Processes : rollup[p].pc = "rest"
      /\ UNCHANGED <<sale, readOn, stats, rollup, ran, readers, refunded, early>>
      /\ \/ today.day < MaxDay /\ today' = [day |-> today.day + 1, three |-> FALSE]
         \/ today' = [today EXCEPT !.three = TRUE]
  BY DEF PassTime
<1>2. today \in [day : 1 .. MaxDay, three : BOOLEAN]
  BY DEF StatsInv, StatsTyped
<1>3. today' \in [day : 1 .. MaxDay, three : BOOLEAN] /\ today'.day >= today.day
  <2>1. today.day \in 1 .. MaxDay /\ today.three \in BOOLEAN
    BY <1>2
  <2>2. CASE today.day < MaxDay /\ today' = [day |-> today.day + 1, three |-> FALSE]
    <3>1. today.day + 1 \in 1 .. MaxDay /\ today.day + 1 >= today.day
      BY <2>1, <2>2, StatsNumbers
    <3> QED
      BY <2>2, <3>1
  <2>3. CASE today' = [today EXCEPT !.three = TRUE]
    <3>1. today' \in [day : 1 .. MaxDay, three : BOOLEAN] /\ today'.day = today.day
      BY <1>2, <2>3, Zenon
    <3> QED
      BY <2>1, <3>1, StatsNumbers
  <2> QED
    BY <1>1, <2>2, <2>3
<1>4. StatsTyped'
  <2>1. /\ \A o \in Sales : sale[o].day <= today'.day
        /\ \A u \in Readers : readOn[u] <= today'.day
        /\ \A p \in Processes : ran[p] <= today'.day
    BY <1>2, <1>3, StatsNumbers DEF StatsInv, StatsTyped, SaleRows
  <2> QED
    BY <1>1, <1>3, <2>1 DEF StatsInv, StatsTyped, Missing
<1>5. LastReadKept'
  BY <1>1 DEF StatsInv, LastReadKept
<1>6. StatsSound'
  BY <1>1 DEF StatsInv, StatsSound, Known, Tells, Missing, PaidOn
<1>7. \A p \in Processes : RollupSound(p)'
  <2>1. AtRest' = AtRest
    OBVIOUS
  <2> QED
    BY <1>1, <2>1 DEF StatsInv, RollupSound
<1> QED
  BY <1>4, <1>5, <1>6, <1>7 DEF StatsInv

\* A process goes on with its rollup: the others, and what is written, are as before.
LEMMA RollupMoves ==
  ASSUME StatsInv, NEW p \in Processes, rollup' \in [Processes -> Rollups], RollupSound(p)',
         \A o \in Processes \ {p} : rollup'[o] = rollup[o] /\ ran'[o] = ran[o],
         ran' \in [Processes -> 1 .. MaxDay], ran[p] <= ran'[p], ran'[p] <= today.day,
         stats' \in [Dates -> [Metrics -> 0 .. Missing]], StatsSound',
         UNCHANGED <<today, sale, readOn, readers, refunded, early>>
  PROVE  StatsInv'
<1>1. StatsTyped'
  BY DEF StatsInv, StatsTyped, Missing
<1>2. LastReadKept'
  BY DEF StatsInv, LastReadKept
<1>3. ASSUME NEW o \in Processes, o # p PROVE RollupSound(o)'
  <2>1. rollup'[o] = rollup[o] /\ ran'[o] = ran[o] /\ AtRest' = AtRest
    BY <1>3
  <2>2. RollupSound(o)
    BY DEF StatsInv
  <2>3. \A d, m, n : Tells(d, m, n) => Tells(d, m, n)'
    BY DEF Tells, Missing, PaidOn
  <2> QED
    BY <2>1, <2>2, <2>3 DEF RollupSound
<1> QED
  BY <1>1, <1>2, <1>3 DEF StatsInv

\* A rollup's fields, one by one.
LEMMA RollupFields ==
  ASSUME StatsInv, NEW p \in Processes
  PROVE  /\ rollup[p] \in Rollups
         /\ rollup[p].pc \in {"rest", "reading", "writing"} /\ rollup[p].day \in Dates
         /\ rollup[p].unread \in SUBSET Metrics /\ rollup[p].got \in [Metrics -> 0 .. Missing]
         /\ rollup[p].unwritten \in SUBSET Metrics
         /\ RollupSound(p) /\ ran[p] \in 1 .. MaxDay /\ ran[p] <= today.day
         /\ today.day \in 1 .. MaxDay
  BY DEF StatsInv, StatsTyped, Rollups

\* The rollup of p becomes r, and nothing else happens.
LEMMA RollupGoesOn ==
  ASSUME StatsInv, NEW p \in Processes, NEW r \in Rollups, rollup' = [rollup EXCEPT ![p] = r],
         ran' = ran \/ (ran' = [ran EXCEPT ![p] = today.day]),
         r.pc = "rest" => r = AtRest,
         r.pc # "rest" =>
           /\ r.day = today.day - 1 /\ r.day # 0 /\ ran'[p] = today.day
           /\ \A m \in Metrics \ r.unread : Tells(r.day, m, r.got[m]),
         r.pc = "reading" => r.unwritten = {}, r.pc = "writing" => r.unread = {},
         UNCHANGED <<today, sale, readOn, stats, readers, refunded, early>>
  PROVE  StatsInv'
<1>1. /\ rollup' \in [Processes -> Rollups] /\ rollup'[p] = r
      /\ \A o \in Processes \ {p} : rollup'[o] = rollup[o]
  BY DEF StatsInv, StatsTyped
<1>2. /\ ran' \in [Processes -> 1 .. MaxDay] /\ ran[p] <= ran'[p] /\ ran'[p] <= today.day
      /\ \A o \in Processes \ {p} : ran'[o] = ran[o]
  <2>1. /\ ran \in [Processes -> 1 .. MaxDay] /\ ran[p] <= today.day /\ today.day \in 1 .. MaxDay
        /\ ran[p] \in Nat /\ today.day \in Nat
    BY StatsNumbers DEF StatsInv, StatsTyped
  <2>2. CASE ran' = ran
    BY <2>1, <2>2
  <2>3. CASE ran' = [ran EXCEPT ![p] = today.day]
    BY <2>1, <2>3
  <2> QED
    BY <2>2, <2>3
<1>3. \A d, m, n : Tells(d, m, n) => Tells(d, m, n)'
  BY DEF Tells, Missing, PaidOn
<1>4. RollupSound(p)'
  <2>1. AtRest' = AtRest
    OBVIOUS
  <2> QED
    BY <1>1, <1>3, <2>1 DEF RollupSound
<1>5. StatsSound'
  <2>1. ASSUME NEW d \in Dates, NEW m \in Metrics, Known(d, m)'
        PROVE  (\E o \in Processes : ran'[o] > d) /\ Tells(d, m, stats[d][m])'
    <3>1. Known(d, m)
      BY <2>1 DEF Known, Missing
    <3>2. PICK o \in Processes : ran[o] > d
      BY <3>1 DEF StatsInv, StatsSound
    <3>3. ran'[o] > d
      <4>1. ran[o] \in 1 .. MaxDay /\ ran'[o] \in 1 .. MaxDay
        BY <1>2, Zenon DEF StatsInv, StatsTyped
      <4>2. ran[o] \in Nat /\ ran'[o] \in Nat /\ d \in Nat
        BY <4>1, StatsNumbers
      <4>3. ran[o] <= ran'[o]
        BY <1>2, <4>2
      <4> QED
        BY <3>2, <4>2, <4>3
    <3>4. Tells(d, m, stats[d][m])
      BY <3>1 DEF StatsInv, StatsSound
    <3>5. stats'[d][m] = stats[d][m]
      OBVIOUS
    <3> QED
      BY <1>3, <3>3, <3>4, <3>5, Zenon DEF Tells
  <2> QED
    BY <2>1 DEF StatsSound
<1>6. stats' \in [Dates -> [Metrics -> 0 .. Missing]]
  BY DEF StatsInv, StatsTyped
<1> QED
  BY <1>1, <1>2, <1>4, <1>5, <1>6, RollupMoves

LEMMA RollupBegun ==
  ASSUME StatsInv, NEW p \in Processes, BeginRollup(p)
  PROVE  StatsInv'
<1> DEFINE r == [AtRest EXCEPT !.pc = "reading", !.day = today.day - 1, !.unread = Metrics]
<1>1. /\ ran[p] < today.day /\ ran' = [ran EXCEPT ![p] = today.day]
      /\ rollup' = [rollup EXCEPT ![p] = r]
      /\ UNCHANGED <<today, sale, readOn, stats, readers, refunded, early>>
  BY DEF BeginRollup
<1>2. /\ today.day - 1 \in Dates /\ today.day - 1 # 0
  BY <1>1, RollupFields, StatsNumbers
<1>3. ran'[p] = today.day
  BY <1>1 DEF StatsInv, StatsTyped
<1>4. /\ r \in Rollups /\ r.pc = "reading" /\ r.day = today.day - 1 /\ r.unread = Metrics
      /\ r.unwritten = {}
  <2>1. /\ AtRest \in Rollups /\ AtRest.unwritten = {} /\ today.day - 1 \in Dates
        /\ "reading" \in {"rest", "reading", "writing"} /\ Metrics \in SUBSET Metrics
    BY <1>2, AtRestIs
  <2> QED
    BY <2>1, Zenon DEF Rollups
<1> HIDE DEF r
<1> QED
  BY <1>1, <1>2, <1>3, <1>4, RollupGoesOn, Zenon

LEMMA MetricRead ==
  ASSUME StatsInv, NEW p \in Processes, NEW m \in Metrics, ReadMetric(p, m)
  PROVE  StatsInv'
<1> DEFINE c == rollup[p]
           n == CountOf(c.day, m)
           r == [c EXCEPT !.unread = @ \ {m}, !.got[m] = n]
<1>1. /\ m \in c.unread
      /\ rollup' = [rollup EXCEPT ![p].unread = @ \ {m}, ![p].got[m] = n]
      /\ UNCHANGED <<today, sale, readOn, stats, ran, readers, refunded, early>>
  BY DEF ReadMetric
<1>2. rollup' = [rollup EXCEPT ![p] = r]
  BY <1>1, RollupFields, ZenonT(40) DEF StatsInv, StatsTyped
<1>3. /\ c.pc = "reading" /\ c.day = today.day - 1 /\ c.day \in Dates \ {0} /\ ran[p] = today.day
      /\ c.unwritten = {}
      /\ \A k \in Metrics \ c.unread : Tells(c.day, k, c.got[k])
  BY <1>1, RollupFields, AtRestIs DEF RollupSound
<1>4. Tells(c.day, m, n)
  <2>1. CASE m = "active"
    <3> DEFINE d == c.day
               Last == {u \in Readers : readOn[u] = d}
    <3>1. Last \in SUBSET readers[d] /\ readers[d] \ early[d] \in SUBSET Last
      BY <1>3, Zenon DEF StatsInv, StatsTyped, LastReadKept
    <3>2. readers[d] \in SUBSET Readers /\ Last \in SUBSET Readers
      BY <1>3 DEF StatsInv, StatsTyped
    <3> HIDE DEF Last
    <3>3. /\ Cardinality(Last) <= Cardinality(readers[d])
          /\ Cardinality(readers[d] \ early[d]) <= Cardinality(Last)
          /\ Cardinality(Last) \in Nat /\ Cardinality(Last) <= Cardinality(Readers)
      BY <3>1, <3>2, StatsNumbers
    <3>4. Cardinality(Last) \in 0 .. Missing /\ Cardinality(Last) # Missing
      BY <3>3, StatsNumbers
    <3>5. n = Cardinality(Last)
      BY <2>1 DEF CountOf, Last
    <3> QED
      BY <2>1, <3>3, <3>4, <3>5 DEF Tells
  <2>2. CASE m # "active"
    <3>1. PaidOn(c.day) \in SUBSET Sales /\ n = Cardinality(PaidOn(c.day))
      BY <2>2 DEF PaidOn, CountOf
    <3>2. n \in Nat /\ n <= Cardinality(Sales)
      BY <3>1, StatsNumbers
    <3>3. n \in 0 .. Missing /\ n # Missing
      BY <3>2, StatsNumbers
    <3> QED
      BY <2>2, <3>1, <3>3 DEF Tells
  <2> QED
    BY <2>1, <2>2
<1>5. n \in 0 .. Missing
  BY <1>4 DEF Tells
<1> HIDE DEF n
<1>6. /\ r \in Rollups /\ r.pc = c.pc /\ r.day = c.day /\ r.unread = c.unread \ {m}
      /\ r.unwritten = c.unwritten /\ r.got[m] = n
      /\ \A k \in Metrics \ {m} : r.got[k] = c.got[k]
  BY <1>5, RollupFields, Zenon DEF Rollups
<1> HIDE DEF r
<1>7. \A k \in Metrics \ r.unread : Tells(r.day, k, r.got[k])
  BY <1>3, <1>4, <1>6
<1>8. /\ r.pc = "reading" /\ r.day = today.day - 1 /\ r.day # 0 /\ r.unwritten = {}
      /\ ran' = ran /\ ran'[p] = today.day
  BY <1>1, <1>3, <1>6
<1> HIDE DEF c
<1> QED
  BY <1>1, <1>2, <1>6, <1>7, <1>8, RollupGoesOn, Zenon

LEMMA WritesBegun ==
  ASSUME StatsInv, NEW p \in Processes, BeginWrites(p)
  PROVE  StatsInv'
<1> DEFINE c == rollup[p]
           r == [c EXCEPT !.pc = "writing", !.unwritten = Metrics]
<1>1. /\ c.pc = "reading" /\ c.unread = {}
      /\ rollup' = [rollup EXCEPT ![p].pc = "writing", ![p].unwritten = Metrics]
      /\ UNCHANGED <<today, sale, readOn, stats, ran, readers, refunded, early>>
  BY DEF BeginWrites
<1>2. rollup' = [rollup EXCEPT ![p] = r]
  BY <1>1, RollupFields, Zenon DEF StatsInv, StatsTyped
<1>3. /\ r \in Rollups /\ r.pc = "writing" /\ r.day = c.day /\ r.unread = {} /\ r.got = c.got
  BY <1>1, RollupFields, Zenon DEF Rollups
<1>4. /\ c.day = today.day - 1 /\ c.day # 0 /\ ran[p] = today.day
      /\ \A k \in Metrics \ c.unread : Tells(c.day, k, c.got[k])
  BY <1>1, RollupFields DEF RollupSound
<1> HIDE DEF r
<1> QED
  BY <1>1, <1>2, <1>3, <1>4, RollupGoesOn, Zenon

LEMMA RollupLost ==
  ASSUME StatsInv, NEW p \in Processes, LoseRollup(p)
  PROVE  StatsInv'
  BY AtRestIs, RollupGoesOn, Zenon DEF LoseRollup

LEMMA MetricWritten ==
  ASSUME StatsInv, NEW p \in Processes, NEW m \in Metrics, WriteMetric(p, m)
  PROVE  StatsInv'
<1> DEFINE c == rollup[p]
           r == [c EXCEPT !.unwritten = @ \ {m}]
<1>1. /\ m \in c.unwritten /\ stats' = [stats EXCEPT ![c.day][m] = c.got[m]]
      /\ \/ rollup' = [rollup EXCEPT ![p] = AtRest]
         \/ rollup' = [rollup EXCEPT ![p].unwritten = @ \ {m}]
      /\ UNCHANGED <<today, sale, readOn, ran, readers, refunded, early>>
  BY DEF WriteMetric
<1>2. /\ c.pc = "writing" /\ c.unread = {} /\ c.day = today.day - 1 /\ c.day # 0
      /\ c.day \in Dates /\ ran[p] = today.day /\ ran[p] > c.day
      /\ \A k \in Metrics : Tells(c.day, k, c.got[k])
  BY <1>1, RollupFields, AtRestIs, StatsNumbers DEF RollupSound
<1>3. /\ r \in Rollups /\ r.pc = "writing" /\ r.day = c.day /\ r.unread = {} /\ r.got = c.got
  BY <1>2, RollupFields DEF Rollups
<1>4. rollup' = [rollup EXCEPT ![p] = AtRest] \/ rollup' = [rollup EXCEPT ![p] = r]
  BY <1>1 DEF StatsInv, StatsTyped
<1> HIDE DEF r
<1>5. /\ rollup' \in [Processes -> Rollups] /\ rollup'[p] \in {AtRest, r}
      /\ \A o \in Processes \ {p} : rollup'[o] = rollup[o]
  BY <1>3, <1>4, AtRestIs DEF StatsInv, StatsTyped
<1>6. \A d, k, n : Tells(d, k, n) => Tells(d, k, n)'
  BY <1>1 DEF Tells, Missing, PaidOn
<1>7. RollupSound(p)'
  <2>1. AtRest' = AtRest
    OBVIOUS
  <2>2. CASE rollup'[p] = AtRest
    BY <2>1, <2>2, AtRestIs DEF RollupSound
  <2>3. CASE rollup'[p] = r
    BY <1>1, <1>2, <1>3, <1>6, <2>3, Zenon DEF RollupSound
  <2> QED
    BY <1>5, <2>2, <2>3
<1>8. /\ stats' \in [Dates -> [Metrics -> 0 .. Missing]]
      /\ stats'[c.day][m] = c.got[m]
      /\ \A d \in Dates, k \in Metrics : d # c.day \/ k # m => stats'[d][k] = stats[d][k]
  BY <1>1, <1>2, RollupFields DEF StatsInv, StatsTyped
<1>9. StatsSound'
  <2>1. ASSUME NEW d \in Dates, NEW k \in Metrics, Known(d, k)'
        PROVE  (\E o \in Processes : ran[o] > d) /\ Tells(d, k, stats'[d][k])
    <3>1. CASE d = c.day /\ k = m
      BY <1>2, <1>8, <3>1
    <3>2. CASE d # c.day \/ k # m
      <4>1. stats'[d][k] = stats[d][k] /\ Known(d, k)
        BY <1>8, <2>1, <3>2 DEF Known, Missing
      <4> QED
        BY <4>1 DEF StatsInv, StatsSound
    <3> QED
      BY <3>1, <3>2
  <2> QED
    BY <1>1, <2>1, Zenon DEF StatsSound, Tells, Missing, PaidOn
<1>10. /\ ran' = ran /\ ran' \in [Processes -> 1 .. MaxDay] /\ ran[p] <= ran'[p]
       /\ ran'[p] <= today.day
  BY <1>1, RollupFields, StatsNumbers DEF StatsInv, StatsTyped
<1> QED
  BY <1>1, <1>5, <1>7, <1>8, <1>9, <1>10, RollupMoves

LEMMA StatsStep == StatsInv /\ [DailyStatsNext]_dvars => StatsInv'
<1> SUFFICES ASSUME StatsInv, [DailyStatsNext]_dvars PROVE StatsInv'
  OBVIOUS
<1>1. CASE UNCHANGED dvars
  <2>1. UNCHANGED <<today, sale, readOn, stats, rollup, ran, readers, refunded, early>>
    BY <1>1 DEF dvars
  <2>2. StatsTyped' /\ LastReadKept'
    BY <2>1 DEF StatsInv, StatsTyped, LastReadKept, Missing
  <2>3. \A d : PaidOn(d)' = PaidOn(d)
    BY <2>1 DEF PaidOn
  <2> QED
    BY <2>1, <2>2, <2>3, DayGoesOn
<1>2. CASE DailyStatsNext
  BY <1>2, OrderPaid, OrderRefunded, NoteReadOn, TimePassed, RollupBegun, WritesBegun, RollupLost,
     MetricRead, MetricWritten DEF DailyStatsNext
<1> QED
  BY <1>1, <1>2

(***************************************************************************)
(* Sums over finite sets                                                   *)
(***************************************************************************)

\* The element a fold takes first, and what a function that sums f over the subsets of S is.
Foremost(s) == CHOOSE x \in s : TRUE
Sums(f, S, it) ==
  it = [s \in SUBSET S |-> IF s = {} THEN 0
                           ELSE LET x == CHOOSE x \in s : TRUE IN f[x] + it[s \ {x}]]

LEMMA SumIsIter ==
  ASSUME NEW f, NEW S
  PROVE  SumFunctionOnSet(f, S) = (CHOOSE it : Sums(f, S, it))[S]
  BY DEF SumFunctionOnSet, FoldFunctionOnSet, MapThenFoldSet, Sums

LEMMA SumsEqual ==
  ASSUME NEW f, NEW S, NEW U, IsFiniteSet(S), NEW g, NEW h, Sums(f, S, g), Sums(f, U, h)
  PROVE  \A s \in SUBSET S : s \subseteq U => g[s] = h[s]
<1> DEFINE G == {s \in SUBSET S : s \subseteq U => g[s] = h[s]}
<1>1. ASSUME NEW s \in SUBSET S, \A x \in s : s \ {x} \in G PROVE s \in G
  <2>1. CASE s \subseteq U /\ s # {}
    <3>1. g[s] = f[Foremost(s)] + g[s \ {Foremost(s)}]
      BY <2>1 DEF Sums, Foremost
    <3>2. h[s] = f[Foremost(s)] + h[s \ {Foremost(s)}]
      BY <2>1 DEF Sums, Foremost
    <3>3. Foremost(s) \in s
      BY <2>1 DEF Foremost
    <3> QED
      BY <1>1, <2>1, <3>1, <3>2, <3>3
  <2>2. CASE s = {}
    BY <2>2 DEF Sums
  <2> QED
    BY <2>1, <2>2
<1> HIDE DEF G
<1>2. \A s \in SUBSET S : s \in G
  BY <1>1, SetInduction, Zenon
<1> QED
  BY <1>2 DEF G

EqualOn(a, b, g, h) == \A z \in SUBSET a : z \subseteq b => g[z] = h[z]

LEMMA SumsEqualOn ==
  \A f, a, b, g, h : IsFiniteSet(a) /\ Sums(f, a, g) /\ Sums(f, b, h) => EqualOn(a, b, g, h)
<1> SUFFICES ASSUME NEW f, NEW a, NEW b, NEW g, NEW h,
                    IsFiniteSet(a) /\ Sums(f, a, g) /\ Sums(f, b, h)
             PROVE  EqualOn(a, b, g, h)
  OBVIOUS
<1>1. \A z \in SUBSET a : z \subseteq b => g[z] = h[z]
  BY SumsEqual, SMT
<1> QED
  BY <1>1 DEF EqualOn

\* The sums over the subsets that lack one element each give the sums over all.
LEMMA SumsExist ==
  ASSUME NEW f, NEW S, IsFiniteSet(S)
  PROVE  \E it : Sums(f, S, it)
<1> DEFINE G == {s \in SUBSET S : \E it : Sums(f, s, it)}
<1>1. ASSUME NEW s \in SUBSET S, \A x \in s : s \ {x} \in G PROVE s \in G
  <2>0. IsFiniteSet(s)
    BY FS_Subset
  <2>1. CASE s = {}
    <3> DEFINE it == [q \in SUBSET s |-> 0]
    <3>1. Sums(f, s, it)
      BY <2>1 DEF Sums
    <3> QED
      BY <3>1
  <2>2. CASE s # {}
    <3> DEFINE of == [x \in s |-> CHOOSE it : Sums(f, s \ {x}, it)]
    <3>1. ASSUME NEW x \in s PROVE Sums(f, s \ {x}, of[x])
      BY <1>1, <3>1
    <3> HIDE DEF of
    <3>2. ASSUME NEW x \in s
          PROVE  /\ of[x][{}] = 0
                 /\ \A q \in SUBSET (s \ {x}) :
                      q # {} => of[x][q] = f[Foremost(q)] + of[x][q \ {Foremost(q)}]
      <4> PICK h : h = of[x]
        OBVIOUS
      <4>1. Sums(f, s \ {x}, h)
        BY <3>1
      <4>2. h[{}] = 0
        BY <4>1 DEF Sums
      <4>3. \A q \in SUBSET (s \ {x}) :
              q # {} => h[q] = f[Foremost(q)] + h[q \ {Foremost(q)}]
        BY <4>1 DEF Sums, Foremost
      <4> QED
        BY <4>2, <4>3
    <3>3. ASSUME NEW q \in SUBSET s, NEW x \in s, NEW y \in s,
                 q \subseteq s \ {x}, q \subseteq s \ {y}
          PROVE  of[y][q] = of[x][q]
      <4>1. IsFiniteSet(s \ {y})
        BY <2>0, FS_Subset
      <4>2. Sums(f, s \ {y}, of[y]) /\ Sums(f, s \ {x}, of[x])
        BY <3>1
      <4>3. EqualOn(s \ {y}, s \ {x}, of[y], of[x])
        BY <4>1, <4>2, SumsEqualOn
      <4> QED
        BY <3>3, <4>3 DEF EqualOn
    <3> DEFINE piece(q) == of[CHOOSE x \in s : q \subseteq s \ {x}][q]
               it == [q \in SUBSET s |->
                       IF q = {} THEN 0
                       ELSE IF q = s THEN f[Foremost(s)] + piece(s \ {Foremost(s)})
                       ELSE piece(q)]
    <3>4. ASSUME NEW q \in SUBSET s, NEW x \in s, q \subseteq s \ {x}
          PROVE  piece(q) = of[x][q]
      <4>1. PICK y \in s : q \subseteq s \ {y} /\ piece(q) = of[y][q]
        BY <3>4, Zenon
      <4> QED
        BY <3>3, <3>4, <4>1
    <3> HIDE DEF piece
    <3>5. ASSUME NEW q \in SUBSET s, q # {}
          PROVE  it[q] = f[Foremost(q)] + it[q \ {Foremost(q)}]
      <4>1. Foremost(q) \in q
        BY <3>5 DEF Foremost
      <4>2. CASE q = s
        <5>1. it[q \ {Foremost(q)}] = IF q \ {Foremost(q)} = {} THEN 0
                                      ELSE piece(s \ {Foremost(s)})
          BY <3>5, <4>1, <4>2
        <5>2. s \ {Foremost(s)} = {} => piece(s \ {Foremost(s)}) = 0
          BY <3>2, <3>4, <4>1, <4>2, Zenon
        <5> QED
          BY <3>5, <4>2, <5>1, <5>2
      <4>3. CASE q # s
        <5>1. PICK x \in s : q \subseteq s \ {x}
          BY <4>3
        <5>2. it[q] = of[x][q]
          BY <3>4, <3>5, <4>3, <5>1
        <5>3. of[x][q] = f[Foremost(q)] + of[x][q \ {Foremost(q)}]
          BY <3>2, <3>5, <5>1, Zenon
        <5>4. /\ q \ {Foremost(q)} # s /\ q \ {Foremost(q)} \in SUBSET s
              /\ q \ {Foremost(q)} \subseteq s \ {x}
          BY <4>1, <5>1
        <5>5. it[q \ {Foremost(q)}] = IF q \ {Foremost(q)} = {} THEN 0
                                      ELSE of[x][q \ {Foremost(q)}]
          BY <3>4, <5>1, <5>4
        <5>6. of[x][{}] = 0
          BY <3>2
        <5> QED
          BY <5>2, <5>3, <5>5, <5>6, Zenon
      <4> QED
        BY <4>2, <4>3
    <3>6. Sums(f, s, it)
      <4>1. it[{}] = 0
        OBVIOUS
      <4>2. it = [q \in SUBSET s |-> it[q]]
        OBVIOUS
      <4> HIDE DEF it
      <4> QED
        BY <3>5, <4>1, <4>2, Zenon DEF Sums, Foremost
    <3> QED
      BY <3>6
  <2> QED
    BY <2>1, <2>2
<1> HIDE DEF G
<1>2. \A s \in SUBSET S : s \in G
  BY <1>1, SetInduction, Zenon
<1> QED
  BY <1>2 DEF G

\* A sum is the foremost summand and the sum of the others.
LEMMA SumUnfolds ==
  ASSUME NEW f, NEW S, IsFiniteSet(S)
  PROVE  /\ SumFunctionOnSet(f, {}) = 0
         /\ S # {} => /\ Foremost(S) \in S
                      /\ SumFunctionOnSet(f, S) =
                           f[Foremost(S)] + SumFunctionOnSet(f, S \ {Foremost(S)})
<1>1. PICK it : Sums(f, S, it)
  BY SumsExist
<1>2. ASSUME NEW s \in SUBSET S PROVE SumFunctionOnSet(f, s) = it[s]
  <2> DEFINE g == CHOOSE g : Sums(f, s, g)
  <2>1. IsFiniteSet(s)
    BY FS_Subset
  <2>2. Sums(f, s, g)
    BY <2>1, SumsExist
  <2>3. SumFunctionOnSet(f, s) = g[s]
    BY SumIsIter
  <2> HIDE DEF g
  <2> QED
    BY <1>1, <2>1, <2>2, <2>3, SumsEqual
<1>3. it[{}] = 0 /\ (S # {} => it[S] = f[Foremost(S)] + it[S \ {Foremost(S)}])
  BY <1>1 DEF Sums, Foremost
<1>4. S # {} => Foremost(S) \in S
  BY DEF Foremost
<1> QED
  BY <1>2, <1>3, <1>4

LEMMA SumIsInt ==
  ASSUME NEW F, IsFiniteSet(F), NEW f \in [F -> Int]
  PROVE  \A s \in SUBSET F : SumFunctionOnSet(f, s) \in Int
<1> DEFINE G == {s \in SUBSET F : SumFunctionOnSet(f, s) \in Int}
<1>1. ASSUME NEW s \in SUBSET F, \A x \in s : s \ {x} \in G PROVE s \in G
  <2>1. IsFiniteSet(s)
    BY FS_Subset
  <2>2. /\ s = {} => SumFunctionOnSet(f, s) = 0
        /\ s # {} => /\ Foremost(s) \in s
                     /\ SumFunctionOnSet(f, s) =
                          f[Foremost(s)] + SumFunctionOnSet(f, s \ {Foremost(s)})
    BY <2>1, SumUnfolds, Zenon
  <2> QED
    BY <1>1, <2>2
<1> HIDE DEF G
<1>2. \A s \in SUBSET F : s \in G
  BY <1>1, SetInduction, Zenon
<1> QED
  BY <1>2 DEF G

\* Whichever summand is taken out, a sum is that and the sum of the others.
LEMMA SumTakes ==
  ASSUME NEW F, IsFiniteSet(F), NEW f \in [F -> Int]
  PROVE  \A s \in SUBSET F : \A x \in s :
           SumFunctionOnSet(f, s) = f[x] + SumFunctionOnSet(f, s \ {x})
<1> DEFINE G == {s \in SUBSET F : \A x \in s :
                   SumFunctionOnSet(f, s) = f[x] + SumFunctionOnSet(f, s \ {x})}
<1>1. ASSUME NEW s \in SUBSET F, \A x \in s : s \ {x} \in G PROVE s \in G
  <2>1. ASSUME NEW x \in s
        PROVE  SumFunctionOnSet(f, s) = f[x] + SumFunctionOnSet(f, s \ {x})
    <3> DEFINE y == Foremost(s)
    <3>1. IsFiniteSet(s)
      BY FS_Subset
    <3>2. y \in s /\ SumFunctionOnSet(f, s) = f[y] + SumFunctionOnSet(f, s \ {y})
      BY <3>1, SumUnfolds
    <3> HIDE DEF y
    <3>3. CASE x # y
      <4>1. SumFunctionOnSet(f, s \ {y}) = f[x] + SumFunctionOnSet(f, (s \ {y}) \ {x})
        BY <1>1, <3>2, <3>3
      <4>2. SumFunctionOnSet(f, s \ {x}) = f[y] + SumFunctionOnSet(f, (s \ {x}) \ {y})
        BY <1>1, <3>2, <3>3
      <4>3. (s \ {y}) \ {x} = (s \ {x}) \ {y} /\ (s \ {x}) \ {y} \in SUBSET F
        OBVIOUS
      <4>4. SumFunctionOnSet(f, (s \ {x}) \ {y}) \in Int
        BY <4>3, SumIsInt
      <4>5. f[x] \in Int /\ f[y] \in Int
        BY <3>2
      <4> DEFINE rest == SumFunctionOnSet(f, (s \ {x}) \ {y})
      <4>6. /\ SumFunctionOnSet(f, s) = f[y] + (f[x] + rest)
            /\ f[x] + SumFunctionOnSet(f, s \ {x}) = f[x] + (f[y] + rest)
        BY <3>2, <4>1, <4>2, <4>3, Zenon
      <4>7. f[y] + (f[x] + rest) = f[x] + (f[y] + rest)
        <5> HIDE DEF rest
        <5>1. rest \in Int
          BY <4>4 DEF rest
        <5> PICK u \in Int, v \in Int : u = f[x] /\ v = f[y]
          BY <4>5
        <5> QED
          BY <5>1, SMT
      <4> QED
        BY <4>6, <4>7
    <3> QED
      BY <3>2, <3>3
  <2> QED
    BY <2>1
<1> HIDE DEF G
<1>2. \A s \in SUBSET F : s \in G
  BY <1>1, SetInduction, Zenon
<1> QED
  BY <1>2, Zenon DEF G

\* The sum over a set and over one element more.
LEMMA SumAdds ==
  ASSUME NEW F, IsFiniteSet(F), NEW f \in [F -> Int], NEW s \in SUBSET F, NEW x \in F \ s
  PROVE  SumFunctionOnSet(f, s \cup {x}) = f[x] + SumFunctionOnSet(f, s)
<1>1. s \cup {x} \in SUBSET F /\ x \in s \cup {x} /\ (s \cup {x}) \ {x} = s
  OBVIOUS
<1> QED
  BY <1>1, SumTakes

\* Functions that agree on a set have the same sum over it.
LEMMA SameSum ==
  ASSUME NEW F, IsFiniteSet(F), NEW f \in [F -> Int], NEW g \in [F -> Int]
  PROVE  \A s \in SUBSET F : (\A x \in s : f[x] = g[x]) =>
           SumFunctionOnSet(f, s) = SumFunctionOnSet(g, s)
<1> DEFINE G == {s \in SUBSET F : (\A x \in s : f[x] = g[x]) =>
                   SumFunctionOnSet(f, s) = SumFunctionOnSet(g, s)}
<1>1. ASSUME NEW s \in SUBSET F, \A x \in s : s \ {x} \in G PROVE s \in G
  <2>1. IsFiniteSet(s)
    BY FS_Subset
  <2>2. SumFunctionOnSet(f, {}) = 0 /\ SumFunctionOnSet(g, {}) = 0
    BY <2>1, SumUnfolds, Zenon
  <2>3. s # {} =>
          /\ Foremost(s) \in s
          /\ SumFunctionOnSet(f, s) = f[Foremost(s)] + SumFunctionOnSet(f, s \ {Foremost(s)})
          /\ SumFunctionOnSet(g, s) = g[Foremost(s)] + SumFunctionOnSet(g, s \ {Foremost(s)})
    BY <2>1, SumUnfolds
  <2> QED
    BY <1>1, <2>2, <2>3, Zenon
<1> HIDE DEF G
<1>2. \A s \in SUBSET F : s \in G
  BY <1>1, SetInduction, Zenon
<1> QED
  BY <1>2 DEF G

\* Of natural numbers, the sum over more is no less.
LEMMA SumGrows ==
  ASSUME NEW F, IsFiniteSet(F), NEW f \in [F -> Nat]
  PROVE  \A s \in SUBSET F :
           /\ SumFunctionOnSet(f, s) \in Nat
           /\ \A q \in SUBSET s : SumFunctionOnSet(f, q) <= SumFunctionOnSet(f, s)
<1> DEFINE G == {s \in SUBSET F :
                   /\ SumFunctionOnSet(f, s) \in Nat
                   /\ \A q \in SUBSET s : SumFunctionOnSet(f, q) <= SumFunctionOnSet(f, s)}
<1>0. f \in [F -> Int]
  OBVIOUS
<1>1. ASSUME NEW s \in SUBSET F, \A x \in s : s \ {x} \in G PROVE s \in G
  <2>1. IsFiniteSet(s)
    BY FS_Subset
  <2>2. \A x \in s : SumFunctionOnSet(f, s) = f[x] + SumFunctionOnSet(f, s \ {x})
    BY <1>0, SumTakes
  <2>3. SumFunctionOnSet(f, {}) = 0
    BY <2>1, SumUnfolds, Zenon
  <2>4. SumFunctionOnSet(f, s) \in Nat
    <3>1. CASE s = {}
      BY <2>3, <3>1
    <3>2. ASSUME NEW x \in s PROVE SumFunctionOnSet(f, s) \in Nat
      <4>1. f[x] \in Nat /\ SumFunctionOnSet(f, s \ {x}) \in Nat
        BY <1>1
      <4>2. SumFunctionOnSet(f, s) = f[x] + SumFunctionOnSet(f, s \ {x})
        BY <2>2
      <4> QED
        BY <4>1, <4>2
    <3> QED
      BY <3>1, <3>2
  <2>5. ASSUME NEW q \in SUBSET s, q # s
        PROVE  SumFunctionOnSet(f, q) <= SumFunctionOnSet(f, s)
    <3>1. PICK x \in s : x \notin q
      BY <2>5
    <3>2. q \in SUBSET (s \ {x}) /\ s \ {x} \in G
      BY <1>1, <3>1
    <3>3. /\ SumFunctionOnSet(f, s) = f[x] + SumFunctionOnSet(f, s \ {x})
          /\ SumFunctionOnSet(f, s \ {x}) \in Nat /\ f[x] \in Nat
          /\ SumFunctionOnSet(f, q) <= SumFunctionOnSet(f, s \ {x})
      BY <2>2, <3>2
    <3>4. SumFunctionOnSet(f, q) \in Int
      <4>1. q \in SUBSET F
        OBVIOUS
      <4> QED
        BY <1>0, <4>1, SumIsInt
    <3> QED
      BY <3>3, <3>4
  <2> QED
    BY <2>4, <2>5
<1> HIDE DEF G
<1>2. \A s \in SUBSET F : s \in G
  BY <1>1, SetInduction, Zenon
<1> QED
  BY <1>2 DEF G

(***************************************************************************)
(* Refunds                                                                 *)
(***************************************************************************)

Answers == {"none", "PENDING", "SUCCESS", "FAILED"}
Handled == [pc : {"away", "finding", "summing", "calling", "recording", "checking", "noting",
                "applying", "marking"},
          refund : Refunds \cup {NoRefund}, amount : 0 .. Paid, answer : Answers]
Succeeded == {r \in Refunds : outcome[r] = "SUCCESS"}

\* What a clerk holds was true when it was read, and what it will do of it still adds up.
RefundFits(c) ==
  /\ c.pc # "away" => c.refund \in Refunds
  /\ c.pc = "recording" => outcome[c.refund] # "none"
  /\ c.pc \in {"checking", "noting"} => c.refund \in initiated
  /\ c.pc = "noting" => c.answer \in {"PENDING", outcome[c.refund]}
  /\ c.pc = "marking" => Total(Succeeded) >= Paid
  /\ c.pc = "calling" /\ ~unsure => Total(Accepted) + c.amount <= Paid

RefundsShape == RefundsTypeOK /\ latest \in [Refunds -> Answers]
OneCalls == ~unsure => \A k, j \in Clerks :
              clerk[k].pc = "calling" /\ clerk[j].pc = "calling" => k = j
RefundsInv ==
  /\ RefundsShape /\ OneCalls /\ RefundsAddUp
  /\ \A k \in Clerks : RefundFits(clerk[k])

LEMMA Totals ==
  ASSUME RefundsTypeOK
  PROVE  \A S \in SUBSET Refunds :
           Total(S) \in Nat /\ \A Q \in SUBSET S : Total(Q) <= Total(S)
<1>1. asked \in [Refunds -> Nat]
  BY RefundsAssumption DEF RefundsTypeOK
<1>2. IsFiniteSet(Refunds)
  BY RefundsAssumption
<1> QED
  BY <1>1, <1>2, SumGrows DEF Total

\* A refund not asked for yet is in no total that counts.
LEMMA TotalsStay ==
  ASSUME NEW f \in [Refunds -> Nat], NEW g \in [Refunds -> Nat]
  PROVE  \A S \in SUBSET Refunds : (\A r \in S : f[r] = g[r]) =>
           SumFunctionOnSet(f, S) = SumFunctionOnSet(g, S)
<1>1. f \in [Refunds -> Int] /\ g \in [Refunds -> Int] /\ IsFiniteSet(Refunds)
  BY RefundsAssumption
<1> QED
  BY <1>1, SameSum

LEMMA RefundsBegin == RefundsInit => RefundsInv
<1> SUFFICES ASSUME RefundsInit PROVE RefundsInv
  OBVIOUS
<1>1. RefundsShape
  <2>1. 0 \in 0 .. Paid /\ MaxRefreshes \in 0 .. MaxRefreshes /\ MaxRequests \in 0 .. MaxRequests
        /\ MaxMisses \in 0 .. MaxMisses
    BY RefundsAssumption
  <2>2. clerk \in [Clerks -> Handled]
    BY <2>1 DEF RefundsInit, Away, Handled, Answers
  <2> QED
    BY <2>1, <2>2, Zenon DEF RefundsInit, RefundsShape, RefundsTypeOK, Answers, Handled
<1>2. OneCalls /\ \A k \in Clerks : RefundFits(clerk[k])
  BY DEF RefundsInit, OneCalls, RefundFits, Away
<1>3. RefundsAddUp
  <2>1. Accepted = {}
    BY DEF RefundsInit, Accepted
  <2>2. Total({}) = 0
    BY RefundsAssumption, SumUnfolds, Zenon DEF Total
  <2> QED
    BY <2>1, <2>2, RefundsAssumption DEF RefundsAddUp, RefundsInit
<1> QED
  BY <1>1, <1>2, <1>3 DEF RefundsInv

\* What a clerk holds stays so while no refund moves at the provider.
LEMMA FitsOn ==
  ASSUME UNCHANGED <<asked, outcome, unsure>>, initiated \subseteq initiated',
         NEW c, RefundFits(c)
  PROVE  RefundFits(c)'
<1>1. Accepted' = Accepted /\ Succeeded' = Succeeded
  BY DEF Accepted, Succeeded
<1> QED
  BY <1>1 DEF RefundFits, Total

\* A clerk that turns to another step while none asks the provider or hears of it.
LEMMA ClerkTurns ==
  ASSUME RefundsInv, UNCHANGED <<asked, outcome, unsure>>, initiated \subseteq initiated',
         NEW k \in Clerks, NEW row \in Handled, clerk' = [clerk EXCEPT ![k] = row],
         RefundFits(row), row.pc # "calling"
  PROVE  /\ clerk' \in [Clerks -> Handled]
         /\ OneCalls' /\ \A j \in Clerks : RefundFits(clerk[j])'
<1>1. clerk' \in [Clerks -> Handled]
  BY DEF RefundsInv, RefundsShape, RefundsTypeOK, Handled, Answers
<1>2. \A j \in Clerks : clerk'[j] = IF j = k THEN row ELSE clerk[j]
  BY DEF RefundsInv, RefundsShape, RefundsTypeOK
<1>3. OneCalls'
  BY <1>2 DEF RefundsInv, OneCalls
<1>4. ASSUME NEW j \in Clerks PROVE RefundFits(clerk[j])'
  <2> PICK c : c = clerk'[j]
    OBVIOUS
  <2>1. RefundFits(c)
    BY <1>2 DEF RefundsInv
  <2>2. RefundFits(c)'
    BY <2>1, FitsOn
  <2> QED
    BY <2>2 DEF RefundFits
<1> QED
  BY <1>1, <1>3, <1>4

\* The sums stay while no refund moves at the provider.
LEMMA AddUpOn ==
  ASSUME RefundsAddUp, UNCHANGED <<asked, outcome, unsure>>,
         paidOrder' = "REFUNDED" => paidOrder = "REFUNDED" \/ Total(Succeeded) >= Paid
  PROVE  RefundsAddUp'
<1>1. Accepted' = Accepted /\ Succeeded' = Succeeded
  BY DEF Accepted, Succeeded
<1> QED
  BY <1>1 DEF RefundsAddUp, Total, Succeeded

\* A clerk's row once its step, its amount and its answer are put in.
LEMMA RowPut ==
  ASSUME clerk \in [Clerks -> Handled], NEW k \in Clerks
  PROVE  /\ \A pc : Turn(k, pc) => clerk' = [clerk EXCEPT ![k] = [@ EXCEPT !.pc = pc]]
         /\ Part(k) => clerk' = [clerk EXCEPT ![k] = Away]
         /\ clerk[k] \in Handled
  BY DEF Turn, Part

\* A clerk that leaves holds nothing.
LEMMA AwayFits == Away \in Handled /\ RefundFits(Away) /\ Away.pc = "away"
  BY RefundsAssumption DEF Away, Handled, RefundFits, Answers

\* A clerk that leaves while no refund moves at the provider.
LEMMA ClerkParts ==
  ASSUME RefundsInv, UNCHANGED <<paidOrder, asked, outcome, unsure, initiated>>,
         NEW k \in Clerks, Part(k),
         refreshes' \in 0 .. MaxRefreshes, requests' \in 0 .. MaxRequests,
         misses' \in 0 .. MaxMisses,
         latest' \in [Refunds -> Answers],
         \A r \in Refunds : /\ latest'[r] \in {"none", "PENDING", outcome[r]}
                            /\ latest'[r] # "none" => r \in initiated
  PROVE  RefundsInv'
<1>1. clerk' = [clerk EXCEPT ![k] = Away]
  BY DEF Part
<1>2. /\ clerk' \in [Clerks -> Handled]
      /\ OneCalls' /\ \A j \in Clerks : RefundFits(clerk[j])'
  BY <1>1, AwayFits, ClerkTurns, Zenon
<1>3. RefundsShape'
  BY <1>2 DEF RefundsInv, RefundsShape, RefundsTypeOK, Handled, Answers
<1>4. RefundsAddUp'
  BY AddUpOn DEF RefundsInv
<1> QED
  BY <1>2, <1>3, <1>4 DEF RefundsInv

\* A clerk that turns to another step, and writes no more than that a refund is known.
LEMMA ClerkMoves ==
  ASSUME RefundsInv,
         UNCHANGED <<paidOrder, refreshes, asked, outcome, unsure, latest, misses>>,
         requests' \in 0 .. MaxRequests,
         initiated \subseteq initiated',
         initiated' \subseteq {r \in Refunds : outcome[r] # "none"},
         NEW k \in Clerks, NEW row \in Handled, clerk' = [clerk EXCEPT ![k] = row],
         RefundFits(row)', row.pc # "calling"
  PROVE  RefundsInv'
<1>1. Accepted' = Accepted /\ Succeeded' = Succeeded
  BY DEF Accepted, Succeeded
<1>2. clerk' \in [Clerks -> Handled]
  BY DEF RefundsInv, RefundsShape, RefundsTypeOK, Handled, Answers
<1>3. \A j \in Clerks : clerk'[j] = IF j = k THEN row ELSE clerk[j]
  BY DEF RefundsInv, RefundsShape, RefundsTypeOK
<1>4. OneCalls'
  BY <1>3 DEF RefundsInv, OneCalls
<1>5. ASSUME NEW j \in Clerks PROVE RefundFits(clerk[j])'
  <2> PICK c : c = clerk'[j]
    OBVIOUS
  <2>1. RefundFits(c)'
    <3>1. CASE j = k
      BY <1>3, <3>1
    <3>2. CASE j # k
      <4>1. RefundFits(c)
        BY <1>3, <3>2 DEF RefundsInv
      <4> QED
        BY <4>1, FitsOn
    <3> QED
      BY <3>1, <3>2
  <2> QED
    BY <2>1 DEF RefundFits
<1>6. RefundsShape'
  <2> USE DEF RefundsInv, RefundsShape, RefundsTypeOK
  <2>1. \A r \in Refunds : latest[r] # "none" => r \in initiated'
    OBVIOUS
  <2> QED
    BY <1>2, <2>1 DEF Handled, Answers
<1>7. RefundsAddUp'
  BY AddUpOn DEF RefundsInv
<1> QED
  BY <1>4, <1>5, <1>6, <1>7 DEF RefundsInv

\* What is counted has been paid back; what remains is no more than was paid.
LEMMA RefundedKnown ==
  ASSUME RefundsInv
  PROVE  /\ Counted \subseteq Succeeded /\ Refunded <= Total(Succeeded)
         /\ Refunded \in Nat /\ Remaining \in 0 .. Paid
         /\ Total(Succeeded) \in Nat /\ Total(Accepted) \in Nat
<1>1. /\ Counted \subseteq Succeeded /\ Succeeded \in SUBSET Refunds
      /\ Counted \in SUBSET Refunds /\ Accepted \in SUBSET Refunds
  BY DEF RefundsInv, RefundsShape, RefundsTypeOK, Counted, Succeeded, Accepted
<1>2. RefundsTypeOK
  BY DEF RefundsInv, RefundsShape
<1>3. /\ Refunded \in Nat /\ Refunded <= Total(Succeeded)
      /\ Total(Succeeded) \in Nat /\ Total(Accepted) \in Nat
  BY <1>1, <1>2, Totals DEF Refunded
<1>4. Remaining \in 0 .. Paid
  BY <1>3, RefundsAssumption DEF Remaining
<1> QED
  BY <1>1, <1>3, <1>4

\* A clerk asks for what remains: unless one is out of sight, what the events count is all
\* that the provider has accepted.
LEMMA SumsKeep ==
  ASSUME RefundsInv, NEW k \in Clerks, SumRefunds(k)
  PROVE  RefundsInv'
<1> DEFINE wanted == clerk[k].amount
           amount == IF wanted = 0 THEN Remaining ELSE wanted
<1>0. /\ clerk \in [Clerks -> Handled] /\ clerk[k] \in Handled /\ RefundsTypeOK
      /\ clerk[k].refund \in Refunds
  BY DEF RefundsInv, RefundsShape, RefundsTypeOK, Handled, Answers, SumRefunds, RefundFits
<1>1. CASE ~WithinLimit(amount)
  <2>1. /\ Part(k)
        /\ UNCHANGED <<paidOrder, refreshes, asked, outcome, initiated, latest, requests, misses,
                       unsure>>
    BY <1>1 DEF SumRefunds
  <2> QED
    BY <2>1, ClerkParts DEF RefundsInv, RefundsShape, RefundsTypeOK
<1>2. CASE WithinLimit(amount)
  <2>1. /\ clerk' = [clerk EXCEPT ![k].pc = "calling", ![k].amount = amount]
        /\ unsure' = (unsure \/ OutOfSight(k))
        /\ UNCHANGED <<paidOrder, refreshes, asked, outcome, initiated, latest, requests, misses>>
    BY <1>2 DEF SumRefunds
  <2>2. amount \in 0 .. Paid /\ amount <= Remaining /\ Remaining > 0
    BY <1>0, <1>2, RefundedKnown DEF WithinLimit, Handled
  <2> HIDE DEF amount
  <2> DEFINE row == [clerk[k] EXCEPT !.pc = "calling", !.amount = amount]
  <2>3. clerk' = [clerk EXCEPT ![k] = row]
    BY <1>0, <2>1, Zenon
  <2>4. row \in Handled /\ row.pc = "calling" /\ row.amount = amount /\ row.refund \in Refunds
    BY <1>0, <2>2, Zenon DEF Handled
  <2> HIDE DEF row
  <2>5. clerk' \in [Clerks -> Handled]
        /\ \A j \in Clerks : clerk'[j] = IF j = k THEN row ELSE clerk[j]
    BY <1>0, <2>3, <2>4
  <2>6. Accepted' = Accepted /\ Succeeded' = Succeeded
    BY <2>1 DEF Accepted, Succeeded
  <2>7. unsure' \in BOOLEAN /\ (unsure => unsure')
    BY <1>0, <2>1 DEF RefundsTypeOK
  <2>8. RefundsShape'
    BY <2>1, <2>5, <2>7 DEF RefundsInv, RefundsShape, RefundsTypeOK, Handled, Answers
  <2>9. RefundsAddUp'
    BY <2>1, <2>6, <2>7 DEF RefundsInv, RefundsAddUp, Total, Succeeded
  <2>10. OneCalls'
    BY <2>1, <2>5, <2>7, Zenon DEF OneCalls, OutOfSight
  <2>11. ~unsure' => Total(Accepted) + amount <= Paid
    <3>1. SUFFICES ASSUME ~unsure' PROVE Total(Accepted) + amount <= Paid
      OBVIOUS
    <3>2. ~OutOfSight(k)
      BY <2>1, <3>1, Zenon
    <3>3. Accepted \subseteq Counted
      BY <3>2 DEF OutOfSight, Accepted, Counted
    <3>4. Total(Accepted) <= Refunded
      <4>1. Counted \in SUBSET Refunds /\ Accepted \in SUBSET Counted
        BY <3>3 DEF Counted
      <4> QED
        BY <1>0, <4>1, Totals DEF Refunded
    <3>5. Refunded < Paid /\ amount <= Paid - Refunded
      BY <2>2 DEF Remaining
    <3>6. Total(Accepted) \in Nat /\ Refunded \in Nat /\ Paid \in Nat
      BY RefundedKnown, RefundsAssumption
    <3> HIDE DEF Refunded
    <3> QED
      BY <2>2, <3>4, <3>5, <3>6
  <2>12. ASSUME NEW j \in Clerks PROVE RefundFits(clerk[j])'
    <3> PICK c : c = clerk'[j]
      OBVIOUS
    <3>1. RefundFits(c)'
      <4>1. CASE j = k
        <5>1. c.pc = "calling" /\ c.amount = amount /\ c.refund \in Refunds
          BY <2>4, <2>5, <4>1
        <5> QED
          BY <2>1, <2>6, <2>11, <5>1 DEF RefundFits, Total
      <4>2. CASE j # k
        <5>1. RefundFits(c)
          BY <2>5, <4>2 DEF RefundsInv
        <5> QED
          BY <2>1, <2>6, <2>7, <5>1 DEF RefundFits, Total
      <4> QED
        BY <4>1, <4>2
    <3> QED
      BY <3>1 DEF RefundFits
  <2> QED
    BY <2>8, <2>9, <2>10, <2>12 DEF RefundsInv
<1> QED
  BY <1>1, <1>2

\* The provider accepts a refund: its amount joins the total, from the clerk who held it.
LEMMA CallKeeps ==
  ASSUME RefundsInv, NEW k \in Clerks, CallProvider(k)
  PROVE  RefundsInv'
<1> PICK r : r = clerk[k].refund
  OBVIOUS
<1>0. /\ clerk \in [Clerks -> Handled] /\ clerk[k] \in Handled /\ RefundsTypeOK
      /\ r \in Refunds
  BY DEF RefundsInv, RefundsShape, RefundsTypeOK, Handled, Answers, CallProvider, RefundFits
<1>1. CASE outcome[r] # "none"
  <2>1. /\ Part(k)
        /\ UNCHANGED <<paidOrder, refreshes, asked, outcome, initiated, latest, requests, misses,
                       unsure>>
    BY <1>1 DEF CallProvider
  <2> QED
    BY <2>1, ClerkParts DEF RefundsInv, RefundsShape, RefundsTypeOK
<1>2. CASE outcome[r] = "none"
  <2> PICK amount : amount = clerk[k].amount
    OBVIOUS
  <2>1. /\ asked' = [asked EXCEPT ![r] = amount]
        /\ outcome' = [outcome EXCEPT ![r] = "PENDING"]
        /\ clerk' = [clerk EXCEPT ![k].pc = "recording", ![k].amount = 0]
        /\ clerk[k].pc = "calling"
        /\ UNCHANGED <<paidOrder, refreshes, initiated, latest, requests, misses, unsure>>
    BY <1>2 DEF CallProvider
  <2> DEFINE row == [clerk[k] EXCEPT !.pc = "recording", !.amount = 0]
  <2>3. clerk' = [clerk EXCEPT ![k] = row]
    BY <1>0, <2>1, Zenon
  <2>4. row \in Handled /\ row.pc = "recording" /\ row.refund = r
    <3>1. 0 \in 0 .. Paid
      BY RefundsAssumption
    <3> QED
      BY <1>0, <3>1, Zenon DEF Handled
  <2> HIDE DEF row
  <2>5. clerk' \in [Clerks -> Handled]
        /\ \A j \in Clerks : clerk'[j] = IF j = k THEN row ELSE clerk[j]
    BY <1>0, <2>3, <2>4
  <2>6. amount \in 0 .. Paid
    BY <1>0 DEF Handled
  <2>7. /\ asked \in [Refunds -> Nat] /\ asked' \in [Refunds -> Nat]
        /\ asked' \in [Refunds -> 0 .. Paid]
        /\ \A q \in Refunds \ {r} : asked'[q] = asked[q] /\ outcome'[q] = outcome[q]
        /\ outcome'[r] = "PENDING" /\ asked'[r] = amount
    BY <1>0, <2>1, <2>6, RefundsAssumption DEF RefundsTypeOK
  <2>8. /\ Accepted' = Accepted \cup {r} /\ Succeeded' = Succeeded
        /\ r \notin Accepted /\ r \notin Succeeded
        /\ Accepted \in SUBSET Refunds /\ Succeeded \in SUBSET Refunds
    BY <1>0, <1>2, <2>7 DEF Accepted, Succeeded
  <2>9. Total(Succeeded)' = Total(Succeeded)
    <3>1. SumFunctionOnSet(asked, Succeeded) = SumFunctionOnSet(asked', Succeeded)
      BY <2>7, <2>8, TotalsStay
    <3> QED
      BY <2>8, <3>1 DEF Total
  <2>10. Total(Accepted)' = amount + Total(Accepted)
    <3>1. SumFunctionOnSet(asked, Accepted) = SumFunctionOnSet(asked', Accepted)
      BY <2>7, <2>8, TotalsStay
    <3>2. asked' \in [Refunds -> Int] /\ IsFiniteSet(Refunds) /\ r \in Refunds \ Accepted
      BY <1>0, <2>7, <2>8, RefundsAssumption
    <3>3. SumFunctionOnSet(asked', Accepted \cup {r})
            = asked'[r] + SumFunctionOnSet(asked', Accepted)
      BY <2>8, <3>2, SumAdds
    <3> QED
      BY <2>7, <2>8, <3>1, <3>3 DEF Total
  <2>11. ~unsure => Total(Accepted) + amount <= Paid
    BY <2>1 DEF RefundsInv, RefundFits
  <2>12. ~unsure => \A j \in Clerks \ {k} : clerk[j].pc # "calling"
    BY <2>1 DEF RefundsInv, OneCalls
  <2>13. RefundsShape'
    <3>1. /\ outcome' \in [Refunds -> Answers]
          /\ initiated \subseteq {q \in Refunds : outcome'[q] # "none"}
      BY <1>0, <2>1, <2>7 DEF RefundsTypeOK, Answers
    <3>2. \A q \in Refunds : /\ latest[q] \in {"none", "PENDING", outcome'[q]}
                             /\ latest[q] # "none" => q \in initiated
      BY <1>0, <1>2, <2>7 DEF RefundsTypeOK
    <3> QED
      BY <2>1, <2>5, <2>7, <3>1, <3>2 DEF RefundsInv, RefundsShape, RefundsTypeOK, Handled,
         Answers
  <2>14. RefundsAddUp'
    <3>1. ~unsure => Total(Accepted)' <= Paid
      BY <2>6, <2>10, <2>11, RefundedKnown
    <3>2. paidOrder = "REFUNDED" => Total(Succeeded) >= Paid
      BY DEF RefundsInv, RefundsAddUp, Succeeded
    <3>3. paidOrder' = "REFUNDED" => Total(Succeeded)' >= Paid
      BY <2>1, <2>9, <3>2
    <3> QED
      BY <2>1, <3>1, <3>3 DEF RefundsAddUp, Succeeded
  <2>15. OneCalls'
    BY <2>1, <2>4, <2>5, <2>12 DEF OneCalls
  <2>16. ASSUME NEW j \in Clerks PROVE RefundFits(clerk[j])'
    <3> PICK c : c = clerk'[j]
      OBVIOUS
    <3>1. CASE j = k
      <4>1. c = row
        BY <2>5, <3>1
      <4>2. RefundFits(c)'
        BY <1>0, <2>4, <2>7, <4>1 DEF RefundFits
      <4> QED
        BY <4>2 DEF RefundFits
    <3>2. CASE j # k
      <4>1. RefundFits(c) /\ (~unsure => c.pc # "calling")
        BY <2>5, <2>12, <3>2 DEF RefundsInv
      <4>2. c.refund \in Refunds =>
              /\ outcome[c.refund] # "none" => outcome'[c.refund] = outcome[c.refund]
              /\ outcome'[c.refund] # "none" \/ outcome'[c.refund] = outcome[c.refund]
        BY <1>2, <2>7
      <4>3. c.pc \in {"checking", "noting"} => outcome'[c.refund] = outcome[c.refund]
        BY <1>0, <4>1, <4>2 DEF RefundFits, RefundsTypeOK
      <4>4. RefundFits(c)'
        BY <2>1, <2>9, <4>1, <4>2, <4>3 DEF RefundFits
      <4> QED
        BY <4>4 DEF RefundFits
    <3> QED
      BY <3>1, <3>2
  <2> QED
    BY <2>13, <2>14, <2>15, <2>16 DEF RefundsInv
<1> QED
  BY <1>1, <1>2

\* A refund settles: what the provider has paid back grows, what it has accepted does not.
LEMMA SettleKeeps ==
  ASSUME RefundsInv, NEW r \in Refunds, NEW answer \in {"SUCCESS", "FAILED"},
         RefundSettles(r, answer)
  PROVE  RefundsInv'
<1>0. /\ RefundsTypeOK /\ outcome[r] = "PENDING"
      /\ outcome' = [outcome EXCEPT ![r] = answer]
      /\ UNCHANGED <<paidOrder, refreshes, asked, initiated, latest, clerk, requests, misses, unsure>>
  BY DEF RefundsInv, RefundsShape, RefundSettles
<1>1. /\ outcome'[r] = answer /\ outcome' \in [Refunds -> {"none", "PENDING", "SUCCESS", "FAILED"}]
      /\ \A q \in Refunds \ {r} : outcome'[q] = outcome[q]
  BY <1>0 DEF RefundsTypeOK
<1>2. Accepted' \in SUBSET Accepted /\ Succeeded \in SUBSET Succeeded'
      /\ Accepted \in SUBSET Refunds /\ Succeeded' \in SUBSET Refunds
  BY <1>0, <1>1 DEF Accepted, Succeeded
<1>3. Total(Accepted)' <= Total(Accepted) /\ Total(Succeeded) <= Total(Succeeded)'
  <2>1. Total(Accepted') <= Total(Accepted) /\ Total(Succeeded) <= Total(Succeeded')
    BY <1>0, <1>2, Totals
  <2> QED
    BY <1>0, <2>1 DEF Total
<1>4. Total(Accepted)' \in Nat /\ Total(Accepted) \in Nat
      /\ Total(Succeeded) \in Nat /\ Total(Succeeded)' \in Nat
  <2>1. Accepted' \in SUBSET Refunds /\ Succeeded \in SUBSET Refunds
    BY <1>2
  <2>2. Total(Accepted') \in Nat /\ Total(Accepted) \in Nat
        /\ Total(Succeeded) \in Nat /\ Total(Succeeded') \in Nat
    BY <1>0, <1>2, <2>1, Totals
  <2> QED
    BY <1>0, <2>2 DEF Total
<1>5. RefundsShape'
  BY <1>0, <1>1 DEF RefundsInv, RefundsShape, RefundsTypeOK
<1>6. OneCalls'
  BY <1>0 DEF RefundsInv, OneCalls
<1>7. RefundsAddUp'
  <2>1. /\ paidOrder = "REFUNDED" => Total(Succeeded) >= Paid
        /\ Total(Accepted) <= Paid \/ unsure
    BY DEF RefundsInv, RefundsAddUp, Succeeded
  <2>2. /\ paidOrder' = "REFUNDED" => Total(Succeeded)' >= Paid
        /\ Total(Accepted)' <= Paid \/ unsure'
    BY <1>0, <1>3, <1>4, <2>1, RefundsAssumption
  <2> QED
    BY <2>2 DEF RefundsAddUp, Succeeded
<1>8. ASSUME NEW k \in Clerks PROVE RefundFits(clerk[k])'
  <2> PICK c : c = clerk[k]
    OBVIOUS
  <2>1. RefundFits(c) /\ c \in Handled
    BY <1>0 DEF RefundsInv, RefundsTypeOK, Handled, Answers
  <2>2. c.pc = "marking" => Total(Succeeded)' >= Paid
    BY <1>3, <1>4, <2>1, RefundsAssumption DEF RefundFits
  <2>3. c.pc = "calling" /\ ~unsure' => Total(Accepted)' + c.amount <= Paid
    <3>1. c.amount \in Nat
      BY <2>1, RefundsAssumption DEF Handled
    <3> QED
      BY <1>0, <1>3, <1>4, <2>1, <3>1, RefundsAssumption DEF RefundFits
  <2>4. /\ c.pc # "away" => c.refund \in Refunds
        /\ c.pc = "recording" => outcome'[c.refund] # "none"
        /\ c.pc \in {"checking", "noting"} => c.refund \in initiated'
        /\ c.pc = "noting" => c.answer \in {"PENDING", outcome'[c.refund]}
    BY <1>0, <1>1, <2>1 DEF RefundFits
  <2> QED
    BY <1>0, <2>2, <2>3, <2>4 DEF RefundFits
<1> QED
  BY <1>5, <1>6, <1>7, <1>8 DEF RefundsInv

LEMMA RefundsStep == RefundsInv /\ [RefundsNext]_rvars => RefundsInv'
<1> SUFFICES ASSUME RefundsInv, [RefundsNext]_rvars PROVE RefundsInv'
  OBVIOUS
<1>0. /\ RefundsTypeOK /\ clerk \in [Clerks -> Handled] /\ latest \in [Refunds -> Answers]
      /\ initiated \subseteq {r \in Refunds : outcome[r] # "none"}
      /\ requests \in 0 .. MaxRequests /\ misses \in 0 .. MaxMisses
      /\ refreshes \in 0 .. MaxRefreshes /\ 0 \in 0 .. Paid
      /\ MaxRequests \in Nat /\ MaxMisses \in Nat /\ MaxRefreshes \in Nat
      /\ \A r \in Refunds : /\ latest[r] \in {"none", "PENDING", outcome[r]}
                            /\ latest[r] # "none" => r \in initiated
  BY RefundsAssumption DEF RefundsInv, RefundsShape, RefundsTypeOK, Handled, Answers
<1>1. ASSUME NEW k \in Clerks, NEW r \in Refunds, NEW amount \in 0 .. Paid,
             BeginRefund(k, r, amount)
      PROVE  RefundsInv'
  <2> DEFINE row == [Away EXCEPT !.pc = "finding", !.refund = r, !.amount = amount]
  <2>1. row \in Handled /\ row.pc = "finding" /\ row.refund \in Refunds
    BY <1>0, Zenon DEF Away, Handled, Answers
  <2>2. clerk' = [clerk EXCEPT ![k] = row]
    BY <1>1 DEF BeginRefund
  <2> HIDE DEF row
  <2>3. RefundFits(row)'
    BY <2>1 DEF RefundFits
  <2>4. requests' \in 0 .. MaxRequests
    BY <1>0, <1>1 DEF BeginRefund
  <2> QED
    BY <1>0, <1>1, <2>1, <2>2, <2>3, <2>4, ClerkMoves, Zenon DEF BeginRefund
<1>2. ASSUME NEW k \in Clerks, FindRefund(k) PROVE RefundsInv'
  <2> PICK pc : pc = IF clerk[k].refund \in initiated THEN "checking" ELSE "summing"
    OBVIOUS
  <2> PICK row : row = [clerk[k] EXCEPT !.pc = pc]
    BY Zenon
  <2>1. RefundFits(clerk[k]) /\ clerk[k] \in Handled /\ clerk[k].pc = "finding"
    BY <1>0, <1>2 DEF FindRefund, RefundsInv
  <2>2. row \in Handled /\ row.pc = pc /\ row.refund = clerk[k].refund
        /\ row.pc # "calling"
    BY <2>1 DEF Handled
  <2>3. clerk' = [clerk EXCEPT ![k] = row]
    BY <1>0, <1>2 DEF FindRefund, Turn
  <2>4. RefundFits(row)'
    BY <1>2, <2>1, <2>2 DEF RefundFits, FindRefund
  <2> QED
    BY <1>0, <1>2, <2>2, <2>3, <2>4, ClerkMoves, Zenon DEF FindRefund
<1>3. ASSUME NEW k \in Clerks, RecordRefund(k) PROVE RefundsInv'
  <2> PICK row : row = [clerk[k] EXCEPT !.pc = "checking"]
    BY Zenon
  <2>1. RefundFits(clerk[k]) /\ clerk[k] \in Handled /\ clerk[k].pc = "recording"
    BY <1>0, <1>3 DEF RecordRefund, RefundsInv
  <2>2. row \in Handled /\ row.pc = "checking" /\ row.refund = clerk[k].refund
    BY <2>1 DEF Handled
  <2>3. clerk' = [clerk EXCEPT ![k] = row]
    BY <1>0, <1>3 DEF RecordRefund, Turn
  <2>4. /\ initiated' = initiated \cup {clerk[k].refund}
        /\ initiated' \subseteq {r \in Refunds : outcome[r] # "none"}
    BY <1>0, <1>3, <2>1 DEF RecordRefund, RefundFits
  <2>5. RefundFits(row)'
    BY <2>1, <2>2, <2>4 DEF RefundFits
  <2> QED
    BY <1>0, <1>3, <2>2, <2>3, <2>4, <2>5, ClerkMoves, Zenon DEF RecordRefund
<1>4. ASSUME NEW k \in Clerks, NEW r \in Refunds, BeginCheck(k, r) PROVE RefundsInv'
  <2> DEFINE row == [Away EXCEPT !.pc = "checking", !.refund = r]
  <2>1. row \in Handled /\ row.pc = "checking" /\ row.refund = r
    BY <1>0, Zenon DEF Away, Handled, Answers
  <2>2. clerk' = [clerk EXCEPT ![k] = row]
    BY <1>4 DEF BeginCheck
  <2> HIDE DEF row
  <2>3. RefundFits(row)'
    BY <1>4, <2>1 DEF RefundFits, BeginCheck
  <2>4. requests' \in 0 .. MaxRequests
    BY <1>0, <1>4 DEF BeginCheck
  <2> QED
    BY <1>0, <1>4, <2>1, <2>2, <2>3, <2>4, ClerkMoves, Zenon DEF BeginCheck
<1>5. ASSUME NEW k \in Clerks, AskRefund(k) PROVE RefundsInv'
  <2> PICK answer : answer = outcome[clerk[k].refund]
    OBVIOUS
  <2> PICK row : row = [clerk[k] EXCEPT !.pc = "noting", !.amount = 0, !.answer = answer]
    OBVIOUS
  <2>1. RefundFits(clerk[k]) /\ clerk[k] \in Handled /\ clerk[k].pc = "checking"
    BY <1>0, <1>5 DEF AskRefund, RefundsInv
  <2>2. answer \in Answers /\ answer # "none" /\ clerk[k].refund \in initiated
    BY <1>0, <2>1 DEF RefundFits, RefundsTypeOK, Answers
  <2>3. /\ row \in Handled /\ row.pc = "noting" /\ row.refund = clerk[k].refund
        /\ row.answer = answer
    BY <1>0, <2>1, <2>2, Zenon DEF Handled
  <2>4. clerk' = [clerk EXCEPT ![k] = row]
    BY <1>0, <1>5, Zenon DEF AskRefund
  <2>5. RefundFits(row)'
    BY <1>0, <1>5, <2>2, <2>3 DEF RefundFits, AskRefund
  <2> QED
    BY <1>0, <1>5, <2>3, <2>4, <2>5, ClerkMoves, Zenon DEF AskRefund
<1>6. ASSUME NEW k \in Clerks, NoteStatus(k) PROVE RefundsInv'
  <2> PICK r : r = clerk[k].refund
    OBVIOUS
  <2> PICK answer : answer = clerk[k].answer
    OBVIOUS
  <2>1. RefundFits(clerk[k]) /\ clerk[k] \in Handled /\ clerk[k].pc = "noting"
    BY <1>0, <1>6 DEF NoteStatus, RefundsInv
  <2>2. /\ r \in initiated /\ r \in Refunds /\ answer \in {"PENDING", outcome[r]}
        /\ answer \in Answers /\ latest' = [latest EXCEPT ![r] = answer]
    BY <1>0, <1>6, <2>1 DEF RefundFits, NoteStatus, Handled
  <2>3. latest' \in [Refunds -> Answers]
    BY <1>0, <2>2
  <2>4. \A q \in Refunds : /\ latest'[q] \in {"none", "PENDING", outcome[q]}
                           /\ latest'[q] # "none" => q \in initiated
    BY <1>0, <2>2
  <2>5. CASE answer # "SUCCESS"
    BY <1>0, <1>6, <2>3, <2>4, <2>5, ClerkParts DEF NoteStatus
  <2>6. CASE answer = "SUCCESS"
    <3> PICK row : row = [clerk[k] EXCEPT !.pc = "applying"]
      BY Zenon
    <3>1. row \in Handled /\ row.pc = "applying" /\ row.refund = r
      BY <2>1 DEF Handled
    <3>2. clerk' = [clerk EXCEPT ![k] = row]
      BY <1>0, <1>6, <2>6 DEF NoteStatus, Turn
    <3>3. RefundFits(row)
      BY <2>2, <3>1 DEF RefundFits
    <3>4. UNCHANGED <<paidOrder, refreshes, asked, outcome, initiated, requests, misses, unsure>>
      BY <1>6 DEF NoteStatus
    <3>5. /\ clerk' \in [Clerks -> Handled]
          /\ OneCalls' /\ \A j \in Clerks : RefundFits(clerk[j])'
      BY <3>1, <3>2, <3>3, <3>4, ClerkTurns, Zenon
    <3>6. RefundsShape'
      BY <1>0, <2>3, <2>4, <3>4, <3>5 DEF RefundsShape, RefundsTypeOK, Handled, Answers
    <3>7. RefundsAddUp'
      BY <3>4, AddUpOn DEF RefundsInv
    <3> QED
      BY <3>5, <3>6, <3>7 DEF RefundsInv
  <2> QED
    BY <2>5, <2>6
<1>7. ASSUME NEW k \in Clerks, ApplyRefunds(k) PROVE RefundsInv'
  <2>1. CASE Refunded < Paid \/ paidOrder = "REFUNDED"
    BY <1>0, <1>7, <2>1, ClerkParts DEF ApplyRefunds
  <2>2. CASE ~(Refunded < Paid \/ paidOrder = "REFUNDED")
    <3> PICK row : row = [clerk[k] EXCEPT !.pc = "marking"]
      BY Zenon
    <3>1. RefundFits(clerk[k]) /\ clerk[k] \in Handled /\ clerk[k].pc = "applying"
      BY <1>0, <1>7 DEF ApplyRefunds, RefundsInv
    <3>2. row \in Handled /\ row.pc = "marking" /\ row.refund = clerk[k].refund
      BY <3>1 DEF Handled
    <3>3. clerk' = [clerk EXCEPT ![k] = row]
      BY <1>0, <1>7, <2>2 DEF ApplyRefunds, Turn
    <3>4. Total(Succeeded) >= Paid
      <4>1. Refunded \in Nat /\ Paid \in Nat /\ Total(Succeeded) \in Nat /\ Refunded <= Total(Succeeded)
        BY RefundedKnown, RefundsAssumption
      <4>2. ~(Refunded < Paid)
        BY <2>2
      <4> HIDE DEF Refunded
      <4> QED
        BY <4>1, <4>2
    <3>5. Total(Succeeded)' = Total(Succeeded)
      BY <1>7 DEF ApplyRefunds, Total, Succeeded
    <3>6. RefundFits(row)'
      BY <3>1, <3>2, <3>4, <3>5 DEF RefundFits
    <3> QED
      BY <1>0, <1>7, <3>2, <3>3, <3>6, ClerkMoves, Zenon DEF ApplyRefunds
  <2> QED
    BY <2>1, <2>2
<1>8. ASSUME NEW k \in Clerks, MarkRefunded(k) PROVE RefundsInv'
  <2>1. clerk' = [clerk EXCEPT ![k] = Away] /\ paidOrder' = "REFUNDED"
        /\ UNCHANGED <<refreshes, asked, outcome, initiated, latest, requests, misses, unsure>>
    BY <1>8 DEF MarkRefunded, Part
  <2>2. /\ clerk' \in [Clerks -> Handled]
        /\ OneCalls' /\ \A j \in Clerks : RefundFits(clerk[j])'
    BY <2>1, AwayFits, ClerkTurns, Zenon
  <2>3. RefundsShape'
    BY <1>0, <2>1, <2>2 DEF RefundsShape, RefundsTypeOK, Handled, Answers
  <2>4. Total(Succeeded) >= Paid
    BY <1>8 DEF MarkRefunded, RefundsInv, RefundFits
  <2>5. RefundsAddUp'
    BY <2>1, <2>4, AddUpOn DEF RefundsInv
  <2> QED
    BY <2>2, <2>3, <2>5 DEF RefundsInv
<1>9. CASE LateRefresh
  <2>1. paidOrder' = "SUCCESS" /\ refreshes' \in 0 .. MaxRefreshes
        /\ UNCHANGED <<asked, outcome, initiated, latest, clerk, requests, misses, unsure>>
    BY <1>0, <1>9 DEF LateRefresh
  <2>2. RefundsShape'
    BY <1>0, <2>1 DEF RefundsShape, RefundsTypeOK
  <2>3. OneCalls'
    BY <2>1 DEF RefundsInv, OneCalls
  <2>4. \A j \in Clerks : RefundFits(clerk[j])'
    <3>1. Accepted' = Accepted /\ Succeeded' = Succeeded
      BY <2>1 DEF Accepted, Succeeded
    <3> QED
      BY <2>1, <3>1 DEF RefundsInv, RefundFits, Total
  <2>5. RefundsAddUp'
    BY <2>1, AddUpOn DEF RefundsInv
  <2> QED
    BY <2>2, <2>3, <2>4, <2>5 DEF RefundsInv
<1>10. ASSUME NEW k \in Clerks, ClerkMisses(k) PROVE RefundsInv'
  <2>1. misses' \in 0 .. MaxMisses
    BY <1>0, <1>10 DEF ClerkMisses
  <2> QED
    BY <1>0, <1>10, <2>1, ClerkParts DEF ClerkMisses
<1>11. CASE UNCHANGED rvars
  <2>1. UNCHANGED <<paidOrder, refreshes, asked, outcome, initiated, latest, clerk, requests,
                    misses, unsure>>
    BY <1>11 DEF rvars
  <2>2. RefundsShape' /\ OneCalls'
    BY <2>1 DEF RefundsInv, RefundsShape, RefundsTypeOK, OneCalls
  <2>3. Accepted' = Accepted /\ Succeeded' = Succeeded
    BY <2>1 DEF Accepted, Succeeded
  <2>4. \A j \in Clerks : RefundFits(clerk[j])'
    BY <2>1, <2>3 DEF RefundsInv, RefundFits, Total
  <2>5. RefundsAddUp'
    BY <2>1, AddUpOn DEF RefundsInv
  <2> QED
    BY <2>2, <2>4, <2>5 DEF RefundsInv
<1> QED
  BY <1>1, <1>2, <1>3, <1>4, <1>5, <1>6, <1>7, <1>8, <1>9, <1>10, <1>11, SumsKeep, CallKeeps,
     SettleKeeps
  DEF RefundsNext, ClerkStep

(***************************************************************************)
(* Practice                                                                *)
(***************************************************************************)

\* Sums of functions added point by point.
LEMMA SumPlus ==
  ASSUME NEW F, IsFiniteSet(F), NEW f \in [F -> Int], NEW g \in [F -> Int], NEW h \in [F -> Int],
         \A x \in F : h[x] = f[x] + g[x]
  PROVE  \A s \in SUBSET F :
           SumFunctionOnSet(h, s) = SumFunctionOnSet(f, s) + SumFunctionOnSet(g, s)
<1> DEFINE G == {s \in SUBSET F :
                   SumFunctionOnSet(h, s) = SumFunctionOnSet(f, s) + SumFunctionOnSet(g, s)}
<1>1. ASSUME NEW s \in SUBSET F, \A x \in s : s \ {x} \in G PROVE s \in G
  <2>1. IsFiniteSet(s)
    BY FS_Subset
  <2>2. CASE s = {}
    <3>1. SumFunctionOnSet(f, {}) = 0 /\ SumFunctionOnSet(g, {}) = 0
          /\ SumFunctionOnSet(h, {}) = 0
      BY <2>1, SumUnfolds, Zenon
    <3> QED
      BY <2>2, <3>1
  <2>3. ASSUME NEW x \in s PROVE s \in G
    <3> PICK q \in SUBSET F : q = s \ {x}
      BY Zenon
    <3>1. /\ SumFunctionOnSet(f, s) = f[x] + SumFunctionOnSet(f, q)
          /\ SumFunctionOnSet(g, s) = g[x] + SumFunctionOnSet(g, q)
          /\ SumFunctionOnSet(h, s) = h[x] + SumFunctionOnSet(h, q)
      BY SumTakes
    <3>2. SumFunctionOnSet(h, q) = SumFunctionOnSet(f, q) + SumFunctionOnSet(g, q)
      BY <1>1
    <3>3. SumFunctionOnSet(f, q) \in Int /\ SumFunctionOnSet(g, q) \in Int
      BY SumIsInt
    <3> PICK a \in Int, b \in Int, u \in Int, w \in Int :
          a = f[x] /\ b = g[x] /\ u = SumFunctionOnSet(f, q) /\ w = SumFunctionOnSet(g, q)
      BY <3>3
    <3>4. /\ SumFunctionOnSet(h, s) = (a + b) + (u + w)
          /\ SumFunctionOnSet(f, s) = a + u /\ SumFunctionOnSet(g, s) = b + w
      BY <3>1, <3>2
    <3>5. (a + b) + (u + w) = (a + u) + (b + w)
      OBVIOUS
    <3> QED
      BY <3>4, <3>5
  <2> QED
    BY <2>2, <2>3
<1> HIDE DEF G
<1>2. \A s \in SUBSET F : s \in G
  BY <1>1, SetInduction, Zenon
<1> QED
  BY <1>2 DEF G

Key(q, verdict) == [question |-> q, type |-> "ANSWERED", verdict |-> verdict]
Marks == {"right", "wrong"}

LEMMA KeysApart ==
  \A q, x, v : /\ Key(q, v) = Key(x, v) => q = x
               /\ q \in Drills /\ v \in Marks => Key(q, v) \in Item
  BY DEF Key, Marks, Item, Verdict

\* The items of a batch are few, and so are those that count in a row.
LEMMA BatchesAreFinite ==
  ASSUME NEW items \in Batches
  PROVE  /\ IsFiniteSet(DOMAIN items) /\ \A n \in DOMAIN items : items[n] \in Item
         /\ Cardinality(DOMAIN items) <= MaxItems
         /\ \A s \in SUBSET (DOMAIN items) :
              IsFiniteSet(s) /\ Cardinality(s) \in 0 .. MaxItems
<1>1. PICK n \in 1 .. MaxItems : items \in [1 .. n -> Items]
  BY DEF Batches
<1>2. n \in Nat /\ n <= MaxItems /\ DOMAIN items = 1 .. n
  BY <1>1, PracticeAssumption
<1>3. IsFiniteSet(1 .. n) /\ Cardinality(1 .. n) = n
  BY <1>2, FS_Interval
<1>4. ASSUME NEW s \in SUBSET (1 .. n)
      PROVE  IsFiniteSet(s) /\ Cardinality(s) \in 0 .. MaxItems
  <2>1. IsFiniteSet(s) /\ Cardinality(s) <= n
    BY <1>3, FS_Subset, Zenon
  <2>2. Cardinality(s) \in Nat
    BY <2>1, FS_CardinalityType
  <2> QED
    BY <1>2, <2>1, <2>2, PracticeAssumption
<1>5. \A i \in 1 .. n : items[i] \in Item
  BY <1>1, PracticeAssumption
<1> QED
  BY <1>1, <1>2, <1>3, <1>4, <1>5

\* What counts in a question are the answers to it, and what counts in a topic are the
\* answers to its questions.
Placings == [Drills -> Themes \cup {NoTheme, NoDrill}]

LEMMA CountsOfQuestion ==
  ASSUME NEW items \in Batches, NEW u \in Placings, NEW q \in Drills, NEW v \in Marks
  PROVE  Increment(items, u, q, v) = Copies(items, Key(q, v))
<1>1. \A n \in DOMAIN items : items[n] \in Item
  BY BatchesAreFinite
<1>2. \A i \in Item : /\ u[i.question] # q
                      /\ (Counts(i) /\ i.verdict = v /\ i.question = q) <=> i = Key(q, v)
  <2>1. ASSUME NEW i \in Item
        PROVE  /\ u[i.question] # q
               /\ (Counts(i) /\ i.verdict = v /\ i.question = q) <=> i = Key(q, v)
    <3>1. i = [question |-> i.question, type |-> i.type, verdict |-> i.verdict]
      BY DEF Item
    <3>2. v # "none"
      BY DEF Marks
    <3>3. u[i.question] # q
      BY PracticeAssumption DEF Item, Placings
    <3> QED
      BY <3>1, <3>2, <3>3 DEF Counts, Key
  <2> QED
    BY <2>1
<1>3. CountedIn(items, u, q, v) = {n \in DOMAIN items : items[n] = Key(q, v)}
  BY <1>1, <1>2 DEF CountedIn
<1> QED
  BY <1>3 DEF Increment, Copies

QuestionsIn(u, t) == {q \in Drills : u[q] = t}
CopiesOf(items, under, v) == [q \in under |-> Copies(items, Key(q, v))]

LEMMA CountsOfTopic ==
  ASSUME NEW items \in Batches, NEW u \in Placings, NEW t \in Themes, NEW v \in Marks,
         NEW under, under = QuestionsIn(u, t), NEW inc, inc = CopiesOf(items, under, v)
  PROVE  inc \in [under -> Int] /\ Increment(items, u, t, v) = SumFunctionOnSet(inc, under)
<1>5. under = {q \in Drills : u[q] = t} /\ inc = [q \in under |-> Copies(items, Key(q, v))]
  BY DEF QuestionsIn, CopiesOf
<1> DEFINE Answering(q) == {n \in DOMAIN items : items[n] = Key(q, v)}
           Lying(s) == {n \in DOMAIN items : \E q \in s : items[n] = Key(q, v)}
           G == {s \in SUBSET under : Cardinality(Lying(s)) = SumFunctionOnSet(inc, s)}
<1>0. IsFiniteSet(under) /\ inc \in [under -> Int]
  <2>1. \A q \in under : Answering(q) \in SUBSET (DOMAIN items)
    OBVIOUS
  <2>2. \A q \in under : Copies(items, Key(q, v)) \in 0 .. MaxItems
    BY <2>1, BatchesAreFinite DEF Copies
  <2>3. \A q \in under : Copies(items, Key(q, v)) \in Int
    BY <2>2
  <2> QED
    BY <1>5, <2>3, PracticeAssumption, FS_Subset
<1>1. ASSUME NEW s \in SUBSET under, \A x \in s : s \ {x} \in G PROVE s \in G
  <2>1. CASE s = {}
    <3>1. Lying(s) = {}
      BY <2>1
    <3>2. Cardinality({}) = 0 /\ SumFunctionOnSet(inc, {}) = 0
      BY <1>0, FS_EmptySet, SumUnfolds, Zenon
    <3> QED
      BY <2>1, <3>1, <3>2
  <2>2. ASSUME NEW x \in s PROVE s \in G
    <3>1. Lying(s) = Lying(s \ {x}) \cup Answering(x) /\ Lying(s \ {x}) \cap Answering(x) = {}
      BY KeysApart
    <3>2. IsFiniteSet(Lying(s \ {x})) /\ IsFiniteSet(Answering(x))
      BY BatchesAreFinite
    <3> PICK a, b : a = Lying(s \ {x}) /\ b = Answering(x)
      BY Zenon
    <3>3. Cardinality(a \cup b) = Cardinality(a) + Cardinality(b) - Cardinality(a \cap b)
      BY <3>2, FS_Union
    <3>4. Cardinality(a \cap b) = 0
      BY <3>1, FS_EmptySet
    <3>5. Cardinality(a) \in Nat /\ Cardinality(b) \in Nat
      BY <3>2, FS_CardinalityType
    <3>6. Cardinality(a) = SumFunctionOnSet(inc, s \ {x}) /\ Cardinality(b) = inc[x]
      BY <1>5, <1>1 DEF Copies
    <3>7. SumFunctionOnSet(inc, s) = inc[x] + SumFunctionOnSet(inc, s \ {x})
      BY <1>0, SumTakes
    <3>8. Cardinality(Lying(s)) = Cardinality(a) + Cardinality(b)
      <4>1. Lying(s) = a \cup b
        BY <3>1
      <4>2. Cardinality(Lying(s)) = Cardinality(a \cup b)
        BY <4>1, Zenon
      <4> HIDE DEF Lying
      <4> QED
        BY <3>3, <3>4, <3>5, <4>2
    <3>9. Cardinality(Lying(s)) = SumFunctionOnSet(inc, s)
      BY <3>5, <3>6, <3>7, <3>8
    <3> QED
      BY <3>9
  <2> QED
    BY <2>1, <2>2
<1> HIDE DEF G
<1>2. \A s \in SUBSET under : s \in G
  <2>1. \A s \in SUBSET under : (\A x \in s : s \ {x} \in G) => s \in G
    BY <1>1
  <2> QED
    BY <1>0, <2>1, SetInduction, Zenon
<1>3. Cardinality(Lying(under)) = SumFunctionOnSet(inc, under)
  BY <1>2 DEF G
<1>4. CountedIn(items, u, t, v) = Lying(under)
  <2>1. ASSUME NEW n \in DOMAIN items
        PROVE  (/\ Counts(items[n]) /\ items[n].verdict = v
                /\ t \in {items[n].question, u[items[n].question]})
               <=> \E q \in under : items[n] = Key(q, v)
    <3> PICK i \in Item : i = items[n]
      BY BatchesAreFinite
    <3>1. i = [question |-> i.question, type |-> i.type, verdict |-> i.verdict]
          /\ i.question \in Drills
      BY DEF Item
    <3>2. v # "none" /\ i.question # t
      BY <3>1, PracticeAssumption DEF Marks
    <3>3. ASSUME Counts(i), i.verdict = v, t \in {i.question, u[i.question]}
          PROVE  \E q \in under : i = Key(q, v)
      BY <1>5, <3>1, <3>2, <3>3 DEF Counts, Key
    <3>4. ASSUME NEW q \in under, i = Key(q, v)
          PROVE  Counts(i) /\ i.verdict = v /\ t \in {i.question, u[i.question]}
      BY <1>5, <3>2, <3>4 DEF Counts, Key
    <3> QED
      BY <3>3, <3>4
  <2> QED
    BY <2>1 DEF CountedIn
<1> QED
  BY <1>0, <1>3, <1>4 DEF Increment

HeldOf(call) == IF call.pc = "taking" THEN call.held ELSE {}
Asks(call) ==
  \/ call = NoCall \/ call = [pc |-> "serving"]
  \/ \E items \in Batches, u \in Placings, pc \in {"reading", "taking"} : \E held :
       call = [pc |-> pc, items |-> items, topics |-> u, held |-> held]

\* The topics a batch has read hold the questions they still hold, unless they are shuffled;
\* before its transaction it holds no row.
Abreast(call) ==
  /\ call.pc \in {"reading", "taking"} =>
       \A t \in Themes \ shuffled : QuestionsIn(call.topics, t) = QuestionsIn(themeOf, t)
  /\ call.pc = "reading" => call.held = {}
ReadAbreast == \A r \in Requests : Abreast(request[r])

\* Each request waits for nothing, for questions or for the rows of a batch, and no two
\* batches hold a row.
Queueing ==
  /\ request = [r \in Requests |-> request[r]]
  /\ \A r \in Requests : Asks(request[r])
  /\ \A r, o \in Requests : r # o => HeldOf(request[r]) \cap HeldOf(request[o]) = {}

\* The requests under way, those that are over, and the answers these may have recorded.
UnderWay == {r \in Requests : request[r] # NoCall}
Over == MaxRequested - requested - Cardinality(UnderWay)
Answerable(n) == 0 .. MaxItems * n
Recordable(n) == 0 .. MaxItems * n + 1
Fitting(n) ==
  /\ n \in Nat
  /\ events \in [Item -> Recordable(n)]
  /\ counts \in [Drills \cup Themes -> [right : Answerable(n), wrong : Answerable(n)]]

DrillsOK ==
  /\ themeOf \in Placings /\ seeded \subseteq Existing
  /\ changes \in 0 .. MaxChanges /\ shuffled \subseteq Themes

PracticeInv ==
  /\ session \in {"none", "ACTIVE", "ENDED"} /\ served \subseteq Existing
  /\ DrillsOK
  /\ requested \in 0 .. MaxRequested
  /\ Queueing /\ ReadAbreast
  /\ Fitting(Over)
  /\ CountersTellAnswers

LEMMA HeldIsHeldOf == \A r \in Requests : Held(r) = HeldOf(request[r])
  BY DEF Held, HeldOf

LEMMA QueueMoves ==
  ASSUME Queueing, NEW r \in Requests, NEW call, Asks(call),
         request' = [request EXCEPT ![r] = call],
         \A o \in Requests \ {r} : HeldOf(call) \cap HeldOf(request[o]) = {}
  PROVE  /\ Queueing' /\ request'[r] = call
         /\ \A o \in Requests \ {r} : request'[o] = request[o]
<1>1. request' = [o \in Requests |-> IF o = r THEN call ELSE request[o]]
  BY DEF Queueing
<1>2. \A o \in Requests : request'[o] = IF o = r THEN call ELSE request[o]
  BY <1>1
<1>3. request' = [o \in Requests |-> request'[o]]
  BY <1>1, Zenon
<1>4. \A o \in Requests : Asks(request'[o])
  BY <1>2 DEF Queueing
<1>5. \A o, p \in Requests : o # p => HeldOf(request'[o]) \cap HeldOf(request'[p]) = {}
  <2> SUFFICES ASSUME NEW o \in Requests, NEW p \in Requests, o # p
               PROVE  HeldOf(request'[o]) \cap HeldOf(request'[p]) = {}
    OBVIOUS
  <2>1. CASE o = r
    BY <1>2, <2>1
  <2>2. CASE p = r
    BY <1>2, <2>2
  <2>3. CASE o # r /\ p # r
    BY <1>2, <2>3 DEF Queueing
  <2> QED
    BY <2>1, <2>2, <2>3
<1> QED
  BY <1>2, <1>3, <1>4, <1>5 DEF Queueing

\* A request moves that has read the topics as they are, and no question does.
LEMMA AbreastStays ==
  ASSUME ReadAbreast, UNCHANGED drillVars, NEW r \in Requests, Abreast(request'[r]),
         \A o \in Requests \ {r} : request'[o] = request[o]
  PROVE  ReadAbreast'
<1>1. themeOf' = themeOf /\ shuffled' = shuffled
  BY DEF drillVars
<1>2. ASSUME NEW o \in Requests PROVE Abreast(request'[o])
  BY <1>2 DEF ReadAbreast
<1> QED
  BY <1>1, <1>2 DEF ReadAbreast, Abreast, QuestionsIn

\* A request that begins takes its place among those left; one that ends is over.
LEMMA OverMoves ==
  ASSUME NEW r \in Requests, requested \in 0 .. MaxRequested,
         \A o \in Requests \ {r} : request'[o] = request[o]
  PROVE  /\ Over \in Int
         /\ request[r] = NoCall /\ request'[r] # NoCall /\ requested > 0
              /\ requested' = requested - 1 => Over' = Over
         /\ request[r] # NoCall /\ request'[r] # NoCall /\ requested' = requested => Over' = Over
         /\ request[r] # NoCall /\ request'[r] = NoCall /\ requested' = requested
              => Over' = Over + 1
<1>1. IsFiniteSet(UnderWay) /\ IsFiniteSet(UnderWay')
  BY PracticeAssumption, FS_Subset DEF UnderWay
<1>2. Cardinality(UnderWay) \in Nat /\ Cardinality(UnderWay') \in Nat
  BY <1>1, FS_CardinalityType
<1>3. CASE request[r] = NoCall /\ request'[r] # NoCall
  <2>1. UnderWay' = UnderWay \cup {r} /\ r \notin UnderWay
    BY <1>3 DEF UnderWay
  <2>2. Cardinality(UnderWay') = Cardinality(UnderWay) + 1
    BY <1>1, <2>1, FS_AddElement
  <2> QED
    BY <1>2, <1>3, <2>2, PracticeAssumption DEF Over
<1>4. CASE request[r] # NoCall /\ request'[r] # NoCall
  <2>1. UnderWay' = UnderWay
    BY <1>4 DEF UnderWay
  <2> QED
    BY <1>2, <1>4, <2>1, PracticeAssumption DEF Over
<1>5. CASE request[r] # NoCall /\ request'[r] = NoCall
  <2>1. UnderWay' = UnderWay \ {r} /\ r \in UnderWay
    BY <1>5 DEF UnderWay
  <2>2. Cardinality(UnderWay') = Cardinality(UnderWay) - 1
    BY <1>1, <2>1, FS_RemoveElement
  <2> QED
    BY <1>2, <1>5, <2>2, PracticeAssumption DEF Over
<1>6. Over \in Int
  BY <1>2, PracticeAssumption DEF Over
<1> QED
  BY <1>3, <1>4, <1>5, <1>6

LEMMA MoreIsAnswerable ==
  ASSUME NEW n \in Nat
  PROVE  /\ n + 1 \in Nat /\ Answerable(n) \subseteq Answerable(n + 1)
         /\ Answerable(n) \subseteq Int
         /\ \A a \in Answerable(n) : \A b \in 0 .. MaxItems : a + b \in Answerable(n + 1)
         /\ Recordable(n) \subseteq Recordable(n + 1) /\ Recordable(n) \subseteq Int
         /\ \A a \in Recordable(n) : \A b \in 0 .. MaxItems : a + b \in Recordable(n + 1)
         /\ 0 \in Answerable(n) /\ 0 \in Recordable(n)
<1> PICK m \in Nat : m = MaxItems * n
  BY PracticeAssumption
<1>1. MaxItems * (n + 1) = m + MaxItems /\ MaxItems \in Nat
  BY PracticeAssumption
<1>2. /\ Answerable(n) = 0 .. m /\ Answerable(n + 1) = 0 .. m + MaxItems
      /\ Recordable(n) = 0 .. m + 1 /\ Recordable(n + 1) = 0 .. m + MaxItems + 1
  BY <1>1 DEF Answerable, Recordable
<1> QED
  BY <1>1, <1>2

\* What is recorded fits as long as no request is undone.
LEMMA FitsStill ==
  ASSUME Fitting(Over), Over' \in {Over, Over + 1}, UNCHANGED <<events, counts>>
  PROVE  Fitting(Over)'
<1> PICK n \in Nat : n = Over
  BY DEF Fitting
<1>1. /\ Answerable(n) \subseteq Answerable(n + 1) /\ n + 1 \in Nat
      /\ Recordable(n) \subseteq Recordable(n + 1)
  BY MoreIsAnswerable
<1>2. PICK m \in {n, n + 1} : m = Over'
  OBVIOUS
<1>3. m \in Nat /\ Answerable(n) \subseteq Answerable(m) /\ Recordable(n) \subseteq Recordable(m)
  BY <1>1, <1>2
<1>4. events \in [Item -> Recordable(m)]
      /\ counts \in [Drills \cup Themes -> [right : Answerable(m), wrong : Answerable(m)]]
  BY <1>3 DEF Fitting
<1> QED
  BY <1>2, <1>3, <1>4 DEF Fitting, Answerable, Recordable

LEMMA RecordedIs ==
  ASSUME Fitting(Over)
  PROVE  \A q \in Drills : \A v \in Marks : Recorded(q, v) = events[Key(q, v)] /\ Recorded(q, v) \in Int
<1> PICK n \in Nat : n = Over
  BY DEF Fitting
<1>1. Recordable(n) \subseteq Int
  BY MoreIsAnswerable
<1>2. \A i \in Item : events[i] \in Int
  BY <1>1 DEF Fitting
<1> QED
  BY <1>2, KeysApart DEF Recorded, Key

\* What a batch adds is counted once in its questions and once in their topics.
\* The counters of a topic are those of these questions together.
SumsUp(t, under) ==
  counts[t] = [right |-> Together(under, "right"), wrong |-> Together(under, "wrong")]

\* The counters tell the answers if they sum up for the questions of each topic.
LEMMA SumsTell ==
  ASSUME \A q \in Drills :
           counts'[q] = [right |-> Given(q, "right")', wrong |-> Given(q, "wrong")'],
         \A t \in Themes \ shuffled' : \A under :
           under = {q \in Drills : themeOf'[q] = t} => SumsUp(t, under)'
  PROVE  CountersTellAnswers'
<1>1. ASSUME NEW t \in Themes \ shuffled', NEW under, under = {q \in Drills : themeOf'[q] = t}
      PROVE  counts'[t] = [right |-> SumFunctionOnSet([q \in under |-> Given(q, "right")'], under),
                           wrong |-> SumFunctionOnSet([q \in under |-> Given(q, "wrong")'], under)]
  BY <1>1, Zenon DEF SumsUp, Together
<1> QED
  BY <1>1, Zenon DEF CountersTellAnswers, Together

LEMMA CommitGives ==
  ASSUME Fitting(Over), NEW items \in Batches, NEW u \in Placings, seeded' = seeded,
         events' = [i \in Item |-> events[i] + Copies(items, i)],
         NEW q \in Drills, NEW v \in Marks
  PROVE  /\ Given(q, v) \in Int /\ Increment(items, u, q, v) \in Int
         /\ Given(q, v)' = Given(q, v) + Increment(items, u, q, v)
<1> PICK less \in Int : less = IF v = "right" /\ q \in seeded THEN 1 ELSE 0
  OBVIOUS
<1>1. Key(q, v) \in Item
  BY KeysApart
<1>2. Recorded(q, v) = events[Key(q, v)] /\ Recorded(q, v) \in Int
  BY RecordedIs
<1>3. Recorded(q, v)' = events'[Key(q, v)]
  BY DEF Recorded, Key
<1>4. Increment(items, u, q, v) = Copies(items, Key(q, v))
  BY CountsOfQuestion
<1>5. Copies(items, Key(q, v)) \in Int
  BY BatchesAreFinite DEF Copies
<1>6. Recorded(q, v)' = Recorded(q, v) + Increment(items, u, q, v)
  BY <1>1, <1>2, <1>3, <1>4
<1>7. Given(q, v) = Recorded(q, v) - less /\ Given(q, v)' = Recorded(q, v)' - less
  BY DEF Given
<1> QED
  BY <1>2, <1>4, <1>5, <1>6, <1>7

LEMMA CommitTellsQuestion ==
  ASSUME Fitting(Over), CountersTellAnswers, NEW items \in Batches, NEW u \in Placings,
         seeded' = seeded,
         events' = [i \in Item |-> events[i] + Copies(items, i)],
         counts' = [x \in DOMAIN counts |->
            [right |-> counts[x].right + Increment(items, u, x, "right"),
             wrong |-> counts[x].wrong + Increment(items, u, x, "wrong")]],
         NEW q \in Drills
  PROVE  counts'[q] = [right |-> Given(q, "right")', wrong |-> Given(q, "wrong")']
<1>1. counts'[q] = [right |-> counts[q].right + Increment(items, u, q, "right"),
                    wrong |-> counts[q].wrong + Increment(items, u, q, "wrong")]
  BY DEF Fitting
<1>3. counts[q].right = Given(q, "right") /\ counts[q].wrong = Given(q, "wrong")
  <2>1. counts[q] = [right |-> Given(q, "right"), wrong |-> Given(q, "wrong")]
    BY Zenon DEF CountersTellAnswers
  <2> QED
    BY <2>1
<1>4. Given(q, "right")' = Given(q, "right") + Increment(items, u, q, "right")
      /\ Given(q, "wrong")' = Given(q, "wrong") + Increment(items, u, q, "wrong")
  <2>1. "right" \in Marks /\ "wrong" \in Marks
    BY DEF Marks
  <2> QED
    BY <2>1, CommitGives, Zenon
<1> QED
  BY <1>1, <1>3, <1>4

LEMMA CommitTogether ==
  ASSUME Fitting(Over), NEW items \in Batches, NEW u \in Placings, NEW t \in Themes,
         NEW v \in Marks, seeded' = seeded,
         events' = [i \in Item |-> events[i] + Copies(items, i)],
         NEW under, under = QuestionsIn(u, t)
  PROVE  Together(under, v)' = Together(under, v) + Increment(items, u, t, v)
<1>0. under \subseteq Drills
  BY DEF QuestionsIn
<1> PICK f : f = [q \in under |-> Given(q, v)]
  BY Zenon
<1> PICK g : g = CopiesOf(items, under, v)
  OBVIOUS
<1> PICK h : h = [q \in under |-> Given(q, v)']
  BY Zenon
<1>1. \A q \in under : /\ Given(q, v) \in Int
                       /\ Given(q, v)' = Given(q, v) + Increment(items, u, q, v)
                       /\ Increment(items, u, q, v) = Copies(items, Key(q, v))
  BY <1>0, CommitGives, CountsOfQuestion
<1>3. \A q \in under : h[q] = f[q] + g[q]
  <2>1. \A q \in under : g[q] = Copies(items, Key(q, v))
    BY DEF CopiesOf
  <2> QED
    BY <1>1, <2>1
<1>4. \A q \in under : f[q] \in Int
  BY <1>1
<1>5. g \in [under -> Int] /\ Increment(items, u, t, v) = SumFunctionOnSet(g, under)
  BY CountsOfTopic
<1>6. f \in [under -> Int]
  BY <1>4
<1>7. \A q \in under : h[q] \in Int
  BY <1>3, <1>5, <1>6
<1>8. h \in [under -> Int]
  BY <1>7
<1>9. IsFiniteSet(under)
  BY <1>0, PracticeAssumption, FS_Subset
<1>10. SumFunctionOnSet(h, under) = SumFunctionOnSet(f, under) + SumFunctionOnSet(g, under)
  BY <1>3, <1>5, <1>6, <1>8, <1>9, SumPlus
<1>11. Together(under, v) = SumFunctionOnSet(f, under)
  BY DEF Together
<1>12. Together(under, v)' = SumFunctionOnSet(h, under)
  BY DEF Together
<1> QED
  BY <1>5, <1>10, <1>11, <1>12

LEMMA CommitTells ==
  ASSUME Fitting(Over), CountersTellAnswers, NEW items \in Batches, NEW u \in Placings,
         \A t \in Themes \ shuffled : QuestionsIn(u, t) = QuestionsIn(themeOf, t),
         UNCHANGED drillVars,
         events' = [i \in Item |-> events[i] + Copies(items, i)],
         counts' = [x \in DOMAIN counts |->
            [right |-> counts[x].right + Increment(items, u, x, "right"),
             wrong |-> counts[x].wrong + Increment(items, u, x, "wrong")]]
  PROVE  CountersTellAnswers'
<1>0. seeded' = seeded /\ themeOf' = themeOf /\ shuffled' = shuffled
  BY DEF drillVars
<1>1. \A q \in Drills :
        counts'[q] = [right |-> Given(q, "right")', wrong |-> Given(q, "wrong")']
  BY <1>0, CommitTellsQuestion, Zenon
<1>2. ASSUME NEW t \in Themes \ shuffled, NEW under, under = QuestionsIn(u, t)
      PROVE  counts'[t] = [right |-> Together(under, "right")',
                           wrong |-> Together(under, "wrong")']
  <2>1. counts'[t] = [right |-> counts[t].right + Increment(items, u, t, "right"),
                      wrong |-> counts[t].wrong + Increment(items, u, t, "wrong")]
    BY DEF Fitting
  <2>2. counts[t].right = Together(under, "right") /\ counts[t].wrong = Together(under, "wrong")
    <3>1. under = QuestionsIn(themeOf, t)
      BY <1>2
    <3>2. counts[t] = [right |-> Together(under, "right"), wrong |-> Together(under, "wrong")]
      BY <3>1, Zenon DEF CountersTellAnswers, QuestionsIn
    <3> QED
      BY <3>2
  <2>3. Together(under, "right")' = Together(under, "right") + Increment(items, u, t, "right")
        /\ Together(under, "wrong")' = Together(under, "wrong") + Increment(items, u, t, "wrong")
    BY <1>0, <1>2, CommitTogether DEF Marks
  <2> QED
    BY <2>1, <2>2, <2>3
<1>3. ASSUME NEW t \in Themes \ shuffled', NEW under, under = {q \in Drills : themeOf'[q] = t}
      PROVE  SumsUp(t, under)'
  <2>1. under = QuestionsIn(u, t) /\ t \in Themes \ shuffled
    BY <1>0, <1>3 DEF QuestionsIn
  <2> QED
    BY <1>2, <2>1, Zenon DEF SumsUp
<1> QED
  BY <1>1, <1>3, SumsTell, Zenon

LEMMA CommitFits ==
  ASSUME Fitting(Over), Over' = Over + 1, NEW items \in Batches, NEW u,
         events' = [i \in Item |-> events[i] + Copies(items, i)],
         counts' = [x \in DOMAIN counts |->
            [right |-> counts[x].right + Increment(items, u, x, "right"),
             wrong |-> counts[x].wrong + Increment(items, u, x, "wrong")]]
  PROVE  Fitting(Over)'
<1> PICK n \in Nat : n = Over
  BY DEF Fitting
<1>1. /\ n + 1 \in Nat
      /\ \A a \in Answerable(n) : \A b \in 0 .. MaxItems : a + b \in Answerable(n + 1)
      /\ \A a \in Recordable(n) : \A b \in 0 .. MaxItems : a + b \in Recordable(n + 1)
  BY MoreIsAnswerable
<1>2. \A i \in Item : Copies(items, i) \in 0 .. MaxItems
  BY BatchesAreFinite DEF Copies
<1>3. \A x, v : Increment(items, u, x, v) \in 0 .. MaxItems
  <2>1. \A x, v : CountedIn(items, u, x, v) \in SUBSET (DOMAIN items)
    BY DEF CountedIn
  <2> QED
    BY <2>1, BatchesAreFinite DEF Increment
<1>4. events' \in [Item -> Recordable(n + 1)]
  <2>1. \A i \in Item : events[i] \in Recordable(n)
    BY DEF Fitting
  <2> QED
    BY <1>1, <1>2, <2>1
<1>5. counts' \in [Drills \cup Themes -> [right : Answerable(n + 1), wrong : Answerable(n + 1)]]
  <2>1. DOMAIN counts = Drills \cup Themes
        /\ \A x \in Drills \cup Themes : /\ counts[x].right \in Answerable(n)
                                         /\ counts[x].wrong \in Answerable(n)
    BY DEF Fitting
  <2>2. \A x \in Drills \cup Themes :
          /\ counts[x].right + Increment(items, u, x, "right") \in Answerable(n + 1)
          /\ counts[x].wrong + Increment(items, u, x, "wrong") \in Answerable(n + 1)
    BY <1>1, <1>3, <2>1
  <2> QED
    BY <2>1, <2>2
<1>6. Over' = n + 1
  OBVIOUS
<1> QED
  BY <1>1, <1>4, <1>5, <1>6 DEF Fitting, Answerable, Recordable

LEMMA PracticeBegins == PracticeInit => PracticeInv
<1> SUFFICES ASSUME PracticeInit PROVE PracticeInv
  OBVIOUS
<1>1. requested = MaxRequested /\ MaxRequested \in Nat
  BY PracticeAssumption DEF PracticeInit
<1>2. \A r \in Requests : request[r] = NoCall
  BY DEF PracticeInit
<1>3. Over = 0
  <2>1. UnderWay = {}
    BY <1>2 DEF UnderWay
  <2> QED
    BY <1>1, <2>1, FS_EmptySet DEF Over
<1>4. Queueing
  <2>1. request = [r \in Requests |-> request[r]]
    BY DEF PracticeInit
  <2>2. \A r \in Requests : HeldOf(request[r]) = {}
    BY <1>2 DEF HeldOf, NoCall
  <2> QED
    BY <1>2, <2>1, <2>2 DEF Queueing, Asks
<1>5. Fitting(Over)
  <2>1. 0 \in Answerable(0) /\ {0, 1} \subseteq Recordable(0)
    BY PracticeAssumption DEF Answerable, Recordable
  <2> QED
    BY <1>3, <2>1 DEF Fitting, PracticeInit
<1>6. ASSUME NEW q \in Drills, NEW v \in Marks PROVE Given(q, v) = 0
  <2>1. Recorded(q, v) = events[Key(q, v)] /\ Key(q, v) \in Item
    BY KeysApart DEF Recorded, Key
  <2>2. Recorded(q, v) = IF \E p \in seeded : Key(q, v) = SeededAnswer(p) THEN 1 ELSE 0
    BY <2>1 DEF PracticeInit
  <2>3. \A p : Key(q, v) = SeededAnswer(p) <=> q = p /\ v = "right"
    BY DEF Key, SeededAnswer
  <2> QED
    BY <2>2, <2>3 DEF Given
<1>9. DrillsOK /\ served \subseteq Existing
  <2>1. themeOf \in Placings /\ \A q \in Drills : themeOf[q] \in Themes \cup {NoTheme}
    BY DEF PracticeInit, Placings
  <2>2. Existing = Drills
    BY <2>1, PracticeAssumption DEF Existing
  <2> QED
    BY <2>1, <2>2, PracticeAssumption DEF DrillsOK, PracticeInit
<1>10. ReadAbreast
  BY <1>2 DEF ReadAbreast, Abreast, NoCall
<1>7. ASSUME NEW under \in SUBSET Drills, NEW v \in Marks PROVE Together(under, v) = 0
  <2> PICK f : f = [q \in under |-> Given(q, v)]
    BY Zenon
  <2>1. \A q \in under : f[q] = 0
    BY <1>6
  <2>2. f \in [under -> Int] /\ \A q \in under : f[q] = f[q] + f[q]
    BY <2>1
  <2>3. IsFiniteSet(under)
    BY PracticeAssumption, FS_Subset
  <2>4. SumFunctionOnSet(f, under) \in Int
    BY <2>2, <2>3, SumIsInt
  <2>5. SumFunctionOnSet(f, under) = SumFunctionOnSet(f, under) + SumFunctionOnSet(f, under)
    BY <2>2, <2>3, SumPlus
  <2> PICK n \in Int : n = SumFunctionOnSet(f, under)
    BY <2>4
  <2>6. n = n + n
    BY <2>5, Zenon
  <2>7. n = 0
    <3>1. \A i \in Int : i = i + i => i = 0
      OBVIOUS
    <3> QED
      BY <2>6, <3>1, Zenon
  <2> QED
    BY <2>7 DEF Together
<1>8. CountersTellAnswers
  <2>1. \A x \in Drills \cup Themes : counts[x] = [right |-> 0, wrong |-> 0]
    BY DEF PracticeInit
  <2>2. \A q \in Drills :
          counts[q] = [right |-> Given(q, "right"), wrong |-> Given(q, "wrong")]
    BY <1>6, <2>1 DEF Marks
  <2>3. ASSUME NEW t \in Themes
        PROVE  counts[t] = [right |-> Together(QuestionsIn(themeOf, t), "right"),
                            wrong |-> Together(QuestionsIn(themeOf, t), "wrong")]
    <3>1. QuestionsIn(themeOf, t) \in SUBSET Drills
      BY DEF QuestionsIn
    <3>2. Together(QuestionsIn(themeOf, t), "right") = 0 /\ Together(QuestionsIn(themeOf, t), "wrong") = 0
      BY <1>7, <3>1 DEF Marks
    <3> QED
      BY <2>1, <3>2
  <2> QED
    BY <2>2, <2>3, Zenon DEF CountersTellAnswers, QuestionsIn
<1> QED
  BY <1>1, <1>4, <1>5, <1>8, <1>9, <1>10 DEF PracticeInv, PracticeInit

LEMMA CountersStill ==
  ASSUME CountersTellAnswers, UNCHANGED <<events, counts, themeOf, seeded, shuffled>>
  PROVE  CountersTellAnswers'
<1>1. events' = events /\ counts' = counts /\ themeOf' = themeOf /\ seeded' = seeded
      /\ shuffled' = shuffled
  OBVIOUS
<1> QED
  BY <1>1 DEF CountersTellAnswers, Recorded, Given, Together

LEMMA DrillsStay ==
  ASSUME DrillsOK, UNCHANGED drillVars
  PROVE  DrillsOK' /\ Existing' = Existing
  BY DEF DrillsOK, drillVars, Existing

\* The questions of a topic that is not shuffled stay, and what was answered of them.
LEMMA TopicsStill ==
  ASSUME CountersTellAnswers, NEW q \in Drills, NEW topics, Shuffle(topics), themeOf[q] \in topics,
         \A p \in Drills \ {q} : \A v \in Marks :
           themeOf'[p] = themeOf[p] /\ Given(p, v)' = Given(p, v),
         themeOf'[q] \in topics \/ themeOf'[q] \notin Themes,
         \A t \in Themes : counts'[t] = counts[t],
         \A p \in Drills : counts'[p] = [right |-> Given(p, "right")', wrong |-> Given(p, "wrong")']
  PROVE  /\ CountersTellAnswers'
         /\ \A t \in Themes \ shuffled' :
              t \notin shuffled /\ QuestionsIn(themeOf', t) = QuestionsIn(themeOf, t)
<1>1. ASSUME NEW t \in Themes \ shuffled'
      PROVE  /\ t \notin shuffled /\ QuestionsIn(themeOf', t) = QuestionsIn(themeOf, t)
             /\ q \notin QuestionsIn(themeOf, t)
  <2>1. \A p \in Drills \ {q} : themeOf'[p] = themeOf[p]
    BY DEF Marks
  <2>2. themeOf[q] # t /\ themeOf'[q] # t /\ t \notin shuffled
    BY <1>1 DEF Shuffle
  <2> QED
    BY <2>1, <2>2 DEF QuestionsIn
<1>2. ASSUME NEW t \in Themes \ shuffled', NEW v \in Marks, NEW under,
             under = QuestionsIn(themeOf, t)
      PROVE  Together(under, v)' = Together(under, v)
  <2>1. \A p \in under : Given(p, v)' = Given(p, v)
    BY <1>1, <1>2 DEF QuestionsIn
  <2>2. [p \in under |-> Given(p, v)'] = [p \in under |-> Given(p, v)]
    BY <2>1, Zenon
  <2> QED
    BY <2>2, Zenon DEF Together
<1>3. ASSUME NEW t \in Themes \ shuffled', NEW under, under = QuestionsIn(themeOf, t)
      PROVE  counts'[t] = [right |-> Together(under, "right")',
                           wrong |-> Together(under, "wrong")']
  <2>1. counts[t] = [right |-> Together(under, "right"), wrong |-> Together(under, "wrong")]
    BY <1>1, <1>3, Zenon DEF CountersTellAnswers, QuestionsIn
  <2>2. "right" \in Marks /\ "wrong" \in Marks
    BY DEF Marks
  <2>3. Together(under, "right")' = Together(under, "right")
        /\ Together(under, "wrong")' = Together(under, "wrong")
    BY <1>2, <1>3, <2>2, Zenon
  <2> QED
    BY <2>1, <2>3, Zenon
<1>4. ASSUME NEW t \in Themes \ shuffled', NEW under, under = {p \in Drills : themeOf'[p] = t}
      PROVE  SumsUp(t, under)'
  <2>1. under = QuestionsIn(themeOf, t)
    BY <1>1, <1>4 DEF QuestionsIn
  <2> QED
    BY <1>3, <2>1, Zenon DEF SumsUp
<1> QED
  BY <1>1, <1>4, SumsTell, Zenon

LEMMA QuestionMoves ==
  ASSUME PracticeInv, NEW q \in Drills, NEW t \in Themes, MoveQuestion(q, t)
  PROVE  PracticeInv'
<1>1. /\ themeOf' = [themeOf EXCEPT ![q] = t] /\ q \in Existing /\ Shuffle({themeOf[q], t})
      /\ changes < MaxChanges /\ changes' = changes + 1
      /\ UNCHANGED <<session, served, seeded, events, counts, request, requested>>
  BY DEF MoveQuestion, Change
<1>2. /\ themeOf' \in Placings /\ themeOf'[q] = t
      /\ \A p \in Drills \ {q} : themeOf'[p] = themeOf[p]
  BY <1>1 DEF PracticeInv, DrillsOK, Placings
<1>3. Existing' = Existing
  BY <1>1, <1>2, PracticeAssumption DEF Existing
<1>4. DrillsOK' /\ served' \subseteq Existing'
  <2>1. changes' \in 0 .. MaxChanges
    BY <1>1, PracticeAssumption DEF PracticeInv, DrillsOK
  <2> QED
    BY <1>1, <1>2, <1>3, <2>1 DEF PracticeInv, DrillsOK, Shuffle
<1>5. \A p \in Drills : \A v \in Marks : Given(p, v)' = Given(p, v)
  BY <1>1 DEF Given, Recorded
<1>6. \A p \in Drills : counts'[p] = [right |-> Given(p, "right")', wrong |-> Given(p, "wrong")']
  BY <1>1, <1>5 DEF Marks, PracticeInv, CountersTellAnswers
<1>7. /\ CountersTellAnswers'
      /\ \A x \in Themes \ shuffled' :
           x \notin shuffled /\ QuestionsIn(themeOf', x) = QuestionsIn(themeOf, x)
  <2>1. CountersTellAnswers /\ themeOf[q] \in {themeOf[q], t} /\ themeOf'[q] \in {themeOf[q], t}
        /\ \A x \in Themes : counts'[x] = counts[x]
    BY <1>1, <1>2 DEF PracticeInv
  <2> QED
    BY <1>1, <1>2, <1>5, <1>6, <2>1, TopicsStill, Zenon
<1>8. ReadAbreast'
  BY <1>1, <1>7, Zenon DEF PracticeInv, ReadAbreast, Abreast
<1>9. Queueing'
  BY <1>1 DEF PracticeInv, Queueing
<1>10. UnderWay' = UnderWay
  BY <1>1 DEF UnderWay
<1>11. Over' = Over
  BY <1>1, <1>10 DEF Over
<1>12. Fitting(Over)'
  BY <1>1, <1>11, FitsStill DEF PracticeInv
<1> QED
  BY <1>1, <1>4, <1>7, <1>8, <1>9, <1>12 DEF PracticeInv

LEMMA QuestionGoes ==
  ASSUME PracticeInv, NEW q \in Drills, DeleteQuestion(q)
  PROVE  PracticeInv'
<1>1. /\ themeOf' = [themeOf EXCEPT ![q] = NoDrill] /\ q \in Existing /\ Shuffle({themeOf[q]})
      /\ changes < MaxChanges /\ changes' = changes + 1
      /\ served' = served \ {q} /\ seeded' = seeded \ {q}
      /\ events' = [i \in Item |-> IF i.question = q THEN 0 ELSE events[i]]
      /\ counts' = [counts EXCEPT ![q] = [right |-> 0, wrong |-> 0]]
      /\ UNCHANGED <<session, request, requested>>
  BY DEF DeleteQuestion, Change
<1>2. /\ themeOf' \in Placings /\ themeOf'[q] = NoDrill
      /\ \A p \in Drills \ {q} : themeOf'[p] = themeOf[p]
  BY <1>1 DEF PracticeInv, DrillsOK, Placings
<1>3. Existing' = Existing \ {q}
  BY <1>1, <1>2 DEF Existing
<1>4. DrillsOK' /\ served' \subseteq Existing'
  <2>1. changes' \in 0 .. MaxChanges
    BY <1>1, PracticeAssumption DEF PracticeInv, DrillsOK
  <2> QED
    BY <1>1, <1>2, <1>3, <2>1 DEF PracticeInv, DrillsOK, Shuffle
<1>5. /\ counts'[q] = [right |-> 0, wrong |-> 0]
      /\ \A x \in (Drills \cup Themes) \ {q} : counts'[x] = counts[x]
  BY <1>1 DEF PracticeInv, Fitting
<1>6. ASSUME NEW p \in Drills, NEW v \in Marks
      PROVE  Given(p, v)' = IF p = q THEN 0 ELSE Given(p, v)
  <2>1. Key(p, v) \in Item /\ Key(p, v).question = p
    BY KeysApart DEF Key
  <2>2. Recorded(p, v)' = events'[Key(p, v)] /\ Recorded(p, v) = events[Key(p, v)]
    BY DEF Recorded, Key
  <2>3. Recorded(p, v)' = IF p = q THEN 0 ELSE Recorded(p, v)
    BY <1>1, <2>1, <2>2
  <2>4. p \in seeded' <=> p # q /\ p \in seeded
    BY <1>1
  <2> QED
    BY <2>3, <2>4 DEF Given
<1>7. \A p \in Drills : counts'[p] = [right |-> Given(p, "right")', wrong |-> Given(p, "wrong")']
  <2>1. \A p \in Drills : counts[p] = [right |-> Given(p, "right"), wrong |-> Given(p, "wrong")]
    BY Zenon DEF PracticeInv, CountersTellAnswers
  <2> QED
    BY <1>5, <1>6, <2>1 DEF Marks
<1>8. /\ CountersTellAnswers'
      /\ \A x \in Themes \ shuffled' :
           x \notin shuffled /\ QuestionsIn(themeOf', x) = QuestionsIn(themeOf, x)
  <2>1. CountersTellAnswers /\ themeOf[q] \in {themeOf[q]} /\ themeOf'[q] \notin Themes
        /\ \A x \in Themes : counts'[x] = counts[x]
    BY <1>2, <1>5, PracticeAssumption DEF PracticeInv
  <2>2. \A p \in Drills \ {q} : \A v \in Marks :
          themeOf'[p] = themeOf[p] /\ Given(p, v)' = Given(p, v)
    BY <1>2, <1>6
  <2> QED
    BY <1>1, <1>7, <2>1, <2>2, TopicsStill, Zenon
<1>9. ReadAbreast'
  BY <1>1, <1>8, Zenon DEF PracticeInv, ReadAbreast, Abreast
<1>10. Queueing'
  BY <1>1 DEF PracticeInv, Queueing
<1>11. UnderWay' = UnderWay
  BY <1>1 DEF UnderWay
<1>12. Over' = Over
  BY <1>1, <1>11 DEF Over
<1>13. Fitting(Over)'
  <2> PICK n \in Nat : n = Over
    BY DEF PracticeInv, Fitting
  <2>1. 0 \in Answerable(n) /\ 0 \in Recordable(n)
    BY MoreIsAnswerable
  <2>2. /\ events \in [Item -> Recordable(n)]
        /\ counts \in [Drills \cup Themes -> [right : Answerable(n), wrong : Answerable(n)]]
    BY DEF PracticeInv, Fitting
  <2>3. events' \in [Item -> Recordable(n)]
    BY <1>1, <2>1, <2>2
  <2>4. counts' \in [Drills \cup Themes -> [right : Answerable(n), wrong : Answerable(n)]]
    BY <1>1, <2>1, <2>2
  <2> QED
    BY <1>12, <2>3, <2>4 DEF Fitting, Answerable, Recordable
<1> QED
  BY <1>1, <1>4, <1>8, <1>9, <1>10, <1>13 DEF PracticeInv

LEMMA PracticeStep ==
  PracticeInv /\ [PracticeNext]_pvars => PracticeInv'
<1> SUFFICES ASSUME PracticeInv, [PracticeNext]_pvars PROVE PracticeInv'
  OBVIOUS
<1>0. /\ session \in {"none", "ACTIVE", "ENDED"} /\ served \subseteq Existing /\ DrillsOK
      /\ requested \in 0 .. MaxRequested
      /\ Queueing /\ ReadAbreast /\ Fitting(Over) /\ CountersTellAnswers /\ Over \in Nat
  BY DEF PracticeInv, Fitting
<1>30. ASSUME UNCHANGED drillVars
       PROVE  /\ DrillsOK' /\ Existing' = Existing
              /\ UNCHANGED <<themeOf, seeded, shuffled>>
  BY <1>0, <1>30, DrillsStay DEF drillVars
<1>1. ASSUME session' \in {"none", "ACTIVE", "ENDED"},
             UNCHANGED <<served, drillVars, events, counts, request, requested>>
      PROVE  PracticeInv'
  <2>1. Queueing'
    BY <1>0, <1>1 DEF Queueing
  <2>2. UnderWay' = UnderWay
    BY <1>1 DEF UnderWay
  <2>3. Over' = Over
    BY <1>1, <2>2 DEF Over
  <2>4. Fitting(Over)'
    BY <1>0, <1>1, <2>3, FitsStill
  <2>5. ReadAbreast'
    BY <1>0, <1>1, <1>30 DEF ReadAbreast, Abreast
  <2> QED
    BY <1>0, <1>1, <1>30, <2>1, <2>4, <2>5, CountersStill DEF PracticeInv
<1>2. ASSUME NEW r \in Requests, NEW call, call # NoCall, Asks(call), HeldOf(call) = {},
             Abreast(call), BeginRequest(r, call),
             UNCHANGED <<session, served, drillVars, events, counts>>
      PROVE  PracticeInv'
  <2>1. Queueing' /\ request'[r] = call /\ \A o \in Requests \ {r} : request'[o] = request[o]
    BY <1>0, <1>2, QueueMoves, Zenon DEF BeginRequest
  <2>2. Over' = Over
    BY <1>0, <1>2, <2>1, OverMoves DEF BeginRequest
  <2>3. Fitting(Over)'
    BY <1>0, <1>2, <2>2, FitsStill
  <2>4. requested' \in 0 .. MaxRequested
    BY <1>0, <1>2, PracticeAssumption DEF BeginRequest
  <2>5. ReadAbreast'
    BY <1>0, <1>2, <2>1, AbreastStays
  <2> QED
    BY <1>0, <1>2, <1>30, <2>1, <2>3, <2>4, <2>5, CountersStill DEF PracticeInv
<1>3. ASSUME NEW r \in Requests, request[r] # NoCall, EndRequest(r), requested' = requested,
             UNCHANGED drillVars
      PROVE  Queueing' /\ Over' = Over + 1 /\ ReadAbreast'
  <2>1. Asks(NoCall) /\ HeldOf(NoCall) = {}
    BY DEF Asks, HeldOf, NoCall
  <2>2. Queueing' /\ request'[r] = NoCall /\ \A o \in Requests \ {r} : request'[o] = request[o]
    BY <1>0, <1>3, <2>1, QueueMoves, Zenon DEF EndRequest
  <2>3. Abreast(request'[r])
    BY <2>2 DEF Abreast, NoCall
  <2>4. ReadAbreast'
    BY <1>0, <1>3, <2>2, <2>3, AbreastStays
  <2> QED
    BY <1>0, <1>3, <2>2, <2>4, OverMoves
<1>4. ASSUME NEW r \in Requests, request[r] # NoCall, EndRequest(r), served' \subseteq Existing,
             UNCHANGED <<session, drillVars, events, counts, requested>>
      PROVE  PracticeInv'
  <2>1. Queueing' /\ Over' = Over + 1 /\ ReadAbreast'
    BY <1>3, <1>4
  <2>2. Fitting(Over)'
    BY <1>0, <1>4, <2>1, FitsStill
  <2> QED
    BY <1>0, <1>4, <1>30, <2>1, <2>2, CountersStill DEF PracticeInv
<1>5. CASE Start \/ End
  BY <1>1, <1>5 DEF Start, End
<1>6. ASSUME NEW r \in Requests, BeginServe(r) PROVE PracticeInv'
  <2> DEFINE call == [pc |-> "serving"]
  <2>1. call # NoCall /\ Asks(call) /\ HeldOf(call) = {} /\ Abreast(call)
    BY DEF NoCall, Asks, HeldOf, Abreast
  <2>2. BeginRequest(r, call) /\ UNCHANGED <<session, served, drillVars, events, counts>>
    BY <1>6 DEF BeginServe
  <2> HIDE DEF call
  <2> QED
    BY <1>2, <2>1, <2>2
<1>7. ASSUME NEW r \in Requests, NEW items \in Batches, BeginAnswers(r, items)
      PROVE  PracticeInv'
  <2> DEFINE call == [pc |-> "reading", items |-> items, topics |-> themeOf, held |-> {}]
  <2>1. call # NoCall /\ HeldOf(call) = {}
    BY DEF NoCall, HeldOf
  <2>3. Abreast(call)
    BY DEF Abreast
  <2>4. Asks(call)
    <3>1. themeOf \in Placings /\ "reading" \in {"reading", "taking"}
      BY <1>0 DEF DrillsOK
    <3> QED
      BY <3>1, Zenon DEF Asks
  <2>2. BeginRequest(r, call) /\ UNCHANGED <<session, served, drillVars, events, counts>>
    BY <1>7 DEF BeginAnswers
  <2> HIDE DEF call
  <2> QED
    BY <1>2, <2>1, <2>2, <2>3, <2>4
<1>8. ASSUME NEW r \in Requests, NEW S \in SUBSET Drills, Serve(r, S) PROVE PracticeInv'
  BY <1>4, <1>8 DEF Serve, NoCall, Chosen
<1>9. ASSUME NEW r \in Requests, FailPractice(r) PROVE PracticeInv'
  BY <1>0, <1>4, <1>9 DEF FailPractice
<1>10. ASSUME NEW r \in Requests, request[r].pc \in {"reading", "taking"}
       PROVE  /\ \E items \in Batches, u \in Placings : \E held :
                   request[r] = [pc |-> request[r].pc, items |-> items, topics |-> u, held |-> held]
              /\ \A t \in Themes \ shuffled :
                   QuestionsIn(request[r].topics, t) = QuestionsIn(themeOf, t)
  BY <1>0, <1>10 DEF Queueing, Asks, NoCall, ReadAbreast, Abreast
<1>11. ASSUME NEW r \in Requests, NEW call, Asks(call), call # NoCall, request[r] # NoCall,
              Abreast(call), \A o \in Requests \ {r} : HeldOf(call) \cap HeldOf(request[o]) = {},
              request' = [request EXCEPT ![r] = call],
              UNCHANGED <<session, served, drillVars, events, counts, requested>>
       PROVE  PracticeInv'
  <2>1. Queueing' /\ request'[r] = call /\ \A o \in Requests \ {r} : request'[o] = request[o]
    BY <1>0, <1>11, QueueMoves, Zenon
  <2>2. Over' = Over
    BY <1>0, <1>11, <2>1, OverMoves
  <2>3. Fitting(Over)'
    BY <1>0, <1>11, <2>2, FitsStill
  <2>4. ReadAbreast'
    BY <1>0, <1>11, <2>1, AbreastStays
  <2> QED
    BY <1>0, <1>11, <1>30, <2>1, <2>3, <2>4, CountersStill DEF PracticeInv
<1>12. ASSUME NEW r \in Requests, NEW items \in Batches,
              NEW u \in Placings, NEW held,
              request[r] = [pc |-> request[r].pc, items |-> items, topics |-> u, held |-> held],
              request[r].pc \in {"reading", "taking"}, NEW more,
              \A o \in Requests \ {r} : more \cap HeldOf(request[o]) = {},
              request' = [request EXCEPT ![r] = [pc |-> "taking", items |-> items,
                                                 topics |-> u, held |-> more]],
              UNCHANGED <<session, served, drillVars, events, counts, requested>>
       PROVE  PracticeInv'
  <2> PICK call : call = [pc |-> "taking", items |-> items, topics |-> u, held |-> more]
    BY Zenon
  <2>1. request' = [request EXCEPT ![r] = call]
    BY <1>12, Zenon
  <2>2. Asks(call)
    <3>1. "taking" \in {"reading", "taking"}
      OBVIOUS
    <3> QED
      BY <3>1, Zenon DEF Asks
  <2>3. call.pc = "taking" /\ call.held = more /\ call.topics = u /\ NoCall.pc = "away"
    BY DEF NoCall
  <2>4. request[r].topics = u
    BY <1>12
  <2>5. call # NoCall /\ request[r] # NoCall /\ HeldOf(call) = more
    BY <1>12, <2>3 DEF HeldOf
  <2>6. Abreast(call)
    BY <1>10, <1>12, <2>3, <2>4 DEF Abreast
  <2>7. \A o \in Requests \ {r} : HeldOf(call) \cap HeldOf(request[o]) = {}
    BY <1>12, <2>5
  <2> QED
    BY <1>11, <1>12, <2>1, <2>2, <2>5, <2>6, <2>7, Zenon
<1>15. ASSUME NEW r \in Requests, WriteEvents(r) PROVE PracticeInv'
  <2>1. /\ request[r].pc = "reading" /\ request' = [request EXCEPT ![r].pc = "taking"]
        /\ UNCHANGED <<session, served, drillVars, events, counts, requested>>
    BY <1>15 DEF WriteEvents
  <2>2. PICK items \in Batches, u \in Placings : \E held :
          request[r] = [pc |-> request[r].pc, items |-> items, topics |-> u, held |-> held]
    BY <1>10, <2>1
  <2> PICK held :
        request[r] = [pc |-> request[r].pc, items |-> items, topics |-> u, held |-> held]
    BY <2>2, Zenon
  <2>6. request[r] = [pc |-> request[r].pc, items |-> items, topics |-> u, held |-> held]
        /\ request[r].pc \in {"reading", "taking"}
    BY <2>1
  <2>3. [request[r] EXCEPT !.pc = "taking"]
          = [pc |-> "taking", items |-> items, topics |-> u, held |-> held]
    BY <2>2
  <2>4. request' = [request EXCEPT ![r] = [pc |-> "taking", items |-> items, topics |-> u,
                                           held |-> held]]
    BY <2>1, <2>3, Zenon
  <2>5. held = {}
    BY <1>0, <2>1, <2>2 DEF ReadAbreast, Abreast
  <2>7. ASSUME NEW o \in Requests \ {r} PROVE held \cap HeldOf(request[o]) = {}
    BY <2>5
  <2>8. UNCHANGED <<session, served, drillVars, events, counts, requested>>
    BY <2>1
  <2>9. request[r].pc \in {"reading", "taking"}
    BY <2>1
  <2>10. request[r] = [pc |-> request[r].pc, items |-> items, topics |-> u, held |-> held]
    BY <2>6
  <2> HIDE <2>6
  <2> QED
    BY <1>12, <2>4, <2>7, <2>8, <2>9, <2>10
<1>16. ASSUME NEW r \in Requests, TakeRow(r) PROVE PracticeInv'
  <2>1. PICK items \in Batches, u \in Placings : \E held :
          request[r] = [pc |-> request[r].pc, items |-> items, topics |-> u, held |-> held]
    BY <1>10, <1>16 DEF TakeRow
  <2> PICK held :
        request[r] = [pc |-> request[r].pc, items |-> items, topics |-> u, held |-> held]
    BY <2>1, Zenon
  <2>2. PICK row : /\ \A o \in Requests \ {r} : row \notin Held(o)
                   /\ request' = [request EXCEPT ![r].held = @ \cup {row}]
    BY <1>16, Zenon DEF TakeRow
  <2>3. request[r].pc = "taking" /\ UNCHANGED <<session, served, drillVars, events, counts, requested>>
    BY <1>16 DEF TakeRow
  <2>4. [request[r] EXCEPT !.held = @ \cup {row}]
          = [pc |-> "taking", items |-> items, topics |-> u, held |-> held \cup {row}]
    BY <2>1, <2>3
  <2>5. request' = [request EXCEPT ![r] = [pc |-> "taking", items |-> items, topics |-> u,
                                           held |-> held \cup {row}]]
    BY <2>2, <2>4, Zenon
  <2>6. HeldOf(request[r]) = held
    BY <2>1, <2>3 DEF HeldOf
  <2>7. ASSUME NEW o \in Requests \ {r} PROVE (held \cup {row}) \cap HeldOf(request[o]) = {}
    <3>1. HeldOf(request[r]) \cap HeldOf(request[o]) = {}
      BY <1>0 DEF Queueing
    <3>2. row \notin HeldOf(request[o])
      BY <2>2, HeldIsHeldOf
    <3> QED
      BY <2>6, <3>1, <3>2
  <2> QED
    BY <1>12, <2>1, <2>3, <2>5, <2>7
<1>13. ASSUME NEW r \in Requests, CommitAnswers(r) PROVE PracticeInv'
  <2>0. request[r].pc \in {"reading", "taking"}
    BY <1>13 DEF CommitAnswers
  <2>1. PICK items \in Batches, u \in Placings : \E held :
          request[r] = [pc |-> request[r].pc, items |-> items, topics |-> u, held |-> held]
    BY <1>10, <2>0
  <2>2. request[r].items = items /\ request[r].topics = u /\ request[r] # NoCall
    BY <2>0, <2>1 DEF NoCall
  <2>3. /\ events' = [i \in Item |-> events[i] + Copies(items, i)]
        /\ counts' = [x \in DOMAIN counts |->
             [right |-> counts[x].right + Increment(items, u, x, "right"),
              wrong |-> counts[x].wrong + Increment(items, u, x, "wrong")]]
        /\ EndRequest(r) /\ UNCHANGED <<session, served, drillVars, requested>>
    BY <1>13, <2>2 DEF CommitAnswers
  <2>4. Queueing' /\ Over' = Over + 1 /\ ReadAbreast'
    BY <1>3, <2>2, <2>3
  <2>5. Fitting(Over)'
    BY <1>0, <2>3, <2>4, CommitFits
  <2>7. \A t \in Themes \ shuffled : QuestionsIn(u, t) = QuestionsIn(themeOf, t)
    BY <1>10, <2>0, <2>2
  <2>6. CountersTellAnswers'
    BY <1>0, <2>3, <2>7, CommitTells
  <2> QED
    BY <1>0, <1>30, <2>3, <2>4, <2>5, <2>6 DEF PracticeInv
<1>14. CASE UNCHANGED pvars
  BY <1>0, <1>1, <1>14 DEF pvars, drillVars
<1>17. CASE \E q \in Drills : DeleteQuestion(q) \/ \E t \in Themes : MoveQuestion(q, t)
  BY <1>17, QuestionMoves, QuestionGoes
<1> QED
  BY <1>5, <1>6, <1>7, <1>8, <1>9, <1>13, <1>14, <1>15, <1>16, <1>17 DEF PracticeNext

\* Every answer counted is one of a request that is over, of which there are so many.
LEMMA PracticeTells == PracticeInv => PracticeTypeOK /\ CountersTellAnswers
<1> SUFFICES ASSUME PracticeInv PROVE PracticeTypeOK /\ CountersTellAnswers
  OBVIOUS
<1> PICK n \in Nat : n = Over
  BY DEF PracticeInv, Fitting
<1>1. IsFiniteSet(UnderWay)
  BY PracticeAssumption, FS_Subset DEF UnderWay
<1>2. Cardinality(UnderWay) \in Nat
  BY <1>1, FS_CardinalityType
<1>3. n <= MaxRequested /\ MaxRequested \in Nat /\ MaxItems \in Nat
  BY <1>2, PracticeAssumption DEF PracticeInv, Over
<1>4. MaxItems * n <= MaxRequested * MaxItems
  <2>1. \A a, b, c \in Nat : a <= b => c * a <= b * c
    OBVIOUS
  <2> QED
    BY <1>3, <2>1
<1>5. MaxItems * n \in Nat /\ MaxRequested * MaxItems \in Nat
  BY <1>3
<1>6. /\ Answerable(n) \subseteq 0 .. MaxRequested * MaxItems
      /\ Recordable(n) \subseteq 0 .. MaxRequested * MaxItems + 1
  BY <1>4, <1>5 DEF Answerable, Recordable
<1>7. /\ events \in [Item -> 0 .. MaxRequested * MaxItems + 1]
      /\ counts \in [Drills \cup Themes -> [right : 0 .. MaxRequested * MaxItems,
                                           wrong : 0 .. MaxRequested * MaxItems]]
  BY <1>6 DEF PracticeInv, Fitting
<1>8. /\ \A r \in Requests : request[r].pc \in {"away", "serving", "reading", "taking"}
      /\ \A r, o \in Requests : r # o => Held(r) \cap Held(o) = {}
  BY HeldIsHeldOf DEF PracticeInv, Queueing, Asks, NoCall
<1> QED
  BY <1>7, <1>8 DEF PracticeInv, PracticeTypeOK, DrillsOK, Placings

(***************************************************************************)
(* Terms                                                                   *)
(***************************************************************************)

\* The same start, and an end no later.
Shortened(d, e) ==
  /\ d.from = e.from
  /\ d.to = e.to \/ (d.to # Never /\ Beyond(e.to, d.to))

\* Days end by day x: x is no sooner than their end.
LEMMA LaterIsPast ==
  \A end \in Nat \cup {Never}, x, y \in Nat : ~Beyond(end, x) /\ x <= y => ~Beyond(end, y)
BY TermsAssumption DEF Beyond

LEMMA CutDays ==
  ASSUME NEW d \in Interval, NEW day \in Nat
  PROVE  /\ Cut(d, day) \in Interval
         /\ Shortened(Cut(d, day), d)
         /\ ~Beyond(Cut(d, day).to, day)
         /\ Cut(d, day) = d \/ (Cut(d, day).to = day /\ Beyond(d.to, day))
         /\ ~Beyond(d.to, day) => Cut(d, day) = d
BY TermsAssumption DEF Cut, Beyond, Interval, Shortened

LEMMA ShortenedEnds ==
  ASSUME NEW d \in Interval, NEW e \in Interval, Shortened(d, e)
  PROVE  \A x \in Nat : ~Beyond(e.to, x) => ~Beyond(d.to, x)
BY TermsAssumption DEF Beyond, Interval, Shortened

LEMMA ShortenedAgain ==
  ASSUME NEW d \in Interval, NEW e \in Interval, NEW f \in Interval,
         Shortened(d, e), Shortened(e, f)
  PROVE  Shortened(d, f)
BY TermsAssumption DEF Beyond, Interval, Shortened

LEMMA ShortenedDisjoint ==
  ASSUME NEW c \in Interval, NEW d \in Interval, NEW e \in Interval, NEW f \in Interval,
         Shortened(c, d), Shortened(e, f), Disjoint(d, f)
  PROVE  Disjoint(c, e)
BY TermsAssumption DEF Beyond, Interval, Shortened, Disjoint

LEMMA ShortenedSelf == \A d : Shortened(d, d)
BY DEF Shortened

\* Whose days are written, and how far they have come.
SpansOK ==
  \A p \in Purchases :
    /\ subscription[p] = "none" => span[p] = NoDays /\ rights[p] = NoDays /\ term[p] = NoDays
    /\ subscription[p] = "ACTIVE" => span[p] = term[p]
    /\ subscription[p] = "EXPIRED" => ~Beyond(span[p].to, clock)
    /\ Shortened(span[p], term[p])

\* What an activation and the daily job have read.
BuyingOK ==
  \A p \in Purchases :
    /\ buying[p].pc = "idle" \/ Computed(p) => subscription[p] = "none"
    /\ buying[p].pc = "entitling" => subscription[p] # "none" /\ rights[p] = NoDays
    /\ buying[p].now <= clock /\ buying[p].now <= buying[p].from
    /\ \A q \in buying[p].doomed : subscription[q] # "none"
    /\ buying[p].doomed # {} =>
         buying[p].pc \in {"replacing", "closing"} /\ buying[p].from = buying[p].now
    /\ buying[p].pc = "closing" =>
         \A q \in buying[p].doomed :
           subscription[q] = "EXPIRED" /\ ~Beyond(span[q].to, buying[p].now)
ExpiryOK ==
  /\ expiry.now <= clock
  /\ \A p \in expiry.ids : subscription[p] # "none" /\ ~Beyond(term[p].to, expiry.now)

\* Whoever has computed his days with all there is in view starts after all he will not
\* replace.
Ahead ==
  \A p \in Purchases \ blind : Computed(p) =>
    \A q \in Purchases : subscription[q] # "none" =>
      \/ buying[p].pc = "replacing" /\ q \in buying[p].doomed
      \/ ~Beyond(span[q].to, buying[p].from)

\* Somebody has cut the days of p and not yet its entitlements.
Pending(p) ==
  \E r \in Purchases :
    buying[r].pc = "closing" /\ p \in buying[r].doomed /\ span[p].to = buying[r].now

\* Entitlements are for the days of the subscription, or about to be cut, or to be made.
RightsOK ==
  \A p \in Purchases :
    /\ rights[p] = NoDays \/ Shortened(rights[p], term[p])
    /\ p \notin halved =>
         IF buying[p].pc = "entitling" THEN span[p] = term[p] \/ Pending(p)
         ELSE /\ Shortened(span[p], rights[p])
              /\ rights[p] = span[p] \/ Pending(p)

TermsInv ==
  /\ TermsTypeOK
  /\ SpansOK /\ BuyingOK /\ ExpiryOK
  /\ Ahead /\ DaysAddUp
  /\ RightsOK

LEMMA TermsBegin == TermsInit => TermsInv
<1> SUFFICES ASSUME TermsInit PROVE TermsInv
  OBVIOUS
<1> USE TermsAssumption DEF TermsInit, NoDays, NotAsked, Asleep
<1>1. TermsTypeOK
  BY DEF TermsTypeOK, Interval
<1>2. SpansOK /\ BuyingOK /\ ExpiryOK
  BY DEF SpansOK, BuyingOK, ExpiryOK, Shortened, Computed
<1>3. Ahead
  BY DEF Ahead, Computed
<1>4. DaysAddUp
  BY DEF DaysAddUp, Disjoint
<1>5. RightsOK
  BY DEF RightsOK, Shortened
<1> QED
  BY <1>1, <1>2, <1>3, <1>4, <1>5 DEF TermsInv

LEMMA TermsTell == TermsInv => TermsTypeOK /\ DaysAddUp /\ RightsFollowTerms
<1> SUFFICES ASSUME TermsInv, NEW p \in Purchases, Settled(p)
             PROVE  rights[p] = span[p] /\ (subscription[p] = "ACTIVE" => rights[p] = term[p])
  BY DEF TermsInv, RightsFollowTerms
<1>1. ~Pending(p)
  BY DEF Settled, Pending
<1> QED
  BY <1>1 DEF Settled, TermsInv, RightsOK, SpansOK

\* A new day.
LEMMA TermsDay == TermsInv /\ NewDay => TermsInv'
<1> SUFFICES ASSUME TermsInv, NewDay PROVE TermsInv'
  OBVIOUS
<1> USE DEF TermsInv, NewDay
<1>1. TermsTypeOK'
  BY TermsAssumption DEF TermsTypeOK
<1>2. clock \in Nat /\ clock' \in Nat /\ clock <= clock'
  BY DEF TermsTypeOK
<1>3. \A p \in Purchases : span[p].to \in Nat \cup {Never}
  BY DEF TermsTypeOK, Interval
<1>4. SpansOK'
  BY <1>2, <1>3, LaterIsPast DEF SpansOK
<1>5. BuyingOK' /\ ExpiryOK'
  BY <1>2 DEF BuyingOK, ExpiryOK, Computed, TermsTypeOK
<1>6. Ahead' /\ DaysAddUp' /\ RightsOK'
  BY DEF Ahead, DaysAddUp, RightsOK, Computed, Pending
<1> QED
  BY <1>1, <1>4, <1>5, <1>6

\* Reading what runs.
LEMMA TermsRead ==
  ASSUME TermsInv, NEW p \in Purchases, NEW stacking \in BOOLEAN, NEW from,
         ReadRunning(p, stacking, from)
  PROVE  TermsInv'
<1> DEFINE subs == Running(clock)
           stacks == CanStackOn(stacking, subs)
           doomed == IF stacks THEN {} ELSE subs
           call == [pc |-> IF doomed = {} THEN "creating" ELSE "replacing",
                    now |-> clock, from |-> from, doomed |-> doomed]
<1> USE DEF TermsInv
<1>1. /\ buying[p].pc = "idle" /\ buying' = [buying EXCEPT ![p] = call]
      /\ StartsAt(IF stacks THEN subs ELSE {}, clock, from)
      /\ UNCHANGED <<clock, subscription, term, rights, expiry, mishaps, span, blind, halved>>
  BY DEF ReadRunning
<1>2. /\ subs \subseteq Purchases
      /\ \A q \in subs : /\ subscription[q] = "ACTIVE" /\ Beyond(term[q].to, clock)
                         /\ span[q] = term[q] /\ term[q].to \in Nat \cup {Never}
  BY DEF Running, SpansOK, TermsTypeOK, Interval
<1>3. clock \in Nat
  BY DEF TermsTypeOK
<1>4. from \in Nat /\ clock <= from
  <2>1. CASE stacks /\ subs # {}
    <3>1. PICK q \in subs : from = term[q].to
      BY <1>1, <2>1 DEF StartsAt
    <3>2. term[q].to # Never /\ Beyond(term[q].to, clock) /\ term[q].to \in Nat \cup {Never}
      BY <1>2, <2>1 DEF CanStackOn
    <3> QED
      BY <1>3, <3>1, <3>2 DEF Beyond
  <2>2. CASE ~(stacks /\ subs # {})
    BY <1>1, <1>3, <2>2 DEF StartsAt
  <2> QED
    BY <2>1, <2>2
<1>5. doomed \subseteq subs /\ (doomed # {} => from = clock)
  BY <1>1 DEF StartsAt
<1>6. ASSUME NEW q \in Purchases, subscription[q] # "none", q \notin doomed
      PROVE  ~Beyond(span[q].to, from)
  <2>1. span[q].to \in Nat \cup {Never}
    BY DEF TermsTypeOK, Interval
  <2>2. CASE q \in subs
    <3>1. stacks
      BY <1>6, <2>2
    <3>2. term[q].to # Never /\ span[q] = term[q]
      BY <1>2, <2>2, <3>1 DEF CanStackOn
    <3>3. term[q].to <= from
      BY <1>1, <2>2, <3>1 DEF StartsAt
    <3> QED
      BY <1>4, <2>1, <3>2, <3>3 DEF Beyond
  <2>3. CASE q \notin subs
    <3>1. ~Beyond(span[q].to, clock)
      BY <1>6, <2>3 DEF Running, SpansOK, TermsTypeOK
    <3> QED
      BY <1>3, <1>4, <2>1, <3>1, LaterIsPast
  <2> QED
    BY <2>2, <2>3
<1>7. /\ call \in [pc : {"replacing", "creating"}, now : Nat, from : Nat, doomed : SUBSET Purchases]
      /\ call.now = clock /\ call.from = from /\ call.doomed = doomed
      /\ call.pc = "creating" => doomed = {}
      /\ call.pc = "replacing" \/ call.pc = "creating"
  <2>1. doomed \in SUBSET Purchases
    BY <1>2, <1>5
  <2> QED
    BY <1>3, <1>4, <2>1
<1>8. \A q \in doomed : subscription[q] = "ACTIVE"
  BY <1>2, <1>5
<1> HIDE DEF call, doomed, stacks, subs
<1>9. buying'[p] = call /\ \A q \in Purchases \ {p} : buying'[q] = buying[q]
  BY <1>1 DEF TermsTypeOK
<1>10. TermsTypeOK'
  <2>1. buying' \in [Purchases ->
          [pc : {"idle", "replacing", "closing", "creating", "entitling", "over"},
           now : Nat, from : Nat, doomed : SUBSET Purchases]]
    BY <1>1, <1>7 DEF TermsTypeOK
  <2> QED
    BY <1>1, <2>1 DEF TermsTypeOK
<1>11. SpansOK' /\ ExpiryOK' /\ DaysAddUp'
  BY <1>1 DEF SpansOK, ExpiryOK, DaysAddUp
<1>12. BuyingOK'
  <2>1. subscription[p] = "none"
    BY <1>1 DEF BuyingOK
  <2> QED
    BY <1>1, <1>3, <1>4, <1>5, <1>7, <1>8, <1>9, <2>1 DEF BuyingOK, Computed
<1>13. Ahead'
  <2>1. ASSUME NEW r \in Purchases \ blind, Computed(r)', NEW q \in Purchases,
               subscription[q] # "none"
        PROVE  \/ buying'[r].pc = "replacing" /\ q \in buying'[r].doomed
               \/ ~Beyond(span[q].to, buying'[r].from)
    <3>1. CASE r = p
      BY <1>6, <1>7, <1>9, <2>1, <3>1
    <3>2. CASE r # p
      BY <1>9, <2>1, <3>2 DEF Ahead, Computed
    <3> QED
      BY <3>1, <3>2
  <2> QED
    BY <1>1, <2>1 DEF Ahead
<1>14. RightsOK'
  <2>1. \A q \in Purchases : Pending(q) => Pending(q)'
    <3>1. ASSUME NEW q \in Purchases, NEW r \in Purchases, buying[r].pc = "closing",
                 q \in buying[r].doomed, span[q].to = buying[r].now
          PROVE  Pending(q)'
      <4>1. buying'[r] = buying[r]
        BY <1>1, <1>9, <3>1
      <4> QED
        BY <1>1, <3>1, <4>1 DEF Pending
    <3> QED
      BY <3>1 DEF Pending
  <2>2. \A q \in Purchases : buying'[q].pc = "entitling" <=> buying[q].pc = "entitling"
    BY <1>1, <1>7, <1>9
  <2> QED
    BY <1>1, <2>1, <2>2 DEF RightsOK
<1> QED
  BY <1>10, <1>11, <1>12, <1>13, <1>14

\* Cutting the days of what is replaced.
LEMMA TermsReplace ==
  ASSUME TermsInv, NEW p \in Purchases, ReplaceRunning(p)
  PROVE  TermsInv'
<1> USE DEF TermsInv
<1> DEFINE doomed == buying[p].doomed
           now == buying[p].now
<1>1. /\ buying[p].pc = "replacing" /\ buying' = [buying EXCEPT ![p].pc = "closing"]
      /\ subscription' = [q \in Purchases |-> IF q \in doomed THEN "EXPIRED" ELSE subscription[q]]
      /\ span' = [q \in Purchases |-> IF q \in doomed THEN Cut(span[q], now) ELSE span[q]]
      /\ UNCHANGED <<clock, term, rights, expiry, mishaps, blind, halved>>
  BY DEF ReplaceRunning, Proceed
<1>2. /\ now \in Nat /\ clock \in Nat /\ now <= clock /\ doomed \subseteq Purchases
      /\ \A q \in doomed : subscription[q] # "none" /\ buying[p].from = now
  BY <1>1 DEF TermsTypeOK, BuyingOK
<1>3. \A q \in Purchases : span[q] \in Interval /\ term[q] \in Interval /\ rights[q] \in Interval
  BY DEF TermsTypeOK
<1> HIDE DEF doomed, now
<1>4. /\ buying'[p].pc = "closing" /\ buying'[p].doomed = doomed /\ buying'[p].now = now
      /\ buying'[p].from = buying[p].from
      /\ \A q \in Purchases \ {p} : buying'[q] = buying[q]
  BY <1>1 DEF TermsTypeOK, doomed, now
<1>5. ASSUME NEW q \in Purchases
      PROVE  /\ span'[q] \in Interval /\ Shortened(span'[q], span[q])
             /\ q \in doomed => ~Beyond(span'[q].to, now)
             /\ span'[q] = span[q] \/
                  (q \in doomed /\ span'[q].to = now /\ Beyond(span[q].to, now))
  BY <1>1, <1>2, <1>3, CutDays, ShortenedSelf
<1>6. ASSUME NEW q \in Purchases, NEW x \in Nat, ~Beyond(span[q].to, x)
      PROVE  ~Beyond(span'[q].to, x)
  BY <1>3, <1>5, <1>6, ShortenedEnds
<1>7. \A q \in Purchases : /\ subscription'[q] # "none" <=> subscription[q] # "none"
                           /\ q \in doomed => subscription'[q] = "EXPIRED"
                           /\ q \notin doomed => /\ subscription'[q] = subscription[q]
                                                 /\ span'[q] = span[q]
  BY <1>1, <1>2
<1>8. TermsTypeOK'
  <2>1. buying' \in [Purchases ->
          [pc : {"idle", "replacing", "closing", "creating", "entitling", "over"},
           now : Nat, from : Nat, doomed : SUBSET Purchases]]
    BY <1>1, SMTT(30) DEF TermsTypeOK
  <2>2. span' \in [Purchases -> Interval]
    BY <1>1, <1>5
  <2>3. subscription' \in [Purchases -> {"none", "ACTIVE", "EXPIRED"}]
    BY <1>1 DEF TermsTypeOK
  <2> QED
    BY <1>1, <2>1, <2>2, <2>3 DEF TermsTypeOK
<1>9. SpansOK'
  <2>1. ASSUME NEW q \in Purchases
        PROVE  /\ subscription'[q] = "none" => /\ span'[q] = NoDays /\ rights'[q] = NoDays
                                               /\ term'[q] = NoDays
               /\ subscription'[q] = "ACTIVE" => span'[q] = term'[q]
               /\ subscription'[q] = "EXPIRED" => ~Beyond(span'[q].to, clock)
               /\ Shortened(span'[q], term[q])
    <3>1. Shortened(span'[q], term[q])
      BY <1>3, <1>5, ShortenedAgain DEF SpansOK
    <3>2. CASE q \in doomed
      <4>1. ~Beyond(span'[q].to, clock)
        BY <1>2, <1>5, <3>2, LaterIsPast DEF Interval
      <4> QED
        BY <1>7, <3>1, <3>2, <4>1
    <3>3. CASE q \notin doomed
      BY <1>1, <1>7, <3>1, <3>3 DEF SpansOK
    <3> QED
      BY <3>2, <3>3
  <2> QED
    BY <1>1, <2>1 DEF SpansOK
<1>10. BuyingOK'
  <2>1. ASSUME NEW r \in Purchases, buying[r].pc = "closing", NEW q \in buying[r].doomed
        PROVE  subscription'[q] = "EXPIRED" /\ ~Beyond(span'[q].to, buying[r].now)
    <3>1. /\ q \in Purchases /\ buying[r].now \in Nat
          /\ subscription[q] = "EXPIRED" /\ ~Beyond(span[q].to, buying[r].now)
      BY <2>1 DEF BuyingOK, TermsTypeOK
    <3> QED
      BY <1>6, <1>7, <3>1
  <2>2. \A r \in Purchases \ {p} : buying'[r].pc = "closing" =>
          \A q \in buying'[r].doomed :
            subscription'[q] = "EXPIRED" /\ ~Beyond(span'[q].to, buying'[r].now)
    BY <1>4, <2>1
  <2>3. \A q \in doomed : subscription'[q] = "EXPIRED" /\ ~Beyond(span'[q].to, now)
    BY <1>2, <1>5, <1>7
  <2>4. \A r \in Purchases : \A q \in buying[r].doomed : subscription'[q] # "none"
    BY <1>7 DEF BuyingOK, TermsTypeOK
  <2>5. \A r \in Purchases : /\ buying'[r].doomed = buying[r].doomed
                             /\ buying'[r].now = buying[r].now
                             /\ buying'[r].from = buying[r].from
    BY <1>4 DEF doomed, now
  <2>6. ASSUME NEW r \in Purchases
        PROVE  /\ buying'[r].pc = "idle" \/ Computed(r)' => subscription'[r] = "none"
               /\ buying'[r].pc = "entitling" => subscription'[r] # "none" /\ rights'[r] = NoDays
               /\ buying'[r].doomed # {} =>
                    buying'[r].pc \in {"replacing", "closing"} /\ buying'[r].from = buying'[r].now
    <3>1. CASE r = p
      <4>1. subscription'[p] = "none"
        BY <1>1, <1>7 DEF BuyingOK, Computed, TermsTypeOK
      <4>2. doomed # {} => buying'[p].from = now
        BY <1>2, <1>4
      <4> QED
        BY <1>4, <3>1, <4>1, <4>2
    <3>2. CASE r # p
      <4>1. buying'[r] = buying[r] /\ rights'[r] = rights[r]
        BY <1>1, <1>4, <3>2
      <4>2. subscription[r] = "none" <=> subscription'[r] = "none"
        BY <1>7
      <4> QED
        BY <4>1, <4>2 DEF BuyingOK, Computed
    <3> QED
      BY <3>1, <3>2
  <2>7. \A r \in Purchases : buying'[r].now <= clock' /\ buying'[r].now <= buying'[r].from
    BY <1>1, <2>5 DEF BuyingOK
  <2>8. buying'[p].pc = "closing" => \A q \in buying'[p].doomed :
          subscription'[q] = "EXPIRED" /\ ~Beyond(span'[q].to, buying'[p].now)
    BY <1>4, <2>3
  <2> QED
    BY <2>2, <2>4, <2>5, <2>6, <2>7, <2>8 DEF BuyingOK
<1>11. ExpiryOK'
  BY <1>1, <1>7 DEF ExpiryOK, TermsTypeOK
<1>12. Ahead'
  <2>1. ASSUME NEW r \in Purchases \ blind, Computed(r)', NEW q \in Purchases,
               subscription'[q] # "none"
        PROVE  \/ buying'[r].pc = "replacing" /\ q \in buying'[r].doomed
               \/ ~Beyond(span'[q].to, buying'[r].from)
    <3>1. Computed(r) /\ subscription[q] # "none" /\ buying[r].from \in Nat
      BY <1>1, <1>4, <1>7, <2>1 DEF Computed, TermsTypeOK
    <3>2. \/ buying[r].pc = "replacing" /\ q \in buying[r].doomed
          \/ ~Beyond(span[q].to, buying[r].from)
      BY <3>1 DEF Ahead
    <3>3. CASE ~Beyond(span[q].to, buying[r].from)
      <4>1. ~Beyond(span'[q].to, buying[r].from)
        BY <1>6, <3>1, <3>3
      <4>2. buying'[r].from = buying[r].from
        BY <1>4
      <4> QED
        BY <4>1, <4>2
    <3>4. CASE buying[r].pc = "replacing" /\ q \in buying[r].doomed
      <4>1. CASE r = p
        <5>1. q \in doomed /\ buying[p].from = now
          BY <1>2, <3>4, <4>1 DEF doomed
        <5> QED
          BY <1>4, <1>5, <4>1, <5>1
      <4>2. CASE r # p
        BY <1>4, <3>4, <4>2
      <4> QED
        BY <4>1, <4>2
    <3> QED
      BY <3>2, <3>3, <3>4
  <2> QED
    BY <1>1, <2>1 DEF Ahead
<1>13. DaysAddUp'
  <2>1. ASSUME NEW q \in Purchases \ blind, NEW r \in Purchases \ blind, q # r
        PROVE  Disjoint(span'[q], span'[r])
    <3>1. Disjoint(span[q], span[r])
      BY <2>1 DEF DaysAddUp
    <3> QED
      BY <1>3, <1>5, <3>1, ShortenedDisjoint
  <2> QED
    BY <1>1, <2>1 DEF DaysAddUp
<1>14. RightsOK'
  <2>1. ASSUME NEW q \in Purchases, span'[q] = span[q], Pending(q) PROVE Pending(q)'
    <3>1. PICK r \in Purchases : buying[r].pc = "closing" /\ q \in buying[r].doomed
                                   /\ span[q].to = buying[r].now
      BY <2>1 DEF Pending
    <3>2. buying'[r] = buying[r]
      BY <1>1, <1>4, <3>1
    <3> QED
      BY <2>1, <3>1, <3>2 DEF Pending
  <2>2. ASSUME NEW q \in Purchases, q \in doomed, span'[q].to = now PROVE Pending(q)'
    BY <1>4, <2>2 DEF Pending
  <2>3. \A q \in Purchases : buying'[q].pc = "entitling" <=> buying[q].pc = "entitling"
    BY <1>1, <1>4
  <2>4. ASSUME NEW q \in Purchases, q \notin halved
        PROVE  IF buying[q].pc = "entitling" THEN span'[q] = term[q] \/ Pending(q)'
               ELSE /\ Shortened(span'[q], rights[q])
                    /\ rights[q] = span'[q] \/ Pending(q)'
    <3>1. CASE span'[q] = span[q]
      BY <2>1, <2>4, <3>1 DEF RightsOK
    <3>2. CASE span'[q] # span[q]
      <4>1. Pending(q)'
        BY <1>5, <2>2, <3>2
      <4>2. buying[q].pc # "entitling" => Shortened(span'[q], rights[q])
        BY <1>3, <1>5, <2>4, ShortenedAgain DEF RightsOK
      <4> QED
        BY <4>1, <4>2
    <3> QED
      BY <3>1, <3>2
  <2> QED
    BY <1>1, <2>3, <2>4 DEF RightsOK
<1> QED
  BY <1>8, <1>9, <1>10, <1>11, <1>12, <1>13, <1>14

\* Closing what was replaced.
LEMMA TermsClose ==
  ASSUME TermsInv, NEW p \in Purchases, CloseReplacedRights(p)
  PROVE  TermsInv'
<1> USE DEF TermsInv
<1> DEFINE doomed == buying[p].doomed
           now == buying[p].now
<1>1. /\ buying[p].pc = "closing"
      /\ buying' = [buying EXCEPT ![p] = [buying[p] EXCEPT !.pc = "creating", !.doomed = {}]]
      /\ rights' = [q \in Purchases |-> IF q \in doomed THEN Cut(rights[q], now) ELSE rights[q]]
      /\ halved' = halved \cup {q \in doomed : buying[q].pc = "entitling"}
      /\ UNCHANGED <<clock, subscription, term, expiry, mishaps, span, blind>>
  BY DEF CloseReplacedRights
<1>2. /\ now \in Nat /\ doomed \subseteq Purchases
      /\ \A q \in doomed : subscription[q] = "EXPIRED" /\ ~Beyond(span[q].to, now)
  BY <1>1 DEF TermsTypeOK, BuyingOK
<1>3. \A q \in Purchases : span[q] \in Interval /\ term[q] \in Interval /\ rights[q] \in Interval
  BY DEF TermsTypeOK
<1> HIDE DEF doomed, now
<1>4. /\ buying'[p].pc = "creating" /\ buying'[p].doomed = {} /\ buying'[p].now = now
      /\ buying'[p].from = buying[p].from
      /\ \A q \in Purchases \ {p} : buying'[q] = buying[q]
  BY <1>1 DEF TermsTypeOK, doomed, now
<1>5. ASSUME NEW q \in Purchases
      PROVE  /\ rights'[q] \in Interval /\ Shortened(rights'[q], rights[q])
             /\ q \in doomed => ~Beyond(rights'[q].to, now)
             /\ rights'[q] = rights[q] \/
                  (q \in doomed /\ rights'[q].to = now /\ Beyond(rights[q].to, now))
             /\ rights[q] = NoDays => rights'[q] = NoDays
  <2>1. ~Beyond(NoDays.to, now)
    BY <1>2, TermsAssumption DEF NoDays, Beyond
  <2> QED
    BY <1>1, <1>2, <1>3, <2>1, CutDays, ShortenedSelf
<1>6. TermsTypeOK'
  <2>1. buying' \in [Purchases ->
          [pc : {"idle", "replacing", "closing", "creating", "entitling", "over"},
           now : Nat, from : Nat, doomed : SUBSET Purchases]]
    <3>1. ASSUME NEW r \in [pc : {"idle", "replacing", "closing", "creating", "entitling", "over"},
                             now : Nat, from : Nat, doomed : SUBSET Purchases]
          PROVE  [r EXCEPT !.pc = "creating", !.doomed = {}] \in
                   [pc : {"idle", "replacing", "closing", "creating", "entitling", "over"},
                    now : Nat, from : Nat, doomed : SUBSET Purchases]
      OBVIOUS
    <3> QED
      BY <1>1, <3>1 DEF TermsTypeOK
  <2>2. rights' \in [Purchases -> Interval]
    BY <1>1, <1>5
  <2>3. halved' \subseteq Purchases
    BY <1>1, <1>2 DEF TermsTypeOK
  <2> QED
    BY <1>1, <2>1, <2>2, <2>3 DEF TermsTypeOK
<1>7. SpansOK'
  BY <1>1, <1>5 DEF SpansOK
<1>8. BuyingOK'
  <2>1. subscription[p] = "none"
    BY <1>1 DEF BuyingOK, Computed
  <2>2. ASSUME NEW r \in Purchases, r # p
        PROVE  buying'[r] = buying[r] /\ (rights[r] = NoDays => rights'[r] = NoDays)
    BY <1>4, <1>5, <2>2
  <2>3. buying'[p].now <= clock /\ buying'[p].now <= buying'[p].from
    BY <1>4 DEF BuyingOK, now
  <2>4. ASSUME NEW r \in Purchases
        PROVE  /\ buying'[r].pc = "idle" \/ Computed(r)' => subscription[r] = "none"
               /\ buying'[r].pc = "entitling" => subscription[r] # "none" /\ rights'[r] = NoDays
               /\ buying'[r].now <= clock /\ buying'[r].now <= buying'[r].from
               /\ \A q \in buying'[r].doomed : subscription[q] # "none"
               /\ buying'[r].doomed # {} =>
                    buying'[r].pc \in {"replacing", "closing"} /\ buying'[r].from = buying'[r].now
               /\ buying'[r].pc = "closing" =>
                    \A q \in buying'[r].doomed :
                      subscription[q] = "EXPIRED" /\ ~Beyond(span[q].to, buying'[r].now)
    <3>1. CASE r = p
      BY <1>4, <2>1, <2>3, <3>1
    <3>2. CASE r # p
      BY <2>2, <3>2 DEF BuyingOK, Computed
    <3> QED
      BY <3>1, <3>2
  <2> QED
    BY <1>1, <2>4 DEF BuyingOK
<1>9. ExpiryOK' /\ DaysAddUp'
  BY <1>1 DEF ExpiryOK, DaysAddUp
<1>10. Ahead'
  <2>1. ASSUME NEW r \in Purchases \ blind, Computed(r)', NEW q \in Purchases,
               subscription[q] # "none"
        PROVE  \/ buying'[r].pc = "replacing" /\ q \in buying'[r].doomed
               \/ ~Beyond(span[q].to, buying'[r].from)
    <3>1. CASE r = p
      BY <1>1, <1>4, <2>1, <3>1 DEF Ahead, Computed
    <3>2. CASE r # p
      BY <1>4, <2>1, <3>2 DEF Ahead, Computed
    <3> QED
      BY <3>1, <3>2
  <2> QED
    BY <1>1, <2>1 DEF Ahead
<1>11. RightsOK'
  <2>1. ASSUME NEW q \in Purchases, Pending(q)
        PROVE  Pending(q)' \/ (q \in doomed /\ span[q].to = now)
    <3>1. PICK r \in Purchases : buying[r].pc = "closing" /\ q \in buying[r].doomed
                                   /\ span[q].to = buying[r].now
      BY <2>1 DEF Pending
    <3>2. CASE r = p
      BY <3>1, <3>2 DEF doomed, now
    <3>3. CASE r # p
      BY <1>1, <1>4, <3>1, <3>3 DEF Pending
    <3> QED
      BY <3>2, <3>3
  <2>2. \A q \in Purchases : buying'[q].pc = "entitling" <=> buying[q].pc = "entitling"
    BY <1>1, <1>4
  <2>3. ASSUME NEW q \in Purchases
        PROVE  rights'[q] = NoDays \/ Shortened(rights'[q], term[q])
    BY <1>3, <1>5, <2>3, ShortenedAgain DEF RightsOK
  <2>4. ASSUME NEW q \in Purchases, q \notin halved'
        PROVE  IF buying[q].pc = "entitling" THEN span[q] = term[q] \/ Pending(q)'
               ELSE /\ Shortened(span[q], rights'[q])
                    /\ rights'[q] = span[q] \/ Pending(q)'
    <3>1. q \notin halved /\ (buying[q].pc = "entitling" => q \notin doomed)
      BY <1>1, <2>4
    <3>2. CASE q \notin doomed
      <4>1. rights'[q] = rights[q] /\ (Pending(q) => Pending(q)')
        BY <1>5, <2>1, <3>2
      <4> QED
        BY <3>1, <4>1 DEF RightsOK
    <3>3. CASE q \in doomed
      <4>1. buying[q].pc # "entitling" /\ ~Beyond(span[q].to, now)
        BY <1>2, <3>1, <3>3
      <4>2. Shortened(span[q], rights[q]) /\ (rights[q] = span[q] \/ Pending(q))
        BY <3>1, <4>1 DEF RightsOK
      <4>3. rights'[q] = Cut(rights[q], now)
        BY <1>1, <3>3
      <4>4. Shortened(span[q], Cut(rights[q], now))
        BY <1>2, <1>3, <4>1, <4>2, TermsAssumption DEF Shortened, Cut, Beyond, Interval
      <4>5. ASSUME span[q].to = now PROVE Cut(rights[q], now) = span[q]
        BY <1>2, <1>3, <4>2, <4>5, TermsAssumption DEF Shortened, Cut, Beyond, Interval
      <4>6. ASSUME rights[q] = span[q] PROVE Cut(rights[q], now) = span[q]
        BY <4>1, <4>6 DEF Cut
      <4> QED
        BY <2>1, <4>1, <4>2, <4>3, <4>4, <4>5, <4>6
    <3> QED
      BY <3>2, <3>3
  <2> QED
    BY <1>1, <2>2, <2>3, <2>4 DEF RightsOK
<1> QED
  BY <1>6, <1>7, <1>8, <1>9, <1>10, <1>11

\* Writing a subscription, that is seen by nobody who has computed his days.
LEMMA TermsCreate ==
  ASSUME TermsInv, NEW p \in Purchases, CreateTerm(p)
  PROVE  TermsInv'
<1> USE DEF TermsInv
<1> DEFINE days == DaysOf(p)
<1>1. /\ buying[p].pc = "creating"
      /\ buying' = [buying EXCEPT ![p] = [NotAsked EXCEPT !.pc = "entitling"]]
      /\ subscription' = [subscription EXCEPT ![p] = "ACTIVE"]
      /\ term' = [term EXCEPT ![p] = days] /\ span' = [span EXCEPT ![p] = days]
      /\ blind' = blind \cup {q \in Purchases \ {p} : Computed(q)}
      /\ UNCHANGED <<clock, rights, expiry, mishaps, halved>>
  BY DEF CreateTerm, Retire
<1>2. /\ subscription[p] = "none" /\ rights[p] = NoDays
      /\ buying[p].from \in Nat /\ clock \in Nat
  BY <1>1 DEF TermsTypeOK, BuyingOK, SpansOK, Computed
<1>3. days \in Interval /\ days.from = buying[p].from
  BY <1>2, TermsAssumption DEF DaysOf, Interval
<1> HIDE DEF days
<1>4. /\ buying'[p] = [pc |-> "entitling", now |-> 0, from |-> 0, doomed |-> {}]
      /\ \A q \in Purchases \ {p} : buying'[q] = buying[q]
      /\ subscription'[p] = "ACTIVE" /\ term'[p] = days /\ span'[p] = days
      /\ \A q \in Purchases \ {p} : /\ subscription'[q] = subscription[q]
                                    /\ term'[q] = term[q] /\ span'[q] = span[q]
  BY <1>1 DEF TermsTypeOK, NotAsked
<1>5. TermsTypeOK'
  <2>1. [pc |-> "entitling", now |-> 0, from |-> 0, doomed |-> {}] \in
          [pc : {"idle", "replacing", "closing", "creating", "entitling", "over"},
           now : Nat, from : Nat, doomed : SUBSET Purchases]
    OBVIOUS
  <2>2. buying' \in [Purchases ->
          [pc : {"idle", "replacing", "closing", "creating", "entitling", "over"},
           now : Nat, from : Nat, doomed : SUBSET Purchases]]
    BY <1>1, <2>1 DEF TermsTypeOK, NotAsked
  <2>3. /\ term' \in [Purchases -> Interval] /\ span' \in [Purchases -> Interval]
        /\ subscription' \in [Purchases -> {"none", "ACTIVE", "EXPIRED"}]
    BY <1>1, <1>3 DEF TermsTypeOK
  <2> QED
    BY <1>1, <2>2, <2>3 DEF TermsTypeOK
<1>6. SpansOK'
  BY <1>1, <1>4, ShortenedSelf DEF SpansOK
<1>7. BuyingOK'
  <2>1. ASSUME NEW r \in Purchases, buying[r].doomed # {} PROVE p \notin buying[r].doomed
    BY <1>2 DEF BuyingOK
  <2>2. ASSUME NEW r \in Purchases
        PROVE  /\ buying'[r].pc = "idle" \/ Computed(r)' => subscription'[r] = "none"
               /\ buying'[r].pc = "entitling" => subscription'[r] # "none" /\ rights[r] = NoDays
               /\ buying'[r].now <= clock /\ buying'[r].now <= buying'[r].from
               /\ \A q \in buying'[r].doomed : subscription'[q] # "none"
               /\ buying'[r].doomed # {} =>
                    buying'[r].pc \in {"replacing", "closing"} /\ buying'[r].from = buying'[r].now
               /\ buying'[r].pc = "closing" =>
                    \A q \in buying'[r].doomed :
                      subscription'[q] = "EXPIRED" /\ ~Beyond(span'[q].to, buying'[r].now)
    <3>1. CASE r = p
      BY <1>2, <1>4, <3>1 DEF Computed
    <3>2. CASE r # p
      <4>1. buying'[r] = buying[r] /\ subscription'[r] = subscription[r]
        BY <1>4, <3>2
      <4>2. \A q \in buying[r].doomed : q \in Purchases \ {p}
        BY <2>1 DEF TermsTypeOK
      <4> QED
        BY <1>4, <4>1, <4>2 DEF BuyingOK, Computed
    <3> QED
      BY <3>1, <3>2
  <2> QED
    BY <1>1, <2>2 DEF BuyingOK
<1>8. ExpiryOK'
  <2>1. \A q \in expiry.ids : q \in Purchases \ {p}
    BY <1>2 DEF ExpiryOK, TermsTypeOK
  <2> QED
    BY <1>1, <1>4, <2>1 DEF ExpiryOK
<1>9. Ahead'
  <2>1. ASSUME NEW r \in Purchases \ blind', Computed(r)' PROVE FALSE
    BY <1>1, <1>4, <2>1 DEF Computed
  <2> QED
    BY <2>1 DEF Ahead
<1>10. DaysAddUp'
  <2>1. ASSUME p \notin blind, NEW q \in Purchases, q # p
        PROVE  Disjoint(days, span[q]) /\ Disjoint(span[q], days)
    <3>1. ~Beyond(span[q].to, buying[p].from)
      <4>1. CASE subscription[q] # "none"
        BY <1>1, <2>1, <4>1 DEF Ahead, Computed
      <4>2. CASE subscription[q] = "none"
        BY <1>2, <4>2, TermsAssumption DEF SpansOK, NoDays, Beyond
      <4> QED
        BY <4>1, <4>2
    <3>2. span[q].to \in Nat \cup {Never}
      BY DEF TermsTypeOK, Interval
    <3> QED
      BY <1>2, <1>3, <3>1, <3>2 DEF Disjoint, Beyond
  <2>2. ASSUME NEW q \in Purchases \ blind', NEW r \in Purchases \ blind', q # r
        PROVE  Disjoint(span'[q], span'[r])
    <3>1. q \notin blind /\ r \notin blind
      BY <1>1, <2>2
    <3>2. CASE q = p
      BY <1>4, <2>1, <2>2, <3>1, <3>2
    <3>3. CASE r = p
      BY <1>4, <2>1, <2>2, <3>1, <3>3
    <3>4. CASE q # p /\ r # p
      BY <1>4, <2>2, <3>1, <3>4 DEF DaysAddUp
    <3> QED
      BY <3>2, <3>3, <3>4
  <2> QED
    BY <2>2 DEF DaysAddUp
<1>11. RightsOK'
  <2>1. ASSUME NEW q \in Purchases, q # p, Pending(q) PROVE Pending(q)'
    <3>1. PICK r \in Purchases : buying[r].pc = "closing" /\ q \in buying[r].doomed
                                   /\ span[q].to = buying[r].now
      BY <2>1 DEF Pending
    <3>2. buying'[r] = buying[r] /\ span'[q] = span[q]
      BY <1>1, <1>4, <2>1, <3>1
    <3> QED
      BY <3>1, <3>2 DEF Pending
  <2>2. ASSUME NEW q \in Purchases
        PROVE  /\ rights[q] = NoDays \/ Shortened(rights[q], term'[q])
               /\ q \notin halved =>
                    IF buying'[q].pc = "entitling" THEN span'[q] = term'[q] \/ Pending(q)'
                    ELSE /\ Shortened(span'[q], rights[q])
                         /\ rights[q] = span'[q] \/ Pending(q)'
    <3>1. CASE q = p
      BY <1>2, <1>4, <3>1
    <3>2. CASE q # p
      <4>1. buying'[q] = buying[q] /\ term'[q] = term[q] /\ span'[q] = span[q]
        BY <1>4, <3>2
      <4> QED
        BY <2>1, <3>2, <4>1 DEF RightsOK
    <3> QED
      BY <3>1, <3>2
  <2> QED
    BY <1>1, <2>2 DEF RightsOK
<1> QED
  BY <1>5, <1>6, <1>7, <1>8, <1>9, <1>10, <1>11

\* An activation that is over knows nothing more.
LEMMA TermsRetire ==
  ASSUME TermsInv, NEW p \in Purchases, Retire(p, "over")
  PROVE  /\ buying' \in [Purchases ->
              [pc : {"idle", "replacing", "closing", "creating", "entitling", "over"},
               now : Nat, from : Nat, doomed : SUBSET Purchases]]
         /\ buying'[p] = [pc |-> "over", now |-> 0, from |-> 0, doomed |-> {}]
         /\ \A q \in Purchases \ {p} : buying'[q] = buying[q]
         /\ clock \in Nat
<1>1. [NotAsked EXCEPT !.pc = "over"] = [pc |-> "over", now |-> 0, from |-> 0, doomed |-> {}]
  BY DEF NotAsked
<1>2. [pc |-> "over", now |-> 0, from |-> 0, doomed |-> {}] \in
        [pc : {"idle", "replacing", "closing", "creating", "entitling", "over"},
         now : Nat, from : Nat, doomed : SUBSET Purchases]
  OBVIOUS
<1> QED
  BY <1>1, <1>2 DEF Retire, TermsInv, TermsTypeOK

\* What it leaves behind, if its subscription and days stay as they are.
LEMMA TermsLeft ==
  ASSUME TermsInv, NEW p \in Purchases, Retire(p, "over"), NEW new \in [Purchases -> Interval],
         rights' = new, \A q \in Purchases \ {p} : new[q] = rights[q],
         subscription[p] # "none" \/ new[p] = rights[p], halved' \subseteq Purchases,
         mishaps' \in 0 .. MaxMishaps, UNCHANGED <<clock, subscription, term, expiry, span, blind>>
  PROVE  TermsTypeOK' /\ SpansOK' /\ BuyingOK' /\ ExpiryOK' /\ Ahead' /\ DaysAddUp'
<1> USE DEF TermsInv
<1>1. /\ buying' \in [Purchases ->
              [pc : {"idle", "replacing", "closing", "creating", "entitling", "over"},
               now : Nat, from : Nat, doomed : SUBSET Purchases]]
      /\ buying'[p] = [pc |-> "over", now |-> 0, from |-> 0, doomed |-> {}]
      /\ \A q \in Purchases \ {p} : buying'[q] = buying[q]
      /\ clock \in Nat
  BY TermsRetire
<1>2. TermsTypeOK' /\ SpansOK' /\ ExpiryOK' /\ DaysAddUp'
  BY <1>1 DEF TermsTypeOK, SpansOK, ExpiryOK, DaysAddUp
<1>3. BuyingOK'
  BY <1>1 DEF BuyingOK, Computed
<1>4. Ahead'
  BY <1>1 DEF Ahead, Computed
<1> QED
  BY <1>2, <1>3, <1>4

\* Writing its entitlements.
LEMMA TermsEntitle ==
  ASSUME TermsInv, NEW p \in Purchases, CreateRights(p)
  PROVE  TermsInv'
<1> USE DEF TermsInv
<1>1. /\ buying[p].pc = "entitling" /\ Retire(p, "over")
      /\ rights' = [rights EXCEPT ![p] = term[p]]
      /\ UNCHANGED <<clock, subscription, term, expiry, mishaps, span, blind, halved>>
  BY DEF CreateRights
<1>2. /\ rights' \in [Purchases -> Interval] /\ rights'[p] = term[p]
      /\ \A q \in Purchases \ {p} : rights'[q] = rights[q]
      /\ subscription[p] # "none" /\ halved' \subseteq Purchases /\ mishaps' \in 0 .. MaxMishaps
  BY <1>1 DEF TermsTypeOK, BuyingOK
<1>3. TermsTypeOK' /\ SpansOK' /\ BuyingOK' /\ ExpiryOK' /\ Ahead' /\ DaysAddUp'
  BY <1>1, <1>2, TermsLeft
<1>4. /\ buying'[p].pc = "over" /\ \A q \in Purchases \ {p} : buying'[q] = buying[q]
  BY <1>1, TermsRetire
<1>5. \A q \in Purchases : Pending(q) => Pending(q)'
  BY <1>1, <1>4 DEF Pending
<1>6. RightsOK'
  BY <1>1, <1>2, <1>4, <1>5, ShortenedSelf DEF RightsOK, SpansOK
<1> QED
  BY <1>3, <1>6

\* An activation given up.
LEMMA TermsGiveUp ==
  ASSUME TermsInv, NEW p \in Purchases, ActivationEnds(p)
  PROVE  TermsInv'
<1> USE DEF TermsInv
<1>1. /\ Computed(p) \/ buying[p].pc = "entitling"
      /\ mishaps > 0 /\ mishaps' = mishaps - 1 /\ Retire(p, "over")
      /\ halved' = halved \cup (IF buying[p].pc = "entitling" THEN {p} ELSE {})
                      \cup (IF buying[p].pc = "closing" THEN buying[p].doomed ELSE {})
      /\ UNCHANGED <<clock, subscription, term, rights, expiry, span, blind>>
  BY DEF ActivationEnds
<1>2. rights \in [Purchases -> Interval] /\ halved' \subseteq Purchases
  BY <1>1 DEF TermsTypeOK
<1>3. mishaps' \in 0 .. MaxMishaps
  BY <1>1, TermsAssumption DEF TermsTypeOK
<1>4. TermsTypeOK' /\ SpansOK' /\ BuyingOK' /\ ExpiryOK' /\ Ahead' /\ DaysAddUp'
  BY <1>1, <1>2, <1>3, TermsLeft
<1>5. /\ buying'[p].pc = "over" /\ \A q \in Purchases \ {p} : buying'[q] = buying[q]
  BY <1>1, TermsRetire
<1>6. \A q \in Purchases \ halved' : Pending(q) => Pending(q)'
  BY <1>1, <1>5 DEF Pending
<1>7. RightsOK'
  <2>1. ASSUME NEW q \in Purchases
        PROVE  /\ rights[q] = NoDays \/ Shortened(rights[q], term[q])
               /\ q \notin halved' =>
                    IF buying'[q].pc = "entitling" THEN span[q] = term[q] \/ Pending(q)'
                    ELSE /\ Shortened(span[q], rights[q])
                         /\ rights[q] = span[q] \/ Pending(q)'
    <3>1. CASE q # p
      BY <1>1, <1>5, <1>6, <3>1 DEF RightsOK
    <3>2. CASE q = p /\ buying[p].pc = "entitling"
      BY <1>1, <1>5, <3>2 DEF RightsOK, BuyingOK
    <3>3. CASE q = p /\ buying[p].pc # "entitling"
      BY <1>1, <1>5, <1>6, <3>3 DEF RightsOK
    <3> QED
      BY <3>1, <3>2, <3>3
  <2> QED
    BY <1>1, <2>1 DEF RightsOK
<1> QED
  BY <1>4, <1>7

\* The daily job begins a sweep, or dies.
LEMMA TermsSweeps == TermsInv /\ (FindEnded \/ ExpiryDies) => TermsInv'
<1> SUFFICES ASSUME TermsInv, FindEnded \/ ExpiryDies PROVE TermsInv'
  OBVIOUS
<1> USE DEF TermsInv
<1>1. UNCHANGED <<clock, subscription, term, rights, buying, span, blind, halved>>
  BY DEF FindEnded, ExpiryDies
<1>2. /\ expiry' \in [pc : {"idle", "marking", "closing"}, now : Nat, ids : SUBSET Purchases]
      /\ mishaps' \in 0 .. MaxMishaps
  <2>1. CASE FindEnded
    BY <2>1 DEF FindEnded, HasEnded, TermsTypeOK
  <2>2. CASE ExpiryDies
    BY <2>2, TermsAssumption DEF ExpiryDies, Asleep, TermsTypeOK
  <2> QED
    BY <2>1, <2>2
<1>3. ExpiryOK'
  <2>1. CASE FindEnded
    BY <1>1, <2>1 DEF FindEnded, HasEnded, ExpiryOK, TermsTypeOK
  <2>2. CASE ExpiryDies
    BY <1>1, <2>2 DEF ExpiryDies, Asleep, ExpiryOK, TermsTypeOK
  <2> QED
    BY <2>1, <2>2
<1>4. TermsTypeOK'
  BY <1>1, <1>2 DEF TermsTypeOK
<1>5. SpansOK' /\ BuyingOK' /\ Ahead' /\ DaysAddUp' /\ RightsOK'
  BY <1>1 DEF SpansOK, BuyingOK, Ahead, DaysAddUp, RightsOK, Computed, Pending
<1> QED
  BY <1>3, <1>4, <1>5

\* The subscriptions it has found are over by their own days.
LEMMA TermsExpire == TermsInv /\ MarkEnded => TermsInv'
<1> SUFFICES ASSUME TermsInv, MarkEnded PROVE TermsInv'
  OBVIOUS
<1> USE DEF TermsInv
<1>1. /\ subscription' = [q \in Purchases |->
              IF q \in expiry.ids THEN "EXPIRED" ELSE subscription[q]]
      /\ expiry' = [expiry EXCEPT !.pc = "closing"]
      /\ UNCHANGED <<clock, term, rights, buying, mishaps, span, blind, halved>>
  BY DEF MarkEnded
<1>2. /\ expiry' \in [pc : {"idle", "marking", "closing"}, now : Nat, ids : SUBSET Purchases]
      /\ expiry'.now = expiry.now /\ expiry'.ids = expiry.ids
      /\ expiry.now \in Nat /\ clock \in Nat /\ expiry.now <= clock
      /\ expiry.ids \subseteq Purchases
  BY <1>1 DEF TermsTypeOK, ExpiryOK
<1>3. \A q \in Purchases : /\ subscription'[q] # "none" <=> subscription[q] # "none"
                           /\ subscription[q] = "EXPIRED" => subscription'[q] = "EXPIRED"
                           /\ q \notin expiry.ids => subscription'[q] = subscription[q]
                           /\ q \in expiry.ids => subscription'[q] = "EXPIRED"
  BY <1>1, <1>2 DEF ExpiryOK
<1>4. TermsTypeOK'
  <2>1. subscription' \in [Purchases -> {"none", "ACTIVE", "EXPIRED"}]
    BY <1>1 DEF TermsTypeOK
  <2> QED
    BY <1>1, <1>2, <2>1 DEF TermsTypeOK
<1>5. ASSUME NEW q \in expiry.ids PROVE ~Beyond(span[q].to, clock)
  <2>1. q \in Purchases /\ ~Beyond(term[q].to, expiry.now) /\ Shortened(span[q], term[q])
    BY <1>2 DEF ExpiryOK, SpansOK
  <2>2. span[q] \in Interval /\ term[q] \in Interval /\ span[q].to \in Nat \cup {Never}
    BY <2>1 DEF TermsTypeOK, Interval
  <2>3. ~Beyond(span[q].to, expiry.now)
    BY <1>2, <2>1, <2>2, ShortenedEnds
  <2> QED
    BY <1>2, <2>2, <2>3, LaterIsPast
<1>6. SpansOK'
  BY <1>1, <1>3, <1>5 DEF SpansOK, TermsTypeOK
<1>7. BuyingOK'
  <2>1. \A p \in Purchases : \A q \in buying[p].doomed : q \in Purchases
    BY DEF TermsTypeOK
  <2> QED
    BY <1>1, <1>3, <2>1 DEF BuyingOK, Computed
<1>8. ExpiryOK'
  BY <1>1, <1>2, <1>3 DEF ExpiryOK
<1>9. Ahead'
  BY <1>1, <1>3 DEF Ahead, Computed
<1>10. DaysAddUp' /\ RightsOK'
  BY <1>1 DEF DaysAddUp, RightsOK, Pending
<1> QED
  BY <1>4, <1>6, <1>7, <1>8, <1>9, <1>10

\* It takes no day away: they have ended already.
LEMMA TermsCloseEnded == TermsInv /\ CloseEnded => TermsInv'
<1> SUFFICES ASSUME TermsInv, CloseEnded PROVE TermsInv'
  OBVIOUS
<1> USE DEF TermsInv
<1>1. /\ rights' = [q \in Purchases |->
              IF q \in expiry.ids THEN Cut(rights[q], expiry.now) ELSE rights[q]]
      /\ expiry' = Asleep
      /\ UNCHANGED <<clock, subscription, term, buying, mishaps, span, blind, halved>>
  BY DEF CloseEnded
<1>2. rights \in [Purchases -> Interval] /\ expiry.now \in Nat /\ clock \in Nat
  BY DEF TermsTypeOK
<1>3. ASSUME NEW q \in Purchases, q \in expiry.ids PROVE Cut(rights[q], expiry.now) = rights[q]
  <2>1. /\ rights[q] \in Interval /\ term[q] \in Interval
        /\ ~Beyond(term[q].to, expiry.now)
        /\ rights[q] = NoDays \/ Shortened(rights[q], term[q])
    BY <1>2, <1>3 DEF TermsTypeOK, ExpiryOK, RightsOK
  <2>2. ~Beyond(rights[q].to, expiry.now)
    <3>1. CASE rights[q] = NoDays
      BY <1>2, <3>1, TermsAssumption DEF NoDays, Beyond
    <3>2. CASE Shortened(rights[q], term[q])
      BY <1>2, <2>1, <3>2, ShortenedEnds
    <3> QED
      BY <2>1, <3>1, <3>2
  <2> QED
    BY <1>2, <2>1, <2>2, CutDays
<1>4. rights' = rights
  BY <1>1, <1>2, <1>3
<1>5. expiry' = [pc |-> "idle", now |-> 0, ids |-> {}]
  BY <1>1 DEF Asleep
<1>6. TermsTypeOK' /\ ExpiryOK'
  BY <1>1, <1>2, <1>4, <1>5 DEF TermsTypeOK, ExpiryOK
<1>7. SpansOK' /\ BuyingOK' /\ Ahead' /\ DaysAddUp' /\ RightsOK'
  BY <1>1, <1>4 DEF SpansOK, BuyingOK, Ahead, DaysAddUp, RightsOK, Computed, Pending
<1> QED
  BY <1>6, <1>7

LEMMA TermsStep == TermsInv /\ [TermsNext]_tvars => TermsInv'
<1> SUFFICES ASSUME TermsInv, [TermsNext]_tvars PROVE TermsInv'
  OBVIOUS
<1>1. CASE NewDay
  BY <1>1, TermsDay
<1>2. CASE FindEnded \/ ExpiryDies
  BY <1>2, TermsSweeps
<1>3. CASE MarkEnded
  BY <1>3, TermsExpire
<1>4. CASE CloseEnded
  BY <1>4, TermsCloseEnded
<1>5. ASSUME NEW p \in Purchases, ReplaceRunning(p) PROVE TermsInv'
  BY <1>5, TermsReplace
<1>6. ASSUME NEW p \in Purchases, CloseReplacedRights(p) PROVE TermsInv'
  BY <1>6, TermsClose
<1>7. ASSUME NEW p \in Purchases, CreateTerm(p) PROVE TermsInv'
  BY <1>7, TermsCreate
<1>8. ASSUME NEW p \in Purchases, CreateRights(p) PROVE TermsInv'
  BY <1>8, TermsEntitle
<1>9. ASSUME NEW p \in Purchases, ActivationEnds(p) PROVE TermsInv'
  BY <1>9, TermsGiveUp
<1>10. ASSUME NEW p \in Purchases, NEW stacking \in Stackings, NEW from \in Ends,
              ReadRunning(p, stacking, from)
       PROVE  TermsInv'
  <2>1. stacking \in BOOLEAN
    BY TermsAssumption
  <2> QED
    BY <1>10, <2>1, TermsRead
<1>11. CASE UNCHANGED tvars
  BY <1>11 DEF tvars, TermsInv, TermsTypeOK, SpansOK, BuyingOK, ExpiryOK, Ahead, DaysAddUp,
               RightsOK, Computed, Pending
<1> QED
  BY <1>1, <1>2, <1>3, <1>4, <1>5, <1>6, <1>7, <1>8, <1>9, <1>10, <1>11 DEF TermsNext

(***************************************************************************)
(* The specification                                                       *)
(***************************************************************************)

\* The component a behaviour follows keeps its invariant, if it is none of content.
RecordsInv ==
  /\ part = "roles" => RolesInv
  /\ part = "views" => ViewsInv
  /\ part = "codes" => CodesKept
  /\ part = "calls" => CallsInv
  /\ part = "rendering" => RenderInv
  /\ part = "grants" => GrantsInv
  /\ part = "catalog" => CatalogInv
  /\ part = "stats" => StatsInv
  /\ part = "refunds" => RefundsInv
  /\ part = "practice" => PracticeInv
  /\ part = "terms" => TermsInv

\* A step is one of the component followed, or leaves it alone.
LEMMA PartSteps ==
  ASSUME [Next]_vars
  PROVE  /\ part' = part
         /\ part = "roles" => [AdminRolesNext]_arvars
         /\ part = "views" => [NoteViewsNext]_nvars
         /\ part = "codes" => [OneTimeCodesNext]_ovars
         /\ part = "calls" => [ProviderCallsNext]_hvars
         /\ part = "rendering" => [RenderingNext]_qvars
         /\ part = "grants" => [ManualGrantsNext]_gvars
         /\ part = "catalog" => [PlanCatalogNext]_kvars
         /\ part = "stats" => [DailyStatsNext]_dvars
         /\ part = "refunds" => [RefundsNext]_rvars
         /\ part = "practice" => [PracticeNext]_pvars
         /\ part = "terms" => [TermsNext]_tvars
  BY DEF Next, vars, InRefunds, InManualGrants, InNoteViews, InOneTimeCodes, InAdminRoles,
         InContentTree, InAssetUse, InPlanCatalog, InSettings, InPractice, InSeeding,
         InDailyStats, InProviderCalls, InRendering, InTerms

\* A behaviour begins where the component it follows begins.
LEMMA PartBegins ==
  ASSUME Init
  PROVE  /\ part = "roles" => AdminRolesInit
         /\ part = "views" => NoteViewsInit
         /\ part = "codes" => OneTimeCodesInit
         /\ part = "calls" => ProviderCallsInit
         /\ part = "rendering" => RenderingInit
         /\ part = "grants" => ManualGrantsInit
         /\ part = "catalog" => PlanCatalogInit
         /\ part = "stats" => DailyStatsInit
         /\ part = "refunds" => RefundsInit
         /\ part = "practice" => PracticeInit
         /\ part = "terms" => TermsInit
  BY DEF Init

\* Each component of the run that is not of content keeps its invariant, whatever it is
\* made of.
THEOREM Invariance == Spec => []RecordsInv
<1>1. Init => RecordsInv
  BY PartBegins, RolesBegin, ViewsBegin, CodesBegin, CallsBegin, RenderBegin, GrantsBegin,
     CatalogBegins, StatsBegin, RefundsBegin, PracticeBegins, TermsBegin
  DEF RecordsInv
<1>2. RecordsInv /\ [Next]_vars => RecordsInv'
  BY PartSteps, RolesStep, ViewsStep, CodesStep, CallsStep, RenderStep, GrantsStep,
     CatalogStep, StatsStep, RefundsStep, PracticeStep, TermsStep
  DEF RecordsInv
<1> QED
  BY <1>1, <1>2, PTL DEF Spec

\* Of every component here: a student's live view sessions and reads stay within their
\* limits but for the requests that raced, and no read that came too late is served; a code
\* and a token are spent once unless two requests held them, and codes stay within the
\* cooldown's and the window's limit but for those that raced; a call of the provider is
\* performed at most once and refused only for a token that was dropped; one installation of
\* the browser runs at a time, and a rendering gives up for cause.
THEOREM LimitsKept == Spec => []LimitsHold
<1>1. RecordsInv => LimitsHold
  <2>1. CallsInv => PerformedOnce /\ RefusedOnlyWhenDropped
    BY DEF CallsInv
  <2>2. RenderInv => OneInstallation /\ GivesUpForCause
    BY RenderKeepsShape DEF RenderInv
  <2> QED
    BY <2>1, <2>2, ViewsLimited, CodesLimited DEF RecordsInv, LimitsHold
<1> QED
  BY <1>1, Invariance, PTL

\* A super administrator remains, unless the last one was removed by somebody who was none
\* throughout, and every administrator holds a role but for the two ways the code leaves
\* open.
THEOREM SomebodyAdministers == Spec => []AdminsRemain
<1>1. RecordsInv => AdminsRemain
  BY DEF RecordsInv, AdminsRemain, RolesInv
<1> QED
  BY <1>1, Invariance, PTL

\* What is written twice agrees: the events of an order's refunds and its amount, a manual
\* order and its subscription, the two forms of a plan's validity, an order and its plan,
\* a student's counters and the answers recorded, a day's statistics and its events, the
\* days of one purchase and those of another, and of a subscription and its entitlements;
\* but for what the histories say raced, was left half done or came later.
THEOREM BooksBalance == Spec => []BooksAgree
<1>1. RecordsInv => BooksAgree
  <2>1. RefundsInv => RefundsAddUp
    BY DEF RefundsInv
  <2>2. CatalogInv => ValidityAgrees /\ OrdersKeepTheirPlan
    BY CatalogAgrees DEF CatalogInv
  <2> QED
    BY <2>1, <2>2, GrantsAgree, PracticeTells, StatsTell, TermsTell DEF RecordsInv, BooksAgree
<1> QED
  BY <1>1, Invariance, PTL

\* The rows and requests of every component keep their shape.
THEOREM OfficeShapes == Spec => []OfficeTypeOK
<1>1. RecordsInv /\ ContentInv => OfficeTypeOK
  <2>1. RecordsInv => /\ part = "roles" => AdminRolesTypeOK
                      /\ part = "views" => NoteViewsTypeOK
                      /\ part = "codes" => OneTimeCodesTypeOK
                      /\ part = "calls" => ProviderCallsTypeOK
                      /\ part = "rendering" => RenderingTypeOK
    BY CallsKeepShape, RenderKeepsShape
    DEF RecordsInv, RolesInv, ViewsInv, CodesKept, CodesTyped
  <2>2. RecordsInv => /\ part = "refunds" => RefundsTypeOK
                      /\ part = "grants" => ManualGrantsTypeOK
                      /\ part = "catalog" => PlanCatalogTypeOK
                      /\ part = "stats" => DailyStatsTypeOK
                      /\ part = "practice" => PracticeTypeOK
                      /\ part = "terms" => TermsTypeOK
    BY CatalogAgrees, StatsTell, PracticeTells, TermsTell
    DEF RecordsInv, RefundsInv, RefundsShape, GrantsInv
  <2>3. ContentInv => /\ part = "tree" => ContentTreeTypeOK
                      /\ part = "assets" => AssetUseTypeOK
                      /\ part = "settings" => SettingsTypeOK
                      /\ part = "seeding" => SeedingTypeOK
    BY SettingsShape, UseTells, SeedsTell DEF ContentInv, TreeInv
  <2> QED
    BY <2>1, <2>2, <2>3 DEF OfficeTypeOK
<1> QED
  BY <1>1, Invariance, ContentInvariance, PTL
=============================================================================
