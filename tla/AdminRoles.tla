----------------------------- MODULE AdminRoles -----------------------------
(***************************************************************************)
(* Who may administer: src/modules/users/users.service, createUser and     *)
(* updateUser, and access-control.service, deleteRole,                      *)
(* over authorization.service's reading of a user's permissions.           *)
(*                                                                         *)
(* Three roles are enough to tell the cases apart: the locked super role,  *)
(* a role an administrator made that may manage roles, and the student's.  *)
(* A request reads its target, then asks for the actor's permissions, then *)
(* writes; what else an update changes is left out.                        *)
(***************************************************************************)
EXTENDS Naturals, FiniteSets

CONSTANTS
  Users,       \* users
  NoUser,      \* the target of a request that has none
  Edits,       \* requests at a time
  MaxEdits     \* bound: requests begun

ASSUME AdminRolesAssumption == NoUser \notin Users /\ MaxEdits \in Nat

Roles == {"ADMIN_SUPER", "ADMIN_MADE", "STUDENT"}
AdminKeys == {"ADMIN_SUPER", "ADMIN_MADE"}

VARIABLES
  type,      \* user.type
  roles,     \* the user's roles
  made,      \* the role ADMIN_MADE exists
  edit,      \* where each request is
  editsLeft, \* requests left
  fallen,    \* history: no super administrator is left, by one who was none throughout
  bare       \* history: administrators left without a role by what the code allows

arvars == <<type, roles, made, edit, editsLeft, fallen, bare>>

NoEdit == [pc |-> "away", actor |-> NoUser, target |-> NoUser, type |-> "same",
           roles |-> {}, keep |-> TRUE, admin |-> FALSE, super |-> FALSE, held |-> {}]

Supers == {u \in Users : "ADMIN_SUPER" \in roles[u]}
ManagesRoles(u) == roles[u] \cap AdminKeys # {}

\* A super administrator, and a student who registered, without any role.
AdminRolesInit ==
  \E boss \in Users, other \in {"none", "STUDENT"} :
    /\ type = [u \in Users |-> IF u = boss THEN "ADMIN" ELSE other]
    /\ roles = [u \in Users |-> IF u = boss THEN {"ADMIN_SUPER"} ELSE {}]
    /\ made = TRUE
    /\ edit = [e \in Edits |-> NoEdit]
    /\ editsLeft = MaxEdits
    /\ fallen = FALSE /\ bare = {}

-----------------------------------------------------------------------------
(* createUser and updateUser *)

\* A new user is nobody else's target.
BeginCreateUser(e, actor, u, asked, wanted) ==
  /\ edit[e] = NoEdit /\ editsLeft > 0 /\ editsLeft' = editsLeft - 1
  /\ ManagesRoles(actor)
  /\ type[u] = "none" /\ \A f \in Edits : edit[f].target # u
  /\ made \/ "ADMIN_MADE" \notin wanted
  /\ ~(asked = "ADMIN" /\ wanted = {})
  /\ edit' = [edit EXCEPT ![e] =
       [pc |-> "allowed?", actor |-> actor, target |-> u, type |-> asked,
        roles |-> IF wanted = {} THEN {"STUDENT"} ELSE wanted, keep |-> FALSE,
        admin |-> asked = "ADMIN" \/ wanted \cap AdminKeys # {},
        super |-> actor \in Supers, held |-> {}]]
  /\ UNCHANGED <<type, roles, made, fallen, bare>>

\* Faulty variant: one may drop one's own super role.
NeverLocksOut(actor, target, wanted, keep) == FALSE
LocksSelfOut(actor, target, wanted, keep) ==
  /\ actor = target /\ "ADMIN_SUPER" \in roles[target]
  /\ ~keep /\ "ADMIN_SUPER" \notin wanted

\* The type and the roles asked for: "same" when the type, keep when roleIds is left
\* out.  The checks on the input use the target as it is read here.
BeginEdit(e, actor, target, asked, wanted, keep) ==
  LET next == IF asked = "same" THEN type[target] ELSE asked
      after == IF keep THEN roles[target] ELSE wanted IN
  /\ edit[e] = NoEdit /\ editsLeft > 0 /\ editsLeft' = editsLeft - 1
  /\ ManagesRoles(actor) /\ type[target] # "none"
  /\ made \/ "ADMIN_MADE" \notin wanted
  /\ ~(next = "ADMIN" /\ ~keep /\ wanted = {})
  /\ ~LocksSelfOut(actor, target, wanted, keep)
  /\ edit' = [edit EXCEPT ![e] =
       [pc |-> "allowed?", actor |-> actor, target |-> target, type |-> asked,
        roles |-> IF ~keep /\ wanted = {} THEN {"STUDENT"} ELSE wanted, keep |-> keep,
        admin |-> "ADMIN" \in {type[target], next} \/ (roles[target] \cup after) \cap AdminKeys # {},
        super |-> actor \in Supers, held |-> {}]]
  /\ UNCHANGED <<type, roles, made, fallen, bare>>

CheckCapability(e) ==
  /\ edit[e].pc = "allowed?"
  /\ edit' = IF edit[e].admin => ManagesRoles(edit[e].actor)
               THEN [edit EXCEPT ![e].pc = "writing"]
               ELSE [edit EXCEPT ![e] = NoEdit]
  /\ UNCHANGED <<type, roles, made, editsLeft, fallen, bare>>

\* A role deleted meanwhile fails the insert, and the transaction with it.
WriteUser(e) ==
  LET q == edit[e]
      u == q.target
      given == IF q.keep THEN roles[u] ELSE q.roles
      becomes == IF q.type = "same" THEN type[u] ELSE q.type
      supers == {x \in Users : "ADMIN_SUPER" \in (IF x = u THEN given ELSE roles[x])} IN
  /\ q.pc = "writing"
  /\ IF "ADMIN_MADE" \in given /\ ~made
       THEN UNCHANGED <<type, roles, fallen, bare>>
       ELSE /\ type' = [type EXCEPT ![u] = becomes]
            /\ roles' = [roles EXCEPT ![u] = given]
            /\ fallen' = (supers = {} /\ (fallen \/ ~(q.super /\ q.actor \in Supers)))
            /\ bare' = IF q.type = "ADMIN" /\ q.keep /\ given = {} THEN bare \cup {u} ELSE bare
  /\ edit' = [edit EXCEPT ![e] = NoEdit]
  /\ UNCHANGED <<made, editsLeft>>

-----------------------------------------------------------------------------
(* deleteRole *)

Holders == {u \in Users : "ADMIN_MADE" \in roles[u]}
\* Faulty variant: whoever has it.
RoleFreeAlways == TRUE
RoleFree == Holders = {}
BeginDeleteRole(e) ==
  /\ edit[e] = NoEdit /\ editsLeft > 0 /\ editsLeft' = editsLeft - 1
  /\ made /\ RoleFree
  /\ edit' = [edit EXCEPT ![e] = [NoEdit EXCEPT !.pc = "deleting", !.held = Holders]]
  /\ UNCHANGED <<type, roles, made, fallen, bare>>

\* The assignments go with the role, those made since the count too.
DeleteRole(e) ==
  LET left == [u \in Users |-> roles[u] \ {"ADMIN_MADE"}] IN
  /\ edit[e].pc = "deleting"
  /\ made' = FALSE
  /\ roles' = left
  /\ bare' = bare \cup
       {u \in Holders \ edit[e].held : type[u] = "ADMIN" /\ left[u] = {}}
  /\ edit' = [edit EXCEPT ![e] = NoEdit]
  /\ UNCHANGED <<type, editsLeft, fallen>>

EditFails(e) ==
  /\ edit[e] # NoEdit
  /\ edit' = [edit EXCEPT ![e] = NoEdit]
  /\ UNCHANGED <<type, roles, made, editsLeft, fallen, bare>>

AdminRolesNext ==
  \E e \in Edits :
    \/ \E actor, target \in Users, asked \in {"ADMIN", "STUDENT", "same"} :
         \/ BeginEdit(e, actor, target, asked, {}, TRUE)
         \/ \E wanted \in {{}, {"ADMIN_SUPER"}, {"ADMIN_MADE"}} :
              BeginEdit(e, actor, target, asked, wanted, FALSE)
    \/ \E actor, u \in Users, asked \in {"ADMIN", "STUDENT"},
         wanted \in {{}, {"ADMIN_SUPER"}, {"ADMIN_MADE"}} :
           BeginCreateUser(e, actor, u, asked, wanted)
    \/ CheckCapability(e) \/ WriteUser(e)
    \/ BeginDeleteRole(e) \/ DeleteRole(e) \/ EditFails(e)

AdminRolesSpec == AdminRolesInit /\ [][AdminRolesNext]_arvars

-----------------------------------------------------------------------------
(* Properties *)

\* Rows and requests have the shape of the schema and the code; a role that is gone is
\* nobody's.
AdminRolesTypeOK ==
  /\ type \in [Users -> {"none", "ADMIN", "STUDENT"}]
  /\ \A u \in Users : type[u] = "none" => roles[u] = {}
  /\ roles \in [Users -> SUBSET Roles] /\ made \in BOOLEAN
  /\ ~made => Holders = {}
  /\ edit \in [Edits ->
       [pc : {"away", "allowed?", "writing", "deleting"}, actor : Users \cup {NoUser},
        target : Users \cup {NoUser}, type : {"ADMIN", "STUDENT", "same"}, roles : SUBSET Roles,
        keep : BOOLEAN, admin : BOOLEAN, super : BOOLEAN, held : SUBSET Users]]
  /\ editsLeft \in 0 .. MaxEdits /\ fallen \in BOOLEAN /\ bare \subseteq Users

\* There is a super administrator, unless the last one was removed by somebody who was
\* none when the request began or when it was written: no two requests of super
\* administrators who stay so can take the role from everybody.
SuperAdminRemains == Supers # {} \/ fallen

\* An administrator has a role, except one who was made an administrator without any,
\* roleIds being left out, or whose only role was deleted between its count and its
\* deletion.
AdminsHaveRoles == \A u \in Users : type[u] = "ADMIN" /\ roles[u] = {} => u \in bare
=============================================================================
