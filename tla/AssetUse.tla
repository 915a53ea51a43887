------------------------------- MODULE AssetUse -------------------------------
(***************************************************************************)
(* Uploaded files and what refers to them: src/modules/files               *)
(* (initUpload, confirmUpload, assertAssetAccess) and the writers of       *)
(* asset references: questions, the banners, announcements, home sections  *)
(* and pages of the CMS, and notes.                                        *)
(*                                                                         *)
(* A piece's content is kept as the asset in each of its fields.  A        *)
(* question, and every CMS piece, reads its content, checks the assets of  *)
(* what it will hold and then writes, in one transaction, the fields given *)
(* and all of its references; a note writes its file and its one reference *)
(* together.  Assets are never unconfirmed or deleted, so the check goes   *)
(* with the read.  An update takes the row of its piece first, so that its *)
(* transaction is one step; a deletion finds the references first and      *)
(* comes to the row in a second statement.  A request that fails is one    *)
(* that goes no further.                                                   *)
(***************************************************************************)
EXTENDS Naturals, FiniteSets

CONSTANTS
  Assets,      \* files
  Pieces,      \* questions and CMS pieces, whose content may name assets
  Notes,       \* notes
  Fields,      \* the fields of a piece
  Writers,     \* administrators' requests at a time
  NoAsset,     \* a field without an image, a note without a file
  Kept,        \* a field the request leaves out
  MaxWrites    \* bound: requests begun

ASSUME AssetUseAssumption ==
  /\ NoAsset \notin Assets /\ Kept \notin Assets \cup {NoAsset}
  /\ Pieces \cap Notes = {} /\ Fields # {} /\ MaxWrites \in Nat

VARIABLES
  asset,      \* each file: none, begun, stored, short (of the size announced), confirmed
  content,    \* each piece's and note's content
  public,     \* pieces and notes that are published or active
  refs,       \* what refers to each asset
  writer,     \* where each request is
  student,    \* a student's request for a file
  writes,     \* writes left
  astray      \* history: pieces and notes whose references another request overtook

uvars == <<asset, content, public, refs, writer, student, writes, astray>>

Things == Pieces \cup Notes
Absent == <<>>
There(p) == content[p] # Absent
NamedIn(c) == {c[f] : f \in DOMAIN c} \ {NoAsset}
RefsOf(p) == {a \in Assets : p \in refs[a]}
Confirmed == {a \in Assets : asset[a] = "confirmed"}

Resting == [pc |-> "away"]
NoOpening == [pc |-> "away"]

AssetUseInit ==
  /\ asset \in [Assets -> {"none", "confirmed"}]
  /\ content = [p \in Things |-> Absent]
  /\ public = {}
  /\ refs = [a \in Assets |-> {}]
  /\ writer = [w \in Writers |-> Resting]
  /\ student = NoOpening
  /\ writes = MaxWrites
  /\ astray = {}

-----------------------------------------------------------------------------
(* Uploads *)

Upload(a) ==
  /\ \/ asset[a] = "none" /\ asset' = [asset EXCEPT ![a] = "begun"]
     \/ asset[a] = "begun" /\ \E how \in {"stored", "short"} :
                                asset' = [asset EXCEPT ![a] = how]
     \/ asset[a] = "short" /\ asset' = [asset EXCEPT ![a] = "stored"]
  /\ UNCHANGED <<content, public, refs, writer, student, writes, astray>>

\* A file not stored yet, or not of the size announced, is refused.
ConfirmUpload(a) ==
  /\ asset[a] = "stored"
  /\ asset' = [asset EXCEPT ![a] = "confirmed"]
  /\ UNCHANGED <<content, public, refs, writer, student, writes, astray>>

-----------------------------------------------------------------------------
(* Questions and the pieces of the CMS *)

\* The references of p are deleted and those named made.  Faulty variant: only made.
Refers(p, named) == [a \in Assets |-> IF a \in named THEN refs[a] \cup {p} ELSE refs[a]]
References(p, named) ==
  [a \in Assets |-> IF a \in named THEN refs[a] \cup {p} ELSE refs[a] \ {p}]

\* The requests another one overtakes on the same piece; the references a deletion has
\* found have been replaced.
Late(r) ==
  IF r.pc = "deleting" THEN [r EXCEPT !.stale = TRUE, !.found = {}] ELSE [r EXCEPT !.stale = TRUE]
Overtaken(w, p) ==
  [v \in Writers |-> IF v = w THEN Resting
                     ELSE IF writer[v] # Resting /\ writer[v].it = p THEN Late(writer[v])
                     ELSE writer[v]]

Write(w, request) ==
  /\ writer[w] = Resting
  /\ writes > 0 /\ writes' = writes - 1
  /\ writer' = [writer EXCEPT ![w] = request]
RequestsOn(p) == {w \in Writers : writer[w] # Resting /\ writer[w].it = p}

\* An id that left no trace stands for a new one.
Fresh(p) == ~There(p) /\ RequestsOn(p) = {} /\ p \notin astray

\* A question is created and then referred to; a piece of the CMS does both at once.
CreatePiece(w, p, c) ==
  /\ Fresh(p) /\ NamedIn(c) \subseteq Confirmed
  /\ content' = [content EXCEPT ![p] = c]
  /\ \/ /\ Write(w, [pc |-> "referring", it |-> p, named |-> NamedIn(c), stale |-> FALSE])
        /\ UNCHANGED refs
     \/ /\ Write(w, Resting)
        /\ refs' = References(p, NamedIn(c))
  /\ UNCHANGED <<asset, public, student, astray>>

\* A deletion has not found the references made after it looked.
Unfound(w, p) ==
  [v \in Writers |-> IF v = w THEN Resting
                     ELSE IF writer[v].pc = "deleting" /\ writer[v].it = p
                            THEN [writer[v] EXCEPT !.stale = TRUE]
                     ELSE writer[v]]

\* The references of a piece just created; a file not confirmed or a duplicate fails
\* them, and the process may die before.
Refer(w) ==
  LET r == writer[w]
      p == r.it IN
  /\ r.pc = "referring"
  /\ \/ /\ r.named \subseteq Confirmed /\ r.named \cap RefsOf(p) = {}
        /\ refs' = References(p, r.named \cup RefsOf(p))
        /\ astray' = IF r.stale THEN astray \cup {p} ELSE astray
        /\ writer' = Unfound(w, p)
     \/ /\ astray' = astray \cup {p}
        /\ writer' = [writer EXCEPT ![w] = Resting]
        /\ UNCHANGED refs
  /\ UNCHANGED <<asset, content, public, student, writes>>

\* The content a piece will hold: what is given, over what was read.
Merged(old, given) == [f \in Fields |-> IF given[f] = Kept THEN old[f] ELSE given[f]]
BeginUpdatePiece(w, p, given) ==
  LET c == Merged(content[p], given) IN
  /\ There(p) /\ NamedIn(c) \subseteq Confirmed
  /\ Write(w, [pc |-> "updating", it |-> p, given |-> given, named |-> NamedIn(c),
               stale |-> FALSE])
  /\ UNCHANGED <<asset, content, public, refs, student, astray>>

\* The update's transaction.
UpdatePiece(w) ==
  LET r == writer[w]
      p == r.it IN
  /\ r.pc = "updating"
  /\ IF There(p)
       THEN /\ content' = [content EXCEPT ![p] = Merged(@, r.given)]
            /\ refs' = References(p, r.named)
            /\ astray' = IF r.stale THEN astray \cup {p} ELSE astray \ {p}
            /\ writer' = Overtaken(w, p)
       ELSE /\ writer' = [writer EXCEPT ![w] = Resting]
            /\ UNCHANGED <<content, refs, astray>>
  /\ UNCHANGED <<asset, public, student, writes>>

-----------------------------------------------------------------------------
(* Notes *)

\* The file of a new note is checked only after the note is there.
CreateNote(w, n, a) ==
  /\ Fresh(n)
  /\ content' = [content EXCEPT ![n] = [file |-> a]]
  /\ Write(w, IF a = NoAsset THEN Resting
              ELSE [pc |-> "referring", it |-> n, named |-> {a}, stale |-> FALSE])
  /\ UNCHANGED <<asset, public, refs, student, astray>>

\* One transaction, which a file not confirmed rolls back.
UpdateNote(w, n, a) ==
  /\ There(n) /\ a \in Confirmed
  /\ writer[w] = Resting /\ writes > 0 /\ writes' = writes - 1
  /\ content' = [content EXCEPT ![n].file = a]
  /\ refs' = References(n, {a})
  /\ astray' = astray \ {n}
  /\ writer' = Overtaken(w, n)
  /\ UNCHANGED <<asset, public, student>>

-----------------------------------------------------------------------------
(* What is shown, deleted and opened *)

\* Publishing and unpublishing, switching on and off.
ShowOrHide(p) ==
  /\ There(p)
  /\ public' = IF p \in public THEN public \ {p} ELSE public \cup {p}
  /\ UNCHANGED <<asset, content, refs, writer, student, writes, astray>>

\* The first statement of the transaction: the references there are.
BeginDelete(w, p) ==
  /\ There(p)
  /\ Write(w, [pc |-> "deleting", it |-> p, found |-> RefsOf(p), stale |-> FALSE])
  /\ UNCHANGED <<asset, content, public, refs, student, astray>>

\* The second, and the commit.  What was made since the first stays; without the thing
\* nothing is done.
Delete(w) ==
  LET r == writer[w]
      p == r.it IN
  /\ r.pc = "deleting"
  /\ IF There(p)
       THEN /\ content' = [content EXCEPT ![p] = Absent]
            /\ public' = public \ {p}
            /\ refs' = References(p, RefsOf(p) \ r.found)
            /\ astray' = IF r.stale THEN astray \cup {p} ELSE astray \ {p}
            /\ writer' = Overtaken(w, p)
       ELSE /\ writer' = [writer EXCEPT ![w] = Resting]
            /\ UNCHANGED <<content, public, refs, astray>>
  /\ UNCHANGED <<asset, student, writes>>

\* assertAssetAccess reads the references, and then each thing that refers to the file.
BeginOpen(a) ==
  /\ student = NoOpening /\ refs[a] # {}
  /\ student' = [pc |-> "looking", asset |-> a, left |-> refs[a],
                 users |-> {p \in Things : a \in NamedIn(content[p])} \cup astray]
  /\ UNCHANGED <<asset, content, public, refs, writer, writes, astray>>

\* A premium note may also be refused for want of an entitlement.  Faulty variant: what
\* is hidden opens the file too.
MayShow(p) == There(p)
Shows(p) == p \in public
LookAt(p) ==
  /\ student.pc = "looking" /\ p \in student.left
  /\ \/ /\ Shows(p)
        /\ student' = [pc |-> "open", via |-> p, public |-> p \in public, users |-> student.users]
     \/ /\ p \notin public \/ p \in Notes
        /\ student' = IF student.left = {p} THEN NoOpening ELSE [student EXCEPT !.left = @ \ {p}]
  /\ UNCHANGED <<asset, content, public, refs, writer, writes, astray>>

Close ==
  /\ student.pc = "open" /\ student' = NoOpening
  /\ UNCHANGED <<asset, content, public, refs, writer, writes, astray>>

-----------------------------------------------------------------------------

Contents == [Fields -> Assets \cup {NoAsset}]
AssetUseNext ==
  \/ Close
  \/ \E a \in Assets : Upload(a) \/ ConfirmUpload(a) \/ BeginOpen(a)
  \/ \E p \in Things : ShowOrHide(p) \/ LookAt(p)
  \/ \E w \in Writers :
       \/ Refer(w) \/ UpdatePiece(w) \/ Delete(w)
       \/ \E p \in Things : BeginDelete(w, p)
       \/ \E p \in Pieces :
            \/ \E c \in Contents : CreatePiece(w, p, c)
            \/ \E g \in [Fields -> Assets \cup {NoAsset, Kept}] : BeginUpdatePiece(w, p, g)
       \/ \E n \in Notes :
            \/ \E a \in Assets \cup {NoAsset} : CreateNote(w, n, a)
            \/ \E a \in Assets : UpdateNote(w, n, a)

AssetUseSpec == AssetUseInit /\ [][AssetUseNext]_uvars

-----------------------------------------------------------------------------
(* Properties *)

\* Files, contents and requests have the shape of the schema and the code.
AssetUseTypeOK ==
  /\ asset \in [Assets -> {"none", "begun", "stored", "short", "confirmed"}]
  /\ \A p \in Pieces : content[p] \in Contents \cup {Absent}
  /\ \A n \in Notes : content[n] \in [{"file"} -> Assets \cup {NoAsset}] \cup {Absent}
  /\ public \subseteq {p \in Things : There(p)}
  /\ refs \in [Assets -> SUBSET Things]
  /\ \A w \in Writers : writer[w].pc \in {"away", "referring", "updating", "deleting"}
  /\ student.pc \in {"away", "looking", "open"}
  /\ writes \in 0 .. MaxWrites /\ astray \subseteq Things

\* The references are those of the content, of confirmed files, however the requests on
\* a piece interleave, unless one overtook another: the piece then refers to what an
\* older content named, until an update that is not overtaken, or, deleted, to what was
\* referred to between the two statements of its deletion.
AssetsReferenced ==
  /\ \A p \in Things \ astray :
       \/ RefsOf(p) = NamedIn(content[p])
       \/ \E w \in RequestsOn(p) : writer[w].pc = "referring"
  /\ \A a \in Assets : refs[a] # {} => a \in Confirmed

\* A student opens a file only through a thing that showed it: public when it was looked
\* at, and naming the file when the request began.
OpenedThroughUse ==
  student.pc = "open" => student.public /\ student.via \in student.users
=============================================================================
