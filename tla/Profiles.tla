------------------------------- MODULE Profiles -------------------------------
(***************************************************************************)
(* Profiles and the requests to change them.                                *)
(*                                                                         *)
(* A user fills an empty field directly and asks for approval to change a   *)
(* filled one; a first phone number is written at once and put up for       *)
(* approval as well.  A principal approves a request, which applies it, or  *)
(* rejects it, which empties the phone number if it is the one asked for.   *)
(*                                                                         *)
(* updateProfile (of the user, or of the teacher) and updateProfilePhoto    *)
(* are calls; approveRequest and rejectRequest are reviews.  Both are       *)
(* one-shot processes that read first and write in later steps.  A review's *)
(* transaction is one step when it approves; when it rejects it reads the   *)
(* user's row in between, so it is two, the change row locked.              *)
(***************************************************************************)
EXTENDS FiniteSets

CONSTANTS
  Users,
  Members,     \* users that belong to a school
  Linked,      \* members with a students or teachers row their role points to
  Teachers,    \* those of them with a teachers row
  Principals,  \* users of the school that have a principal profile
  Values,      \* what a field may hold
  Created,     \* the rows the accounts were created with
  Pictured,    \* users that have a photo to start with, which has their name
  Calls,       \* profile updates; a request or photo has the name of its call
  Reviews,     \* PATCH approvals/profile/:id/approve and /reject
  None

AccountFields == {"name", "phoneNo"}
TeacherFields == {"qualification", "specilization"}
Fields == AccountFields \cup TeacherFields

Row == [Fields -> Values \cup {None}]

\* What a call may send, or a request may ask for: values of some fields.
Patch(fields) == UNION {[S -> Values] : S \in SUBSET fields}

ASSUME ProfilesAssumption ==
  /\ Teachers \subseteq Linked /\ Linked \subseteq Members
  /\ Members \subseteq Users /\ Principals \subseteq Users
  /\ Created \in [Users -> Row]
  /\ Pictured \subseteq Users
  /\ None \notin Values /\ None \notin Users /\ None \notin Calls
  /\ Calls \cap Users = {}

VARIABLES
  row,       \* the profile fields of users and teachers
  change,    \* ProfileChangeRequest rows, by the call that creates them
  photo,     \* users.photoUrl: the call, or user, whose photo it is
  stored,    \* photos in the bucket
  call,      \* a profile update: where it stands, its input, what it read
  review,    \* a review: where it stands, its request, the number it read
  contested  \* requests two reviews handled at once (history)

vars == <<row, change, photo, stored, call, review, contested>>

NoPatch == [f \in {} |-> None]

Init ==
  /\ row = Created
  /\ change = [c \in Calls |->
                 [status |-> "absent", user |-> None, wants |-> NoPatch]]
  /\ photo = [u \in Users |-> IF u \in Pictured THEN u ELSE None]
  /\ stored = Pictured
  /\ call = [c \in Calls |->
               [pc |-> "new", user |-> None, dto |-> NoPatch,
                seen |-> [f \in Fields |-> None], old |-> None]]
  /\ review = [v \in Reviews |->
                 [pc |-> "new", change |-> None, approve |-> FALSE,
                  saw |-> None]]
  /\ contested = {}

Goto(c, pc) == call' = [call EXCEPT ![c].pc = pc]

Patched(old, patch) ==
  [f \in Fields |-> IF f \in DOMAIN patch THEN patch[f] ELSE old[f]]

Part(patch, fields) == [f \in DOMAIN patch \cap fields |-> patch[f]]

-----------------------------------------------------------------------------
(* updateProfile                                                           *)

Empty(seen, dto) == {f \in DOMAIN dto : seen[f] = None}
Differing(seen, dto) == {f \in DOMAIN dto : dto[f] # seen[f]}

\* A first phone number is handled alone: a name sent with it is dropped.
FirstPhone(seen, dto) == "phoneNo" \in Empty(seen, dto)

\* Defect: once one field is empty, every field sent is written directly.
Direct_AllGiven(u, seen, dto) ==
  IF DOMAIN dto \subseteq TeacherFields
  THEN IF Empty(seen, dto) # {} THEN DOMAIN dto ELSE {}
  ELSE IF FirstPhone(seen, dto) THEN {"phoneNo"}
  ELSE IF u \in Members THEN {} ELSE DOMAIN dto

\* The fields written without approval.
Direct(u, seen, dto) ==
  IF DOMAIN dto \subseteq TeacherFields THEN Empty(seen, dto)
  ELSE IF FirstPhone(seen, dto) THEN {"phoneNo"}
  ELSE IF u \in Members THEN {} ELSE DOMAIN dto

\* The fields put up for approval.  A request may end up asking for nothing.
Asked(seen, dto) ==
  IF DOMAIN dto \subseteq TeacherFields
  THEN IF Empty(seen, dto) # {} THEN DOMAIN dto \ Empty(seen, dto)
       ELSE Differing(seen, dto)
  ELSE IF FirstPhone(seen, dto) THEN {"phoneNo"} ELSE Differing(seen, dto)

\* Is a request opened at all?
Asks(u, seen, dto) ==
  /\ u \in Members
  /\ DOMAIN dto \subseteq TeacherFields =>
       Empty(seen, dto) = {} \/ Asked(seen, dto) # {}

\* An update that sends nothing changes nothing.
ReadProfile(c, u, dto) ==
  /\ call[c].pc = "new" /\ dto # NoPatch
  /\ DOMAIN dto \subseteq TeacherFields => u \in Teachers
  /\ call' = [call EXCEPT ![c] =
       [pc |-> CASE Direct(u, row[u], dto) # {} -> "write"
                 [] Direct(u, row[u], dto) = {} /\ Asks(u, row[u], dto) -> "ask"
                 [] OTHER -> "done",
        user |-> u, dto |-> dto, seen |-> row[u], old |-> None]]
  /\ UNCHANGED <<row, change, photo, stored, review, contested>>

WriteDirect(c) ==
  LET u == call[c].user  dto == call[c].dto  seen == call[c].seen IN
  /\ call[c].pc = "write"
  /\ row' = [row EXCEPT ![u] = Patched(@, Part(dto, Direct(u, seen, dto)))]
  /\ Goto(c, IF Asks(u, seen, dto) THEN "ask" ELSE "done")
  /\ UNCHANGED <<change, photo, stored, review, contested>>

CreateRequest(c) ==
  /\ call[c].pc = "ask"
  /\ change' = [change EXCEPT ![c] =
       [status |-> "PENDING", user |-> call[c].user,
        wants |-> Part(call[c].dto, Asked(call[c].seen, call[c].dto))]]
  /\ Goto(c, "done")
  /\ UNCHANGED <<row, photo, stored, review, contested>>

-----------------------------------------------------------------------------
(* updateProfilePhoto                                                      *)

ReadPhoto(c, u) ==
  /\ call[c].pc = "new"
  /\ call' = [call EXCEPT ![c].user = u, ![c].old = photo[u],
                ![c].pc = IF photo[u] = None THEN "upload" ELSE "delete"]
  /\ UNCHANGED <<row, change, photo, stored, review, contested>>

\* A failing delete is logged and ignored.
DeletePhoto(c) ==
  /\ call[c].pc = "delete"
  /\ stored' \in {stored, stored \ {call[c].old}}
  /\ Goto(c, "upload")
  /\ UNCHANGED <<row, change, photo, review, contested>>

\* Defect: a failing upload is ignored as well.
UploadPhoto_Ignored(c) ==
  /\ call[c].pc = "upload"
  /\ stored' \in {stored, stored \cup {c}}
  /\ Goto(c, "point")
  /\ UNCHANGED <<row, change, photo, review, contested>>

UploadPhoto(c) ==
  /\ call[c].pc = "upload"
  /\ stored' = stored \cup {c}
  /\ Goto(c, "point")
  /\ UNCHANGED <<row, change, photo, review, contested>>

PointToPhoto(c) ==
  /\ call[c].pc = "point"
  /\ photo' = [photo EXCEPT ![call[c].user] = c]
  /\ Goto(c, "done")
  /\ UNCHANGED <<row, change, stored, review, contested>>

\* The process dies, or the database or the bucket refuses the next step.
CallFails(c) ==
  /\ call[c].pc \in {"write", "ask", "delete", "upload", "point"}
  /\ Goto(c, "lost")
  /\ UNCHANGED <<row, change, photo, stored, review, contested>>

-----------------------------------------------------------------------------
(* approveRequest and rejectRequest                                        *)

\* Defect: the status check is dropped.
MayReview_AnyStatus(p, c) ==
  /\ change[c].status # "absent"
  /\ p \in Principals
  /\ change[c].user \in Linked

\* A request of a member who is neither student nor teacher cannot be decided.
MayReview(p, c) ==
  /\ change[c].status = "PENDING"
  /\ p \in Principals
  /\ change[c].user \in Linked

Reviewing(v, c) == review[v].pc \in {"decide", "wipe"} /\ review[v].change = c

CheckRequest(v, p, c, approve) ==
  /\ review[v].pc = "new"
  /\ \/ /\ MayReview(p, c)
        /\ review' = [review EXCEPT ![v] =
             [pc |-> "decide", change |-> c, approve |-> approve, saw |-> None]]
        /\ contested' = IF \E w \in Reviews : Reviewing(w, c)
                        THEN contested \cup {c} ELSE contested
     \/ /\ ~MayReview(p, c)
        /\ review' = [review EXCEPT ![v].pc = "denied"]
        /\ UNCHANGED contested
  /\ UNCHANGED <<row, change, photo, stored, call>>

\* The transaction's first update locks the row of the request.
Unlocked(c) ==
  \A v \in Reviews : review[v].pc = "wipe" => review[v].change # c

ApproveRequest(v) ==
  LET c == review[v].change IN
  /\ review[v].pc = "decide" /\ review[v].approve
  /\ Unlocked(c)
  /\ change' = [change EXCEPT ![c].status = "APPROVED"]
  /\ row' = [row EXCEPT ![change[c].user] = Patched(@, change[c].wants)]
  /\ review' = [review EXCEPT ![v].pc = "done"]
  /\ UNCHANGED <<photo, stored, call, contested>>

\* Inside the transaction: the status is updated, uncommitted, and the user's
\* row is read.
ReadNumber(v) ==
  LET c == review[v].change IN
  /\ review[v].pc = "decide" /\ ~review[v].approve
  /\ Unlocked(c)
  /\ review' = [review EXCEPT ![v].pc = "wipe",
                              ![v].saw = row[change[c].user]["phoneNo"]]
  /\ UNCHANGED <<row, change, photo, stored, call, contested>>

\* The number a request asks for, None if it asks for none.
Wanted(c) ==
  IF "phoneNo" \in DOMAIN change[c].wants THEN change[c].wants["phoneNo"]
  ELSE None

\* Defect: the number is left in the user's row.
RejectRequest_Keep(v) ==
  LET c == review[v].change IN
  /\ review[v].pc = "wipe"
  /\ change' = [change EXCEPT ![c].status = "REJECTED"]
  /\ review' = [review EXCEPT ![v].pc = "done"]
  /\ UNCHANGED <<row, photo, stored, call, contested>>

\* The comparison is made on what was read; it also succeeds when there is no
\* number on either side.
RejectRequest(v) ==
  LET c == review[v].change IN
  /\ review[v].pc = "wipe"
  /\ change' = [change EXCEPT ![c].status = "REJECTED"]
  /\ row' = IF review[v].saw = Wanted(c)
            THEN [row EXCEPT ![change[c].user]["phoneNo"] = None]
            ELSE row
  /\ review' = [review EXCEPT ![v].pc = "done"]
  /\ UNCHANGED <<photo, stored, call, contested>>

\* The process dies or the transaction is rolled back.
ReviewFails(v) ==
  /\ review[v].pc \in {"decide", "wipe"}
  /\ review' = [review EXCEPT ![v].pc = "failed"]
  /\ UNCHANGED <<row, change, photo, stored, call, contested>>

-----------------------------------------------------------------------------
Update(c) ==
  \/ \E u \in Users, dto \in Patch(AccountFields) \cup Patch(TeacherFields) :
       ReadProfile(c, u, dto)
  \/ \E u \in Users : ReadPhoto(c, u)
  \/ WriteDirect(c) \/ CreateRequest(c)
  \/ DeletePhoto(c) \/ UploadPhoto(c) \/ PointToPhoto(c)
  \/ CallFails(c)

Review(v) ==
  \/ \E p \in Users, c \in Calls, a \in BOOLEAN : CheckRequest(v, p, c, a)
  \/ ApproveRequest(v) \/ ReadNumber(v) \/ RejectRequest(v) \/ ReviewFails(v)

Next == (\E c \in Calls : Update(c)) \/ (\E v \in Reviews : Review(v))

Spec == Init /\ [][Next]_vars

-----------------------------------------------------------------------------
(* What holds of profiles and their reviews                                *)

\* Every variable holds what the code's columns and enums allow.
TypeOK ==
  /\ row \in [Users -> Row]
  /\ change \in [Calls ->
       [status : {"absent", "PENDING", "APPROVED", "REJECTED"},
        user : Members \cup {None},
        wants : Patch(AccountFields) \cup Patch(TeacherFields)]]
  /\ photo \in [Users -> Calls \cup Users \cup {None}]
  /\ stored \subseteq Calls \cup Users
  /\ call \in [Calls ->
       [pc : {"new", "write", "ask", "delete", "upload", "point", "done",
              "lost"},
        user : Users \cup {None},
        dto : Patch(AccountFields) \cup Patch(TeacherFields),
        seen : Row, old : Calls \cup Users \cup {None}]]
  /\ review \in [Reviews ->
       [pc : {"new", "decide", "wipe", "done", "denied", "failed"},
        change : Calls \cup {None}, approve : BOOLEAN,
        saw : Values \cup {None}]]
  /\ contested \subseteq Calls

\* Is call c, which sends the number p for u, about to put it up for approval,
\* or has it died before it could?
Owes(c, u, p) ==
  /\ call[c].pc \in {"ask", "lost"}
  /\ call[c].user = u
  /\ "phoneNo" \in DOMAIN call[c].dto /\ call[c].dto["phoneNo"] = p

\* "update directly but ALSO create a pending request" (users.service.ts:178):
\* a number a member's row shows came with the account, or is put up for
\* approval or approved.  However calls and reviews overlap, it does not
\* outlive the rejection of everything that asked for it.
NumbersReviewed ==
  \A u \in Members :
    LET p == row[u]["phoneNo"] IN
    p \notin {None, Created[u]["phoneNo"]} =>
      \E c \in Calls :
        \/ Owes(c, u, p)
        \/ /\ change[c].user = u /\ Wanted(c) = p
           /\ change[c].status \in {"PENDING", "APPROVED"}

\* A review of a request of u that finishes in this step, approving or not.
Finishes(v, u) ==
  /\ review[v].pc \in {"decide", "wipe"} /\ review'[v].pc = "done"
  /\ change[review[v].change].user = u

\* What may overwrite the filled field f of u: an approval of just that value;
\* for the phone number, a rejection of it, or one that read the row before it
\* changed; or a direct write by a call that read the field as empty.
Overwrites(u, f) ==
  \/ \E v \in Reviews :
       LET c == review[v].change IN
       /\ Finishes(v, u)
       /\ \/ /\ change'[c].status = "APPROVED"
             /\ f \in DOMAIN change[c].wants
             /\ row'[u][f] = change[c].wants[f]
          \/ /\ change'[c].status = "REJECTED"
             /\ f = "phoneNo" /\ row'[u][f] = None
             /\ row[u][f] \in {Wanted(c)} \cup (Values \ {review[v].saw})
  \/ \E c \in Calls :
       /\ call[c].pc = "write" /\ call'[c].pc # "write"
       /\ call[c].user = u /\ call[c].seen[f] = None

\* A member's filled fields change by approval ("Intercept it for approval if
\* they have a school", users.service.ts:218), except where one of two
\* overlapping handlers writes what it decided on an earlier read.
ChangesAreApproved ==
  [][\A u \in Members, f \in Fields :
       row[u][f] # None /\ row'[u][f] # row[u][f] => Overwrites(u, f)]_vars

\* "Request is no longer pending" (approvals.service.ts:51): a decision stands
\* unless a second review had passed the check before it was made.
DecisionStands ==
  [][\A c \in Calls \ contested :
       change[c].status \in {"APPROVED", "REJECTED"} =>
         change'[c].status = change[c].status]_vars

\* A profile never shows a photo that is not in the bucket, unless a call that
\* deleted it is under way or died before it replaced it, however many uploads
\* overlap.
PhotoThere ==
  \A u \in Users :
    photo[u] \in stored \cup {None}
      \/ \E c \in Calls : /\ call[c].user = u /\ call[c].old = photo[u]
                         /\ call[c].pc \in {"upload", "point", "lost"}
=============================================================================
