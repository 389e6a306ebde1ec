--------------------------- MODULE ProfilesProofs ---------------------------
(***************************************************************************)
(* Proofs about Profiles, for any users, values, calls and reviews.         *)
(***************************************************************************)
EXTENDS Profiles, TLAPS

-----------------------------------------------------------------------------
(* The inductive invariant                                                 *)

\* A call has no request before it is done, and is about a user once it has
\* read; a request is a member's, and a review is of a request that exists.
Checked ==
  /\ \A c \in Calls :
       /\ call[c].pc # "done" => change[c].status = "absent"
       /\ change[c].status # "absent" => change[c].user \in Members
       /\ call[c].pc \in {"write", "ask", "delete", "upload", "point"} =>
            call[c].user \in Users
       /\ call[c].pc = "ask" => call[c].user \in Members
  /\ \A v \in Reviews : review[v].pc \in {"decide", "wipe"} =>
       /\ review[v].change \in Calls
       /\ change[review[v].change].status # "absent"

Typed == TypeOK /\ Checked

\* A request that two never handled at once has one review at most, and is
\* pending as long as it has one.
Sole ==
  \A c \in Calls \ contested :
    /\ \A v, w \in Reviews : Reviewing(v, c) /\ Reviewing(w, c) => v = w
    /\ \A v \in Reviews : Reviewing(v, c) => change[c].status = "PENDING"

\* Call c wrote the number p of u as his first and has yet to ask for it; or its
\* request asks for it, and no review that is about to reject the request read
\* another number.  Without the latter the rejection would leave p behind.
Backs(c, u, p) ==
  \/ Owes(c, u, p) /\ call[c].seen["phoneNo"] = None
  \/ /\ change[c].user = u /\ Wanted(c) = p
     /\ change[c].status \in {"PENDING", "APPROVED"}
     /\ \A v \in Reviews :
          review[v].pc = "wipe" /\ review[v].change = c => review[v].saw = p

Backed(u, p) == \E c \in Calls : Backs(c, u, p)

Numbered ==
  \A u \in Members :
    row[u]["phoneNo"] \in {None, Created[u]["phoneNo"]}
      \/ Backed(u, row[u]["phoneNo"])

\* A photo is of one user: the one he started with, or one his call uploaded.
Owned(x, u) ==
  x = u \/ (x \in Calls /\ call[x].user = u /\ call[x].pc = "done")

Pictures ==
  /\ \A u \in Users : photo[u] # None => Owned(photo[u], u)
  /\ \A c \in Calls : /\ call[c].old # None => Owned(call[c].old, call[c].user)
                      /\ call[c].pc = "point" => c \in stored
  /\ PhotoThere

IInv == Typed /\ Sole /\ Numbered /\ Pictures

LEMMA IInvInit == Init => IInv
<1> SUFFICES ASSUME Init PROVE IInv
  OBVIOUS
<1> USE ProfilesAssumption DEF Init
<1>1. NoPatch \in Patch(AccountFields)
  <2>1. NoPatch \in [{} -> Values] /\ {} \in SUBSET AccountFields
    BY DEF NoPatch
  <2>2. QED
    BY <2>1 DEF Patch
<1>2. TypeOK
  BY <1>1 DEF TypeOK, Row
<1>3. Checked /\ Sole
  BY DEF Checked, Sole, Reviewing
<1>4. Numbered
  BY DEF Numbered
<1>5. Pictures
  BY DEF Pictures, Owned, PhotoThere
<1>6. QED
  BY <1>2, <1>3, <1>4, <1>5 DEF IInv, Typed

-----------------------------------------------------------------------------
(* Patches                                                                 *)

Patches == Patch(AccountFields) \cup Patch(TeacherFields)

LEMMA PatchTyped ==
  \A patch \in Patches :
    /\ DOMAIN patch \subseteq AccountFields \/ DOMAIN patch \subseteq TeacherFields
    /\ \A f \in DOMAIN patch : patch[f] \in Values
    /\ patch \in [DOMAIN patch -> Values]
  BY DEF Patches, Patch

LEMMA PartTyped ==
  ASSUME NEW patch \in Patches, NEW fields
  PROVE  /\ Part(patch, fields) \in Patches
         /\ DOMAIN Part(patch, fields) = DOMAIN patch \cap fields
         /\ \A f \in DOMAIN patch \cap fields : Part(patch, fields)[f] = patch[f]
<1>1. Part(patch, fields) \in [DOMAIN patch \cap fields -> Values]
  BY PatchTyped DEF Part
<1>2. \/ DOMAIN patch \cap fields \in SUBSET AccountFields
      \/ DOMAIN patch \cap fields \in SUBSET TeacherFields
  BY PatchTyped
<1>3. QED
  BY <1>1, <1>2 DEF Part, Patches, Patch

LEMMA PatchedTyped ==
  ASSUME NEW old \in Row, NEW patch \in Patches
  PROVE  /\ Patched(old, patch) \in Row
         /\ \A f \in Fields :
              Patched(old, patch)[f] = IF f \in DOMAIN patch THEN patch[f]
                                       ELSE old[f]
  BY PatchTyped DEF Patched, Row

-----------------------------------------------------------------------------
(* The rows that the actions write                                         *)

ChangeRow ==
  [status : {"absent", "PENDING", "APPROVED", "REJECTED"},
   user : Members \cup {None}, wants : Patches]

CallRow ==
  [pc : {"new", "write", "ask", "delete", "upload", "point", "done", "lost"},
   user : Users \cup {None}, dto : Patches, seen : Row,
   old : Calls \cup Users \cup {None}]

ReviewRow ==
  [pc : {"new", "decide", "wipe", "done", "denied", "failed"},
   change : Calls \cup {None}, approve : BOOLEAN, saw : Values \cup {None}]

RowTypes ==
  /\ row \in [Users -> Row] /\ change \in [Calls -> ChangeRow]
  /\ photo \in [Users -> Calls \cup Users \cup {None}]
  /\ stored \subseteq Calls \cup Users
  /\ call \in [Calls -> CallRow] /\ review \in [Reviews -> ReviewRow]
  /\ contested \subseteq Calls

LEMMA RowsTyped == (TypeOK <=> RowTypes) /\ (TypeOK' <=> RowTypes')
  BY DEF TypeOK, RowTypes, ChangeRow, CallRow, ReviewRow, Patches

\* A call, a request and a review that go to another place keep what they are
\* about.
LEMMA CallMoves ==
  ASSUME NEW v \in CallRow,
         NEW pc \in {"new", "write", "ask", "delete", "upload", "point", "done",
                     "lost"}
  PROVE  LET s == [v EXCEPT !.pc = pc] IN
         /\ s \in CallRow /\ s.pc = pc /\ s.user = v.user /\ s.dto = v.dto
         /\ s.seen = v.seen /\ s.old = v.old
  BY DEF CallRow

LEMMA ChangeMoves ==
  ASSUME NEW v \in ChangeRow,
         NEW status \in {"absent", "PENDING", "APPROVED", "REJECTED"}
  PROVE  LET s == [v EXCEPT !.status = status] IN
         s \in ChangeRow /\ s.status = status /\ s.user = v.user /\ s.wants = v.wants
  BY DEF ChangeRow

LEMMA ReviewMoves ==
  ASSUME NEW v \in ReviewRow,
         NEW pc \in {"new", "decide", "wipe", "done", "denied", "failed"}
  PROVE  LET s == [v EXCEPT !.pc = pc] IN
         /\ s \in ReviewRow /\ s.pc = pc /\ s.change = v.change
         /\ s.approve = v.approve /\ s.saw = v.saw
  BY DEF ReviewRow

-----------------------------------------------------------------------------
(* What leaves the parts of the invariant alone                            *)

\* No review is taken up, and the requests under review stay as they are.
LEMMA SoleKept ==
  ASSUME Sole, contested' = contested,
         \A v \in Reviews, c \in Calls \ contested : Reviewing(v, c)' =>
           Reviewing(v, c) /\ change'[c].status = change[c].status
  PROVE  Sole'
  BY DEF Sole

\* What backs a number does so as long as its request stays, and no review
\* that reads another number goes on to reject it.
LEMMA BacksKept ==
  ASSUME NEW c \in Calls, NEW u, NEW p, Backs(c, u, p),
         call[c].pc \in {"ask", "lost"} =>
           /\ call'[c].pc \in {"ask", "lost"} /\ call'[c].user = call[c].user
           /\ call'[c].dto = call[c].dto /\ call'[c].seen = call[c].seen,
         change'[c] = change[c]
           \/ /\ change'[c].status = "APPROVED" /\ change'[c].user = change[c].user
              /\ change'[c].wants = change[c].wants,
         \A v \in Reviews : review'[v].pc = "wipe" /\ review'[v].change = c =>
           \/ review'[v] = review[v]
           \/ review'[v].saw = p
  PROVE  Backs(c, u, p)'
  BY DEF Backs, Owes, Wanted

LEMMA NumberedKept ==
  ASSUME Numbered, TypeOK,
         \A u \in Members :
           \/ row'[u]["phoneNo"] = None
           \/ \E c \in Calls : Backs(c, u, row[u]["phoneNo"])'
           \/ row'[u]["phoneNo"] = row[u]["phoneNo"],
         \A c \in Calls, u \in Members, p \in Values :
           Backs(c, u, p) /\ row[u]["phoneNo"] = p
             => Backs(c, u, p)' \/ row'[u]["phoneNo"] # p
  PROVE  Numbered'
<1> SUFFICES ASSUME NEW u \in Members,
                    row'[u]["phoneNo"] \notin {None, Created[u]["phoneNo"]},
                    row'[u]["phoneNo"] = row[u]["phoneNo"]
             PROVE  \E c \in Calls : Backs(c, u, row[u]["phoneNo"])'
  BY DEF Numbered, Backed
<1>1. row[u]["phoneNo"] \in Values
  BY ProfilesAssumption DEF TypeOK, Row, Fields, AccountFields
<1>2. PICK p \in Values : row[u]["phoneNo"] = p
  BY <1>1
<1>3. PICK c \in Calls : Backs(c, u, p)
  BY <1>2 DEF Numbered, Backed
<1>4. Backs(c, u, p)'
  BY <1>2, <1>3
<1>5. row'[u]["phoneNo"] = p
  BY <1>2
<1>6. QED
  BY <1>4, <1>5 DEF Backs

LEMMA OwnedKept ==
  ASSUME NEW x, NEW u, Owned(x, u),
         \A c \in Calls : call[c].pc = "done" =>
           call'[c].pc = "done" /\ call'[c].user = call[c].user
  PROVE  Owned(x, u)'
  BY DEF Owned

LEMMA PicturesKept ==
  ASSUME Pictures, photo' = photo, stored \subseteq stored',
         \A c \in Calls :
           /\ call[c].pc = "done" =>
                call'[c].pc = "done" /\ call'[c].user = call[c].user
           /\ \/ call'[c].old = None
              \/ call'[c].old = call[c].old /\ call'[c].user = call[c].user
           /\ call'[c].pc = "point" => call[c].pc = "point" \/ c \in stored'
           /\ call[c].pc \in {"upload", "point", "lost"} =>
                /\ call'[c].pc \in {"upload", "point", "lost"}
                /\ call'[c].user = call[c].user /\ call'[c].old = call[c].old
  PROVE  Pictures'
<1>1. \A u \in Users : photo'[u] # None => Owned(photo[u], u)'
  BY DEF Pictures, Owned
<1>2. \A c \in Calls : /\ call'[c].old # None => Owned(call[c].old, call[c].user)'
                       /\ call'[c].pc = "point" => c \in stored'
  BY DEF Pictures, Owned
<1>3. PhotoThere'
  BY DEF Pictures, PhotoThere
<1>4. QED
  BY <1>1, <1>2, <1>3 DEF Pictures

-----------------------------------------------------------------------------
(* updateProfile                                                           *)

\* A call that only reads, moves on or fails, and writes nothing but a photo.
LEMMA CallStepKeeps ==
  ASSUME IInv, NEW c \in Calls, NEW v \in CallRow,
         call' = [call EXCEPT ![c] = v],
         stored \subseteq stored', stored' \subseteq Calls \cup Users,
         UNCHANGED <<row, change, photo, review, contested>>,
         call[c].pc # "done",
         v.pc = "done" => change[c].status = "absent",
         v.pc \in {"write", "ask", "delete", "upload", "point"} => v.user \in Users,
         v.pc = "ask" => v.user \in Members,
         call[c].pc \in {"ask", "lost"} =>
           /\ v.pc \in {"ask", "lost"} /\ v.user = call[c].user
           /\ v.dto = call[c].dto /\ v.seen = call[c].seen,
         v.old = None \/ (v.old = call[c].old /\ v.user = call[c].user),
         v.pc = "point" => call[c].pc = "point" \/ c \in stored',
         call[c].pc \in {"upload", "point", "lost"} =>
           /\ v.pc \in {"upload", "point", "lost"}
           /\ v.user = call[c].user /\ v.old = call[c].old
  PROVE  IInv'
<1> USE DEF IInv, Typed
<1>1. TypeOK'
  BY RowsTyped DEF RowTypes
<1>2. call'[c] = v /\ \A d \in Calls : d # c => call'[d] = call[d]
  BY DEF TypeOK
<1>3. Checked'
  BY <1>2 DEF Checked
<1>4. Sole'
  BY SoleKept DEF Reviewing
<1>5. Numbered'
  <2>1. \A d \in Calls, u \in Members, p \in Values :
          Backs(d, u, p) => Backs(d, u, p)'
    BY <1>2, BacksKept
  <2>2. QED
    BY <2>1, NumberedKept
<1>6. Pictures'
  BY <1>2, PicturesKept
<1>7. QED
  BY <1>1, <1>3, <1>4, <1>5, <1>6

LEMMA ReadProfileKeeps ==
  ASSUME IInv, NEW c \in Calls, NEW u \in Users, NEW dto \in Patches,
         ReadProfile(c, u, dto)
  PROVE  IInv'
<1> DEFINE pc == CASE Direct(u, row[u], dto) # {} -> "write"
                   [] Direct(u, row[u], dto) = {} /\ Asks(u, row[u], dto) -> "ask"
                   [] OTHER -> "done"
           v == [pc |-> pc, user |-> u, dto |-> dto, seen |-> row[u],
                 old |-> None]
<1>1. pc \in {"write", "ask", "done"} /\ (pc = "ask" => u \in Members)
  BY DEF Asks
<1>2. /\ call[c].pc = "new" /\ call' = [call EXCEPT ![c] = v]
      /\ UNCHANGED <<row, change, photo, stored, review, contested>>
  BY DEF ReadProfile
<1> HIDE DEF pc
<1>3. v \in CallRow /\ v.pc = pc /\ v.user = u /\ v.old = None
  BY <1>1 DEF IInv, Typed, TypeOK, CallRow
<1> HIDE DEF v
<1>4. stored' = stored /\ stored \subseteq Calls \cup Users
  BY <1>2 DEF IInv, Typed, TypeOK
<1>5. change[c].status = "absent"
  BY <1>2 DEF IInv, Typed, Checked
<1>6. QED
  BY <1>1, <1>2, <1>3, <1>4, <1>5, CallStepKeeps

\* What the call is to delete is the photo of the user it is for.
LEMMA ReadPhotoKeeps ==
  ASSUME IInv, NEW c \in Calls, NEW u \in Users, ReadPhoto(c, u)
  PROVE  IInv'
<1> USE DEF IInv, Typed
<1> DEFINE pc == IF photo[u] = None THEN "upload" ELSE "delete"
           v == [call[c] EXCEPT !.user = u, !.old = photo[u], !.pc = pc]
<1>1. /\ call[c].pc = "new" /\ call' = [call EXCEPT ![c] = v]
      /\ UNCHANGED <<row, change, photo, stored, review, contested>>
  BY DEF ReadPhoto
<1>2. pc \in {"upload", "delete"}
  OBVIOUS
<1> HIDE DEF pc
<1>3. v \in CallRow /\ v.pc = pc /\ v.user = u /\ v.old = photo[u]
  <2>1. call[c] \in CallRow
    BY RowsTyped DEF RowTypes
  <2>2. photo[u] \in Calls \cup Users \cup {None}
    BY DEF TypeOK
  <2>3. QED
    BY <1>2, <2>1, <2>2 DEF CallRow
<1> HIDE DEF v
<1>4. TypeOK'
  BY <1>1, <1>3, RowsTyped DEF RowTypes
<1>5. call'[c] = v /\ \A d \in Calls : d # c => call'[d] = call[d]
  BY <1>1 DEF TypeOK
<1>6. Checked'
  BY <1>1, <1>2, <1>3, <1>5 DEF Checked
<1>7. Sole'
  BY <1>1, SoleKept DEF Reviewing
<1>8. Numbered'
  <2>1. \A d \in Calls, w \in Members, p \in Values :
          Backs(d, w, p) => Backs(d, w, p)'
    BY <1>1, <1>5, BacksKept
  <2>2. QED
    BY <1>1, <2>1, NumberedKept
<1>9. Pictures'
  <2>1. \A x, w : Owned(x, w) => Owned(x, w)'
    BY <1>1, <1>5, OwnedKept
  <2>2. \A w \in Users : photo'[w] # None => Owned(photo[w], w)'
    BY <1>1, <1>5 DEF Pictures, Owned
  <2>3. \A d \in Calls : call'[d].old # None => Owned(call[d].old, call[d].user)'
    BY <1>1, <1>3, <1>5 DEF Pictures, Owned
  <2>4. \A d \in Calls : call'[d].pc = "point" => d \in stored'
    BY <1>1, <1>2, <1>3, <1>5 DEF Pictures
  <2>5. PhotoThere'
    BY <1>1, <1>5 DEF Pictures, PhotoThere
  <2>6. QED
    BY <2>2, <2>3, <2>4, <2>5 DEF Pictures
<1>10. QED
  BY <1>4, <1>6, <1>7, <1>8, <1>9

LEMMA CallFailsKeeps ==
  ASSUME IInv, NEW c \in Calls, CallFails(c)
  PROVE  IInv'
<1> DEFINE v == [call[c] EXCEPT !.pc = "lost"]
<1>1. /\ call[c].pc \in {"write", "ask", "delete", "upload", "point"}
      /\ call' = [call EXCEPT ![c] = v]
      /\ UNCHANGED <<row, change, photo, stored, review, contested>>
  BY DEF CallFails, Goto
<1>2. /\ v \in CallRow /\ v.pc = "lost" /\ v.user = call[c].user
      /\ v.dto = call[c].dto /\ v.seen = call[c].seen /\ v.old = call[c].old
  <2>1. call[c] \in CallRow
    BY RowsTyped DEF RowTypes, IInv, Typed
  <2>2. QED
    BY <2>1, CallMoves
<1> HIDE DEF v
<1>3. stored' = stored /\ stored \subseteq Calls \cup Users
  BY <1>1 DEF IInv, Typed, TypeOK
<1>4. QED
  BY <1>1, <1>2, <1>3, CallStepKeeps

LEMMA UploadPhotoKeeps ==
  ASSUME IInv, NEW c \in Calls, UploadPhoto(c)
  PROVE  IInv'
<1> DEFINE v == [call[c] EXCEPT !.pc = "point"]
<1>1. /\ call[c].pc = "upload"
      /\ call' = [call EXCEPT ![c] = v] /\ stored' = stored \cup {c}
      /\ UNCHANGED <<row, change, photo, review, contested>>
  BY DEF UploadPhoto, Goto
<1>2. /\ v \in CallRow /\ v.pc = "point" /\ v.user = call[c].user
      /\ v.old = call[c].old
  <2>1. call[c] \in CallRow
    BY RowsTyped DEF RowTypes, IInv, Typed
  <2>2. QED
    BY <2>1, CallMoves
<1> HIDE DEF v
<1>3. stored' \subseteq Calls \cup Users /\ c \in stored'
  BY <1>1 DEF IInv, Typed, TypeOK
<1>4. v.user \in Users
  BY <1>1, <1>2 DEF IInv, Typed, Checked
<1>5. QED
  BY <1>1, <1>2, <1>3, <1>4, CallStepKeeps

\* The photo deleted is the caller's own, and no call is about to point to it.
LEMMA DeletePhotoKeeps ==
  ASSUME IInv, NEW c \in Calls, DeletePhoto(c)
  PROVE  IInv'
<1> USE DEF IInv, Typed
<1> DEFINE v == [call[c] EXCEPT !.pc = "upload"]
           old == call[c].old
<1>1. /\ call[c].pc = "delete" /\ call' = [call EXCEPT ![c] = v]
      /\ stored' = stored \/ stored' = stored \ {old}
      /\ UNCHANGED <<row, change, photo, review, contested>>
  BY DEF DeletePhoto, Goto
<1>2. /\ v \in CallRow /\ v.pc = "upload" /\ v.user = call[c].user
      /\ v.old = call[c].old
  <2>1. call[c] \in CallRow
    BY RowsTyped DEF RowTypes
  <2>2. QED
    BY <2>1, CallMoves
<1> HIDE DEF v
<1>3. TypeOK'
  BY <1>1, <1>2, RowsTyped DEF RowTypes
<1>4. call'[c] = v /\ \A d \in Calls : d # c => call'[d] = call[d]
  BY <1>1 DEF TypeOK
<1>5. Checked'
  BY <1>1, <1>2, <1>4 DEF Checked
<1>6. Sole'
  BY <1>1, SoleKept DEF Reviewing
<1>7. Numbered'
  <2>1. \A d \in Calls, u \in Members, p \in Values :
          Backs(d, u, p) => Backs(d, u, p)'
    BY <1>1, <1>4, BacksKept
  <2>2. QED
    BY <1>1, <2>1, NumberedKept
<1>8. Pictures'
  <2>1. call[c].user \in Users
    BY <1>1 DEF Checked
  <2>2. \A x, u : Owned(x, u) => Owned(x, u)'
    BY <1>1, <1>4, OwnedKept
  <2>3. \A u \in Users : photo'[u] # None => Owned(photo[u], u)'
    BY <1>1, <1>2, <1>4 DEF Pictures, Owned
  <2>4. \A d \in Calls : call'[d].old # None => Owned(call[d].old, call[d].user)'
    BY <1>1, <1>2, <1>4 DEF Pictures, Owned
  <2>5. ASSUME NEW d \in Calls, call'[d].pc = "point"
        PROVE  d \in stored'
    <3>1. call[d].pc = "point" /\ d \in stored
      BY <1>2, <1>4, <2>5 DEF Pictures
    <3>2. d # old
      BY <2>1, <3>1, ProfilesAssumption DEF Pictures, Owned
    <3>3. QED
      BY <1>1, <3>1, <3>2
  <2>6. ASSUME NEW u \in Users
        PROVE  photo'[u] \in stored' \cup {None}
                 \/ \E d \in Calls :
                      /\ call'[d].user = u /\ call'[d].old = photo'[u]
                      /\ call'[d].pc \in {"upload", "point", "lost"}
    <3>1. CASE photo[u] = old /\ old # None
      <4>1. Owned(old, u) /\ Owned(old, call[c].user)
        BY <3>1 DEF Pictures
      <4>2. u = call[c].user
        BY <2>1, <4>1, ProfilesAssumption DEF Owned
      <4>3. QED
        BY <1>1, <1>2, <1>4, <3>1, <4>2
    <3>2. CASE photo[u] # old /\ photo[u] \in stored \cup {None}
      BY <1>1, <3>2
    <3>3. CASE photo[u] \notin stored \cup {None}
      <4>1. PICK d \in Calls : /\ call[d].user = u /\ call[d].old = photo[u]
                               /\ call[d].pc \in {"upload", "point", "lost"}
        BY <3>3 DEF Pictures, PhotoThere
      <4>2. call'[d] = call[d]
        BY <1>1, <1>4, <4>1
      <4>3. QED
        BY <1>1, <4>1, <4>2
    <3>4. QED
      BY <1>1, <3>1, <3>2, <3>3
  <2>7. QED
    BY <2>3, <2>4, <2>5, <2>6 DEF Pictures, PhotoThere
<1>9. QED
  BY <1>3, <1>5, <1>6, <1>7, <1>8

LEMMA PointToPhotoKeeps ==
  ASSUME IInv, NEW c \in Calls, PointToPhoto(c)
  PROVE  IInv'
<1> USE DEF IInv, Typed
<1> DEFINE v == [call[c] EXCEPT !.pc = "done"]
           w == call[c].user
<1>1. /\ call[c].pc = "point" /\ call' = [call EXCEPT ![c] = v]
      /\ photo' = [photo EXCEPT ![w] = c]
      /\ UNCHANGED <<row, change, stored, review, contested>>
  BY DEF PointToPhoto, Goto
<1>2. /\ v \in CallRow /\ v.pc = "done" /\ v.user = w /\ v.old = call[c].old
  <2>1. call[c] \in CallRow
    BY RowsTyped DEF RowTypes
  <2>2. QED
    BY <2>1, CallMoves
<1> HIDE DEF v
<1>3. w \in Users /\ c \in stored
  BY <1>1 DEF Checked, Pictures
<1>4. TypeOK'
  BY <1>1, <1>2, <1>3, RowsTyped DEF RowTypes
<1>5. /\ call'[c] = v /\ \A d \in Calls : d # c => call'[d] = call[d]
      /\ photo'[w] = c /\ \A u \in Users : u # w => photo'[u] = photo[u]
  BY <1>1, <1>3 DEF TypeOK
<1>6. Checked'
  BY <1>1, <1>2, <1>5 DEF Checked
<1>7. Sole'
  BY <1>1, SoleKept DEF Reviewing
<1>8. Numbered'
  <2>1. \A d \in Calls, u \in Members, p \in Values :
          Backs(d, u, p) => Backs(d, u, p)'
    BY <1>1, <1>5, BacksKept
  <2>2. QED
    BY <1>1, <2>1, NumberedKept
<1>9. Pictures'
  <2>1. ASSUME NEW u \in Users, photo'[u] # None
        PROVE  Owned(photo[u], u)'
    BY <1>1, <1>2, <1>5, <2>1 DEF Pictures, Owned
  <2>2. \A d \in Calls : call'[d].old # None => Owned(call[d].old, call[d].user)'
    BY <1>1, <1>2, <1>5 DEF Pictures, Owned
  <2>3. \A d \in Calls : call'[d].pc = "point" => d \in stored'
    BY <1>1, <1>2, <1>5 DEF Pictures
  <2>4. ASSUME NEW u \in Users
        PROVE  photo'[u] \in stored' \cup {None}
                 \/ \E d \in Calls :
                      /\ call'[d].user = u /\ call'[d].old = photo'[u]
                      /\ call'[d].pc \in {"upload", "point", "lost"}
    <3>1. CASE u = w
      BY <1>1, <1>3, <1>5, <3>1
    <3>2. CASE u # w
      <4>1. \A d \in Calls : call[d].user = u => call'[d] = call[d]
        BY <1>5, <3>2
      <4>2. QED
        BY <1>1, <1>5, <3>2, <4>1 DEF Pictures, PhotoThere
    <3>3. QED
      BY <3>1, <3>2
  <2>5. QED
    BY <2>1, <2>2, <2>3, <2>4 DEF Pictures, PhotoThere
<1>10. QED
  BY <1>4, <1>6, <1>7, <1>8, <1>9

\* A first number is written by a call that goes on to ask for it.
LEMMA WriteDirectKeeps ==
  ASSUME IInv, NEW c \in Calls, WriteDirect(c)
  PROVE  IInv'
<1> USE DEF IInv, Typed
<1> DEFINE u == call[c].user
           dto == call[c].dto
           seen == call[c].seen
           patch == Part(dto, Direct(u, seen, dto))
           pc == IF Asks(u, seen, dto) THEN "ask" ELSE "done"
           v == [call[c] EXCEPT !.pc = pc]
           q == Patched(row[u], patch)
<1>1. /\ call[c].pc = "write" /\ call' = [call EXCEPT ![c] = v]
      /\ row' = [row EXCEPT ![u] = q]
      /\ UNCHANGED <<change, photo, stored, review, contested>>
  BY DEF WriteDirect, Goto
<1>2. pc \in {"ask", "done"} /\ (pc = "ask" => u \in Members)
  BY DEF Asks
<1>3. /\ u \in Users /\ dto \in Patches /\ row[u] \in Row /\ call[c] \in CallRow
      /\ row \in [Users -> Row]
  <2>1. u \in Users
    BY <1>1 DEF Checked
  <2>2. QED
    BY <2>1, RowsTyped DEF RowTypes, CallRow
<1>4. /\ v \in CallRow /\ v.pc = pc /\ v.user = u /\ v.dto = dto
      /\ v.seen = seen /\ v.old = call[c].old
  BY <1>2, <1>3, CallMoves DEF CallRow
<1>5. /\ q \in Row
      /\ q["phoneNo"] = IF "phoneNo" \in DOMAIN dto \cap Direct(u, seen, dto)
                        THEN dto["phoneNo"] ELSE row[u]["phoneNo"]
  <2>1. patch \in Patches
    BY <1>3, PartTyped
  <2>2. /\ DOMAIN patch = DOMAIN dto \cap Direct(u, seen, dto)
        /\ \A f \in DOMAIN dto \cap Direct(u, seen, dto) : patch[f] = dto[f]
    BY <1>3, PartTyped
  <2>3. q \in Row /\ \A f \in Fields : q[f] = IF f \in DOMAIN patch THEN patch[f]
                                              ELSE row[u][f]
    BY <1>3, <2>1, PatchedTyped
  <2>4. "phoneNo" \in Fields
    BY DEF Fields, AccountFields
  <2>5. QED
    BY <2>2, <2>3, <2>4
<1>6. ASSUME u \in Members, "phoneNo" \in DOMAIN dto \cap Direct(u, seen, dto)
      PROVE  pc = "ask" /\ seen["phoneNo"] = None
  <2>1. ~(DOMAIN dto \subseteq TeacherFields)
    BY <1>6 DEF TeacherFields
  <2>2. FirstPhone(seen, dto)
    BY <1>6, <2>1 DEF Direct
  <2>3. QED
    BY <1>6, <2>1, <2>2 DEF Asks, FirstPhone, Empty
<1> HIDE DEF u, dto, seen, q, pc, v
<1>7. TypeOK'
  BY <1>1, <1>3, <1>4, <1>5, RowsTyped DEF RowTypes
<1>8. /\ call'[c] = v /\ \A d \in Calls : d # c => call'[d] = call[d]
      /\ row'[u] = q /\ \A w \in Users : w # u => row'[w] = row[w]
  BY <1>1, <1>3 DEF TypeOK
<1>9. Checked'
  BY <1>1, <1>2, <1>3, <1>4, <1>8 DEF Checked
<1>10. Sole'
  BY <1>1, SoleKept DEF Reviewing
<1>11. Numbered'
  <2>1. \A d \in Calls, w \in Members, p \in Values :
          Backs(d, w, p) => Backs(d, w, p)'
    BY <1>1, <1>8, BacksKept
  <2>2. ASSUME NEW w \in Members, row'[w]["phoneNo"] # row[w]["phoneNo"]
        PROVE  Backs(c, w, row[w]["phoneNo"])'
    <3>1. w = u /\ row'[w]["phoneNo"] = q["phoneNo"]
      BY <1>8, <2>2, ProfilesAssumption
    <3>2. "phoneNo" \in DOMAIN dto \cap Direct(u, seen, dto)
      BY <1>5, <2>2, <3>1
    <3>3. q["phoneNo"] = dto["phoneNo"] /\ pc = "ask" /\ seen["phoneNo"] = None
      BY <1>5, <1>6, <3>1, <3>2
    <3>4. QED
      BY <1>4, <1>8, <3>1, <3>2, <3>3 DEF Backs, Owes
  <2>3. QED
    BY <2>1, <2>2, NumberedKept
<1>12. Pictures'
  BY <1>1, <1>2, <1>4, <1>8, PicturesKept DEF u
<1>13. QED
  BY <1>7, <1>9, <1>10, <1>11, <1>12

\* What asks for a number that a call wrote is a request for that number.
LEMMA CreateRequestKeeps ==
  ASSUME IInv, NEW c \in Calls, CreateRequest(c)
  PROVE  IInv'
<1> USE DEF IInv, Typed
<1> DEFINE dto == call[c].dto
           asked == Asked(call[c].seen, dto)
           v == [call[c] EXCEPT !.pc = "done"]
           new == [status |-> "PENDING", user |-> call[c].user,
                   wants |-> Part(dto, asked)]
<1>1. /\ call[c].pc = "ask" /\ call' = [call EXCEPT ![c] = v]
      /\ change' = [change EXCEPT ![c] = new]
      /\ UNCHANGED <<row, photo, stored, review, contested>>
  BY DEF CreateRequest, Goto
<1>2. /\ call[c] \in CallRow /\ dto \in Patches
      /\ call[c].user \in Members /\ change[c].status = "absent"
  <2>1. call[c] \in CallRow
    BY RowsTyped DEF RowTypes
  <2>2. QED
    BY <1>1, <2>1 DEF Checked, CallRow
<1>3. /\ v \in CallRow /\ v.pc = "done" /\ v.user = call[c].user
      /\ v.old = call[c].old
  BY <1>2, CallMoves
<1>4. /\ Part(dto, asked) \in Patches
      /\ DOMAIN Part(dto, asked) = DOMAIN dto \cap asked
      /\ \A f \in DOMAIN dto \cap asked : Part(dto, asked)[f] = dto[f]
  BY <1>2, PartTyped
<1>5. /\ new \in ChangeRow /\ new.status = "PENDING"
      /\ new.user = call[c].user /\ new.wants = Part(dto, asked)
  BY <1>2, <1>4 DEF ChangeRow
<1>6. ASSUME "phoneNo" \in DOMAIN dto, call[c].seen["phoneNo"] = None
      PROVE  "phoneNo" \in DOMAIN new.wants /\ new.wants["phoneNo"] = dto["phoneNo"]
  <2>1. ~(DOMAIN dto \subseteq TeacherFields) /\ FirstPhone(call[c].seen, dto)
    BY <1>6 DEF TeacherFields, FirstPhone, Empty
  <2>2. asked = {"phoneNo"}
    BY <2>1 DEF Asked
  <2>3. QED
    BY <1>4, <1>5, <1>6, <2>2
<1> HIDE DEF v, new, asked
<1>7. TypeOK'
  BY <1>1, <1>3, <1>5, RowsTyped DEF RowTypes
<1>8. /\ call'[c] = v /\ \A d \in Calls : d # c => call'[d] = call[d]
      /\ change'[c] = new /\ \A d \in Calls : d # c => change'[d] = change[d]
  BY <1>1 DEF TypeOK
<1>9. Checked'
  BY <1>1, <1>2, <1>3, <1>5, <1>8 DEF Checked
<1>10. \A r \in Reviews : ~Reviewing(r, c)
  BY <1>2 DEF Reviewing, Checked
<1>11. Sole'
  <2>1. \A r \in Reviews, d \in Calls : Reviewing(r, d)' =>
          Reviewing(r, d) /\ d # c
    BY <1>1, <1>10 DEF Reviewing
  <2>2. QED
    BY <1>1, <1>8, <2>1, SoleKept
<1>12. Numbered'
  <2>1. ASSUME NEW d \in Calls, d # c, NEW u \in Members, NEW p \in Values,
               Backs(d, u, p)
        PROVE  Backs(d, u, p)'
    BY <1>1, <1>8, <2>1, BacksKept
  <2>2. ASSUME NEW u \in Members, NEW p \in Values, Backs(c, u, p)
        PROVE  Backs(c, u, p)'
    <3>1. Owes(c, u, p) /\ call[c].seen["phoneNo"] = None
      BY <1>2, <2>2 DEF Backs
    <3>2. \A r \in Reviews : ~(review'[r].pc = "wipe" /\ review'[r].change = c)
      BY <1>1, <1>10 DEF Reviewing
    <3>3. new.user = u /\ "phoneNo" \in DOMAIN new.wants /\ new.wants["phoneNo"] = p
      BY <1>5, <1>6, <3>1 DEF Owes
    <3>4. QED
      BY <1>5, <1>8, <3>2, <3>3 DEF Backs, Wanted
  <2>3. QED
    BY <1>1, <2>1, <2>2, NumberedKept
<1>13. Pictures'
  BY <1>1, <1>3, <1>8, PicturesKept
<1>14. QED
  BY <1>7, <1>9, <1>11, <1>12, <1>13

-----------------------------------------------------------------------------
(* approveRequest and rejectRequest                                        *)

\* A review leaves the calls and the photos alone.
LEMMA ReviewKeepsPictures ==
  ASSUME IInv, UNCHANGED <<photo, stored, call>>
  PROVE  Pictures'
  BY PicturesKept DEF IInv

LEMMA CheckRequestKeeps ==
  ASSUME IInv, NEW v \in Reviews, NEW p \in Users, NEW c \in Calls,
         NEW approve \in BOOLEAN, CheckRequest(v, p, c, approve)
  PROVE  IInv'
<1> USE DEF IInv, Typed
<1>1. /\ review[v].pc = "new" /\ UNCHANGED <<row, change, photo, stored, call>>
      /\ contested \subseteq contested' /\ contested' \subseteq contested \cup {c}
  BY DEF CheckRequest
<1>2. PICK w \in ReviewRow :
        /\ review' = [review EXCEPT ![v] = w]
        /\ \/ /\ w.pc = "decide" /\ w.change = c /\ MayReview(p, c)
              /\ (\E r \in Reviews : Reviewing(r, c)) => c \in contested'
           \/ w.pc = "denied"
  <2>1. CASE MayReview(p, c)
    <3> DEFINE w == [pc |-> "decide", change |-> c, approve |-> approve,
                     saw |-> None]
    <3>1. w \in ReviewRow /\ w.pc = "decide" /\ w.change = c
      BY DEF ReviewRow
    <3>2. /\ review' = [review EXCEPT ![v] = w]
          /\ (\E r \in Reviews : Reviewing(r, c)) => c \in contested'
      BY <2>1 DEF CheckRequest
    <3> HIDE DEF w
    <3>3. QED
      BY <2>1, <3>1, <3>2
  <2>2. CASE ~MayReview(p, c)
    <3> DEFINE w == [review[v] EXCEPT !.pc = "denied"]
    <3>1. w \in ReviewRow /\ w.pc = "denied"
      BY RowsTyped, ReviewMoves DEF RowTypes
    <3>2. review' = [review EXCEPT ![v] = w]
      BY <2>2 DEF CheckRequest
    <3> HIDE DEF w
    <3>3. QED
      BY <3>1, <3>2
  <2>3. QED
    BY <2>1, <2>2
<1>3. review'[v] = w /\ \A r \in Reviews : r # v => review'[r] = review[r]
  BY <1>2 DEF TypeOK
<1>4. TypeOK'
  BY <1>1, <1>2, RowsTyped DEF RowTypes
<1>5. Checked'
  BY <1>1, <1>2, <1>3 DEF Checked, MayReview
<1>6. Sole'
  <2>1. SUFFICES ASSUME NEW d \in Calls \ contested'
                 PROVE  /\ \A r, s \in Reviews :
                             Reviewing(r, d)' /\ Reviewing(s, d)' => r = s
                        /\ \A r \in Reviews :
                             Reviewing(r, d)' => change'[d].status = "PENDING"
    BY DEF Sole
  <2>2. \A r \in Reviews : r # v => (Reviewing(r, d)' <=> Reviewing(r, d))
    BY <1>3 DEF Reviewing
  <2>3. Reviewing(v, d)' =>
          change[d].status = "PENDING" /\ \A r \in Reviews : ~Reviewing(r, d)
    BY <1>2, <1>3, <2>1 DEF Reviewing, MayReview
  <2>4. d \in Calls \ contested
    BY <1>1, <2>1
  <2>5. QED
    BY <1>1, <2>2, <2>3, <2>4 DEF Sole
<1>7. Numbered'
  <2>1. \A d \in Calls, u \in Members, q \in Values :
          Backs(d, u, q) => Backs(d, u, q)'
    BY <1>1, <1>2, <1>3, BacksKept
  <2>2. QED
    BY <1>1, <2>1, NumberedKept
<1>8. QED
  BY <1>1, <1>4, <1>5, <1>6, <1>7, ReviewKeepsPictures

LEMMA ReviewFailsKeeps ==
  ASSUME IInv, NEW v \in Reviews, ReviewFails(v)
  PROVE  IInv'
<1> USE DEF IInv, Typed
<1> DEFINE w == [review[v] EXCEPT !.pc = "failed"]
<1>1. /\ review' = [review EXCEPT ![v] = w]
      /\ UNCHANGED <<row, change, photo, stored, call, contested>>
  BY DEF ReviewFails
<1>2. w \in ReviewRow /\ w.pc = "failed"
  BY RowsTyped, ReviewMoves DEF RowTypes
<1> HIDE DEF w
<1>3. review'[v] = w /\ \A r \in Reviews : r # v => review'[r] = review[r]
  BY <1>1 DEF TypeOK
<1>4. TypeOK' /\ Checked'
  <2>1. TypeOK'
    BY <1>1, <1>2, RowsTyped DEF RowTypes
  <2>2. QED
    BY <1>1, <1>2, <1>3, <2>1 DEF Checked
<1>5. Sole'
  BY <1>1, <1>2, <1>3, SoleKept DEF Reviewing
<1>6. Numbered'
  <2>1. \A d \in Calls, u \in Members, q \in Values :
          Backs(d, u, q) => Backs(d, u, q)'
    BY <1>1, <1>2, <1>3, BacksKept
  <2>2. QED
    BY <1>1, <2>1, NumberedKept
<1>7. QED
  BY <1>1, <1>4, <1>5, <1>6, ReviewKeepsPictures

\* A review under way is of a request of a member.
LEMMA ReviewedTyped ==
  ASSUME Typed, NEW v \in Reviews, review[v].pc \in {"decide", "wipe"}
  PROVE  LET c == review[v].change IN
         /\ c \in Calls /\ change[c] \in ChangeRow /\ review[v] \in ReviewRow
         /\ change[c].user \in Members /\ change[c].user \in Users
         /\ change[c].wants \in Patches /\ row[change[c].user] \in Row
<1>1. review[v].change \in Calls /\ review[v] \in ReviewRow
  BY RowsTyped DEF Typed, Checked, RowTypes
<1>2. change[review[v].change] \in ChangeRow
  BY <1>1, RowsTyped DEF Typed, RowTypes
<1>3. change[review[v].change].user \in Members
  BY <1>1 DEF Typed, Checked
<1>4. QED
  BY <1>1, <1>2, <1>3, ProfilesAssumption DEF ChangeRow, Typed, TypeOK

\* The number an approval writes is backed by the request approved.
LEMMA ApproveRequestKeeps ==
  ASSUME IInv, NEW v \in Reviews, NEW c \in Calls, review[v].change = c,
         ApproveRequest(v)
  PROVE  IInv'
<1> USE DEF IInv, Typed
<1> DEFINE w == [review[v] EXCEPT !.pc = "done"]
           new == [change[c] EXCEPT !.status = "APPROVED"]
           owner == change[c].user
           wants == change[c].wants
           q == Patched(row[owner], wants)
<1>1. /\ review[v].pc = "decide" /\ Unlocked(c)
      /\ review' = [review EXCEPT ![v] = w]
      /\ change' = [change EXCEPT ![c] = new]
      /\ row' = [row EXCEPT ![owner] = q]
      /\ UNCHANGED <<photo, stored, call, contested>>
  BY DEF ApproveRequest
<1>2. /\ change[c] \in ChangeRow /\ review[v] \in ReviewRow
      /\ owner \in Members /\ owner \in Users
      /\ wants \in Patches /\ row[owner] \in Row
  BY <1>1, ReviewedTyped
<1>3. w \in ReviewRow /\ w.pc = "done"
  BY <1>2, ReviewMoves
<1>4. /\ new \in ChangeRow /\ new.status = "APPROVED" /\ new.user = owner
      /\ new.wants = wants
  BY <1>2, ChangeMoves
<1>5. /\ q \in Row
      /\ q["phoneNo"] = IF "phoneNo" \in DOMAIN wants THEN wants["phoneNo"]
                        ELSE row[owner]["phoneNo"]
  BY <1>2, PatchedTyped DEF Fields, AccountFields
<1> HIDE DEF w, new, q
<1>6. /\ review'[v] = w /\ \A r \in Reviews : r # v => review'[r] = review[r]
      /\ change'[c] = new /\ \A d \in Calls : d # c => change'[d] = change[d]
      /\ row'[owner] = q /\ \A u \in Users : u # owner => row'[u] = row[u]
  BY <1>1, <1>2 DEF TypeOK
<1>7. TypeOK'
  BY <1>1, <1>2, <1>3, <1>4, <1>5, RowsTyped DEF RowTypes
<1>8. Checked'
  BY <1>1, <1>2, <1>3, <1>4, <1>6 DEF Checked
<1>9. Sole'
  <2>1. ASSUME NEW r \in Reviews, NEW d \in Calls \ contested, Reviewing(r, d)'
        PROVE  Reviewing(r, d) /\ change'[d].status = change[d].status
    <3>1. r # v /\ Reviewing(r, d)
      BY <1>3, <1>6, <2>1 DEF Reviewing
    <3>2. d # c
      BY <1>1, <2>1, <3>1 DEF Sole, Reviewing
    <3>3. QED
      BY <1>6, <3>1, <3>2
  <2>2. QED
    BY <1>1, <2>1, SoleKept
<1>10. Numbered'
  <2>1. \A d \in Calls, u \in Members, p \in Values :
          Backs(d, u, p) => Backs(d, u, p)'
    BY <1>1, <1>3, <1>4, <1>6, BacksKept
  <2>2. ASSUME NEW u \in Members, row'[u]["phoneNo"] # row[u]["phoneNo"]
        PROVE  Backs(c, u, row[u]["phoneNo"])'
    <3>1. u = owner /\ row'[u]["phoneNo"] = q["phoneNo"]
      BY <1>6, <2>2, ProfilesAssumption
    <3>2. "phoneNo" \in DOMAIN wants /\ q["phoneNo"] = wants["phoneNo"]
      BY <1>5, <2>2, <3>1
    <3>3. \A r \in Reviews : ~(review'[r].pc = "wipe" /\ review'[r].change = c)
      BY <1>1, <1>3, <1>6 DEF Unlocked
    <3>4. QED
      BY <1>4, <1>6, <3>1, <3>2, <3>3 DEF Backs, Wanted
  <2>3. QED
    BY <2>1, <2>2, NumberedKept
<1>11. QED
  BY <1>1, <1>7, <1>8, <1>9, <1>10, ReviewKeepsPictures

\* The number a rejection reads is the one that its request may have to back.
LEMMA ReadNumberKeeps ==
  ASSUME IInv, NEW v \in Reviews, NEW c \in Calls, review[v].change = c,
         ReadNumber(v)
  PROVE  IInv'
<1> USE DEF IInv, Typed
<1> DEFINE owner == change[c].user
           number == row[owner]["phoneNo"]
           w == [review[v] EXCEPT !.pc = "wipe", !.saw = number]
<1>1. /\ review[v].pc = "decide" /\ review' = [review EXCEPT ![v] = w]
      /\ UNCHANGED <<row, change, photo, stored, call, contested>>
  BY DEF ReadNumber
<1>2. /\ change[c] \in ChangeRow /\ review[v] \in ReviewRow
      /\ owner \in Members /\ owner \in Users /\ row[owner] \in Row
  BY <1>1, ReviewedTyped
<1>3. w \in ReviewRow /\ w.pc = "wipe" /\ w.change = c /\ w.saw = number
  <2>1. number \in Values \cup {None}
    BY <1>2 DEF Row, Fields, AccountFields
  <2>2. QED
    BY <1>2, <2>1 DEF ReviewRow
<1> HIDE DEF w
<1>4. review'[v] = w /\ \A r \in Reviews : r # v => review'[r] = review[r]
  BY <1>1 DEF TypeOK
<1>5. TypeOK'
  BY <1>1, <1>3, RowsTyped DEF RowTypes
<1>6. Checked'
  BY <1>1, <1>3, <1>4 DEF Checked
<1>7. Sole'
  BY <1>1, <1>3, <1>4, SoleKept DEF Reviewing
<1>8. Numbered'
  <2>1. ASSUME NEW d \in Calls, NEW u \in Members, NEW p \in Values,
               Backs(d, u, p), row[u]["phoneNo"] = p
        PROVE  Backs(d, u, p)'
    <3>1. CASE Owes(d, u, p) /\ call[d].seen["phoneNo"] = None
      BY <1>1, <3>1 DEF Backs, Owes
    <3>2. CASE ~(Owes(d, u, p) /\ call[d].seen["phoneNo"] = None)
      <4>1. change[d].user = u
        BY <2>1, <3>2 DEF Backs
      <4>2. d = c => w.saw = p
        BY <1>3, <2>1, <4>1
      <4>3. QED
        BY <1>1, <1>3, <1>4, <2>1, <4>2, BacksKept
    <3>3. QED
      BY <3>1, <3>2
  <2>2. QED
    BY <1>1, <2>1, NumberedKept
<1>9. QED
  BY <1>1, <1>5, <1>6, <1>7, <1>8, ReviewKeepsPictures

\* A rejection that leaves the number in the row was not what backed it.
LEMMA RejectRequestKeeps ==
  ASSUME IInv, NEW v \in Reviews, NEW c \in Calls, review[v].change = c,
         RejectRequest(v)
  PROVE  IInv'
<1> USE DEF IInv, Typed
<1> DEFINE w == [review[v] EXCEPT !.pc = "done"]
           new == [change[c] EXCEPT !.status = "REJECTED"]
           owner == change[c].user
           q == [row[owner] EXCEPT !["phoneNo"] = None]
<1>1. /\ review[v].pc = "wipe"
      /\ review' = [review EXCEPT ![v] = w]
      /\ change' = [change EXCEPT ![c] = new]
      /\ row' = IF review[v].saw = Wanted(c) THEN [row EXCEPT ![owner] = q]
                ELSE row
      /\ UNCHANGED <<photo, stored, call, contested>>
  BY DEF RejectRequest
<1>2. /\ change[c] \in ChangeRow /\ review[v] \in ReviewRow
      /\ owner \in Members /\ owner \in Users /\ row[owner] \in Row
  BY <1>1, ReviewedTyped
<1>3. w \in ReviewRow /\ w.pc = "done"
  BY <1>2, ReviewMoves
<1>4. new \in ChangeRow /\ new.status = "REJECTED" /\ new.user = owner
  BY <1>2, ChangeMoves
<1>5. q \in Row /\ q["phoneNo"] = None
  BY <1>2 DEF Row, Fields, AccountFields
<1> HIDE DEF w, new, q
<1>6. /\ review'[v] = w /\ \A r \in Reviews : r # v => review'[r] = review[r]
      /\ change'[c] = new /\ \A d \in Calls : d # c => change'[d] = change[d]
      /\ review[v].saw = Wanted(c) => row'[owner] = q
      /\ \A u \in Users : u # owner => row'[u] = row[u]
      /\ review[v].saw # Wanted(c) => row' = row
  BY <1>1, <1>2 DEF TypeOK
<1>7. TypeOK'
  <2>1. row' \in [Users -> Row]
    BY <1>1, <1>2, <1>5, RowsTyped DEF RowTypes
  <2>2. QED
    BY <1>1, <1>3, <1>4, <2>1, RowsTyped DEF RowTypes
<1>8. Checked'
  BY <1>1, <1>2, <1>3, <1>4, <1>6 DEF Checked
<1>9. Sole'
  <2>1. ASSUME NEW r \in Reviews, NEW d \in Calls \ contested, Reviewing(r, d)'
        PROVE  Reviewing(r, d) /\ change'[d].status = change[d].status
    <3>1. r # v /\ Reviewing(r, d)
      BY <1>3, <1>6, <2>1 DEF Reviewing
    <3>2. d # c
      BY <1>1, <2>1, <3>1 DEF Sole, Reviewing
    <3>3. QED
      BY <1>6, <3>1, <3>2
  <2>2. QED
    BY <1>1, <2>1, SoleKept
<1>10. Numbered'
  <2>1. ASSUME NEW d \in Calls, d # c, NEW u \in Members, NEW p \in Values,
               Backs(d, u, p)
        PROVE  Backs(d, u, p)'
    BY <1>1, <1>3, <1>6, <2>1, BacksKept
  <2>2. ASSUME NEW u \in Members, NEW p \in Values, Backs(c, u, p)
        PROVE  row'[u]["phoneNo"] = None
    <3>1. ~Owes(c, u, p)
      BY <1>1 DEF Checked, Owes
    <3>2. u = owner /\ Wanted(c) = p /\ review[v].saw = p
      BY <1>1, <2>2, <3>1 DEF Backs
    <3>3. QED
      BY <1>5, <1>6, <3>2
  <2>3. \A u \in Members : row'[u]["phoneNo"] \in {None, row[u]["phoneNo"]}
    BY <1>5, <1>6, ProfilesAssumption
  <2>4. QED
    BY <2>1, <2>2, <2>3, NumberedKept, ProfilesAssumption
<1>11. QED
  BY <1>1, <1>7, <1>8, <1>9, <1>10, ReviewKeepsPictures

-----------------------------------------------------------------------------
(* What the invariant gives                                                *)

LEMMA IInvNext == IInv /\ [Next]_vars => IInv'
<1> SUFFICES ASSUME IInv, [Next]_vars PROVE IInv'
  OBVIOUS
<1>1. ASSUME NEW c \in Calls, Update(c)
      PROVE  IInv'
  BY <1>1, ReadProfileKeeps, ReadPhotoKeeps, WriteDirectKeeps,
     CreateRequestKeeps, DeletePhotoKeeps, UploadPhotoKeeps, PointToPhotoKeeps,
     CallFailsKeeps
  DEF Update, Patches
<1>2. ASSUME NEW v \in Reviews, Review(v)
      PROVE  IInv'
  <2>1. CASE review[v].pc \in {"decide", "wipe"}
    <3>1. PICK c \in Calls : review[v].change = c
      BY <2>1 DEF IInv, Typed, Checked
    <3>2. QED
      BY <1>2, <3>1, CheckRequestKeeps, ApproveRequestKeeps, ReadNumberKeeps,
         RejectRequestKeeps, ReviewFailsKeeps
      DEF Review
  <2>2. CASE review[v].pc \notin {"decide", "wipe"}
    BY <1>2, <2>2, CheckRequestKeeps
    DEF Review, ApproveRequest, ReadNumber, RejectRequest, ReviewFails
  <2>3. QED
    BY <2>1, <2>2
<1>3. CASE UNCHANGED vars
  <2> USE <1>3 DEF vars, IInv, Typed
  <2>1. TypeOK' /\ Checked'
    BY DEF TypeOK, Checked
  <2>2. Sole' /\ Pictures'
    BY SoleKept, ReviewKeepsPictures DEF Reviewing
  <2>3. Numbered'
    BY NumberedKept, BacksKept
  <2>4. QED
    BY <2>1, <2>2, <2>3
<1>4. QED
  BY <1>1, <1>2, <1>3 DEF Next

\* Updates, photos and reviews, overlapping and failing anywhere, keep the
\* invariant.
THEOREM ProfilesInvariant == Spec => []IInv
  BY IInvInit, IInvNext, PTL DEF Spec

LEMMA BackedIsReviewed == IInv => NumbersReviewed
<1> SUFFICES ASSUME IInv, NEW u \in Members,
                    row[u]["phoneNo"] \notin {None, Created[u]["phoneNo"]}
             PROVE  \E c \in Calls :
                      \/ Owes(c, u, row[u]["phoneNo"])
                      \/ /\ change[c].user = u /\ Wanted(c) = row[u]["phoneNo"]
                         /\ change[c].status \in {"PENDING", "APPROVED"}
  BY DEF NumbersReviewed
<1>1. PICK c \in Calls : Backs(c, u, row[u]["phoneNo"])
  BY DEF IInv, Numbered, Backed
<1>2. QED
  BY <1>1 DEF Backs

\* A number that a member shows came with the account or is put up for approval
\* or approved (updateProfile, approveRequest, rejectRequest).
THEOREM NumbersAreReviewed == Spec => []NumbersReviewed
  BY BackedIsReviewed, ProfilesInvariant, PTL

\* A profile shows a photo that is there, unless a call that deleted it has yet
\* to replace it or failed to (updateProfilePhoto).
THEOREM PhotoIsThere == Spec => []PhotoThere
<1>1. IInv => PhotoThere
  BY DEF IInv, Pictures
<1>2. QED
  BY <1>1, ProfilesInvariant, PTL

-----------------------------------------------------------------------------
(* What a step may not do                                                  *)

\* Only these write requests and rows.
Writer(c) == WriteDirect(c) \/ CreateRequest(c)
Judge(v) == ApproveRequest(v) \/ RejectRequest(v)

LEMMA OnlyTheseWrite ==
  ASSUME [Next]_vars, ~(UNCHANGED <<row, change>>)
  PROVE  (\E c \in Calls : Writer(c)) \/ (\E v \in Reviews : Judge(v))
<1>1. ASSUME NEW c \in Calls, Update(c), ~Writer(c)
      PROVE  UNCHANGED <<row, change>>
  BY <1>1
  DEF Update, Writer, ReadProfile, ReadPhoto, DeletePhoto, UploadPhoto,
      PointToPhoto, CallFails
<1>2. ASSUME NEW v \in Reviews, Review(v), ~Judge(v)
      PROVE  UNCHANGED <<row, change>>
  BY <1>2 DEF Review, Judge, CheckRequest, ReadNumber, ReviewFails
<1>3. UNCHANGED vars => UNCHANGED <<row, change>>
  BY DEF vars
<1>4. QED
  BY <1>1, <1>2, <1>3 DEF Next

\* A request that no two reviewed at once changes only while it is pending.
LEMMA DecidedStays ==
  ASSUME IInv, [Next]_vars, NEW c \in Calls \ contested,
         change[c].status \in {"APPROVED", "REJECTED"}
  PROVE  change'[c].status = change[c].status
<1> USE DEF IInv, Typed
<1>0. DOMAIN change = Calls
  BY DEF TypeOK
<1>1. ASSUME NEW d \in Calls, Writer(d)
      PROVE  change'[c] = change[c]
  <2>1. CASE WriteDirect(d)
    BY <2>1 DEF WriteDirect
  <2>2. CASE CreateRequest(d)
    <3>1. c # d
      BY <2>2 DEF CreateRequest, Checked
    <3>2. QED
      BY <1>0, <2>2, <3>1 DEF CreateRequest
  <2>3. QED
    BY <1>1, <2>1, <2>2 DEF Writer
<1>2. ASSUME NEW v \in Reviews, Judge(v)
      PROVE  change'[c] = change[c]
  <2>1. review[v].pc \in {"decide", "wipe"}
    BY <1>2 DEF Judge, ApproveRequest, RejectRequest
  <2>2. c # review[v].change
    BY <2>1 DEF Sole, Reviewing
  <2>3. QED
    BY <1>0, <1>2, <2>2 DEF Judge, ApproveRequest, RejectRequest
<1>3. QED
  BY <1>1, <1>2, OnlyTheseWrite

\* A decision stands (approveRequest, rejectRequest).
THEOREM DecisionIsKept == Spec => DecisionStands
<1>1. IInv /\ [Next]_vars =>
        [\A c \in Calls \ contested :
           change[c].status \in {"APPROVED", "REJECTED"} =>
             change'[c].status = change[c].status]_vars
  BY DecidedStays
<1>2. QED
  BY <1>1, ProfilesInvariant, PTL DEF Spec, DecisionStands

\* A field that is overwritten is overwritten by one of three.
LEMMA OverwrittenBy ==
  ASSUME IInv, [Next]_vars, NEW u \in Members, NEW f \in Fields,
         row[u][f] # None, row'[u][f] # row[u][f]
  PROVE  Overwrites(u, f)
<1> USE DEF IInv, Typed
<1>0. u \in Users /\ row[u] \in Row /\ row[u][f] \in Values
  BY ProfilesAssumption DEF TypeOK, Row
<1>1. ASSUME NEW c \in Calls, Writer(c)
      PROVE  Overwrites(u, f)
  <2> DEFINE w == call[c].user
             dto == call[c].dto
             seen == call[c].seen
             patch == Part(dto, Direct(w, seen, dto))
  <2>1. /\ WriteDirect(c) /\ row' = [row EXCEPT ![w] = Patched(row[w], patch)]
        /\ call[c].pc = "write"
    BY <1>1 DEF Writer, CreateRequest, WriteDirect
  <2>2. call[c] \in CallRow /\ dto \in Patches
    BY RowsTyped DEF RowTypes, CallRow
  <2>3. u = w /\ row'[u] = Patched(row[u], patch)
    BY <1>0, <2>1 DEF TypeOK
  <2>4. DOMAIN patch = DOMAIN dto \cap Direct(w, seen, dto) /\ patch \in Patches
    BY <2>2, PartTyped
  <2>5. f \in DOMAIN dto \cap Direct(w, seen, dto)
    BY <1>0, <2>3, <2>4, PatchedTyped
  <2>6. seen[f] = None
    BY <2>3, <2>5 DEF Direct, FirstPhone, Empty
  <2>7. call'[c].pc # "write"
    BY <2>1, <2>2 DEF WriteDirect, Goto, TypeOK
  <2>8. QED
    BY <2>1, <2>3, <2>6, <2>7 DEF Overwrites
<1>2. ASSUME NEW v \in Reviews, Judge(v)
      PROVE  Overwrites(u, f)
  <2> DEFINE c == review[v].change
             owner == change[c].user
  <2>1. /\ review[v].pc \in {"decide", "wipe"}
        /\ review' = [review EXCEPT ![v].pc = "done"]
    BY <1>2 DEF Judge, ApproveRequest, RejectRequest
  <2>2. /\ c \in Calls /\ change[c] \in ChangeRow /\ review[v] \in ReviewRow
        /\ owner \in Users /\ change[c].wants \in Patches /\ row[owner] \in Row
    BY <2>1, ReviewedTyped
  <2>3. review'[v].pc = "done"
    BY <2>1, <2>2 DEF TypeOK, ReviewRow
  <2>4. CASE ApproveRequest(v)
    <3>1. /\ row' = [row EXCEPT ![owner] = Patched(row[owner], change[c].wants)]
          /\ change'[c].status = "APPROVED"
      BY <2>2, <2>4 DEF ApproveRequest, TypeOK, ChangeRow
    <3>2. u = owner /\ row'[u] = Patched(row[u], change[c].wants)
      BY <1>0, <3>1 DEF TypeOK
    <3>3. f \in DOMAIN change[c].wants /\ row'[u][f] = change[c].wants[f]
      BY <1>0, <2>2, <3>2, PatchedTyped
    <3>4. QED
      BY <2>1, <2>3, <3>1, <3>2, <3>3 DEF Overwrites, Finishes
  <2>5. CASE RejectRequest(v)
    <3>1. /\ row' = IF review[v].saw = Wanted(c)
                    THEN [row EXCEPT ![owner]["phoneNo"] = None] ELSE row
          /\ change'[c].status = "REJECTED"
      BY <2>2, <2>5 DEF RejectRequest, TypeOK, ChangeRow
    <3>2. /\ u = owner /\ f = "phoneNo" /\ row'[u][f] = None
          /\ review[v].saw = Wanted(c)
      BY <1>0, <2>2, <3>1 DEF TypeOK, Row
    <3>3. row[u][f] \in {Wanted(c)} \cup (Values \ {review[v].saw})
      BY <1>0, <3>2
    <3>4. QED
      BY <2>1, <2>3, <3>1, <3>2, <3>3 DEF Overwrites, Finishes
  <2>6. QED
    BY <1>2, <2>4, <2>5 DEF Judge
<1>3. QED
  BY <1>1, <1>2, OnlyTheseWrite

\* A member's filled fields change by approval, unless handlers overlap
\* (updateProfile, approveRequest, rejectRequest).
THEOREM ChangesGoThroughApproval == Spec => ChangesAreApproved
<1>1. IInv /\ [Next]_vars =>
        [\A u \in Members, f \in Fields :
           row[u][f] # None /\ row'[u][f] # row[u][f] => Overwrites(u, f)]_vars
  BY OverwrittenBy
<1>2. QED
  BY <1>1, ProfilesInvariant, PTL DEF Spec, ChangesAreApproved
=============================================================================
