---------------------------- MODULE MessagingProofs ----------------------------
(***************************************************************************)
(* Proofs about Messaging, for any users, sockets, calls and messages and   *)
(* any number of crashes; and, in the last part, about Sessions, which     *)
(* shares no variable, constant or definition with it.                     *)
(***************************************************************************)
EXTENDS Messaging, Sessions, TLAPS

ConversationRow == [who : SUBSET Users, type : Types \cup {"GROUP", None},
                    status : {"ACTIVE", "ARCHIVED"}]
CallState == [pc : {"new", "looking", "creating", "done"},
              who : SUBSET Users, type : Types \cup {None}]
MessageRow == [pc : {"new", "verified", "stored", "queued", "working", "done",
                     "failed", "unqueued", "dropped"},
               in : Ids \cup {None}, sender : Users \cup {None}]

ChatsOK ==
  /\ conversation \in [Ids -> ConversationRow]
  /\ call \in [Requests -> CallState]
  /\ raced \in SUBSET SUBSET Users
  /\ overdue \in BOOLEAN /\ cron \in {"idle", "listed"}

DeliveryOK ==
  /\ message \in [Messages -> MessageRow]
  /\ queue \in Seq(Messages)
  /\ job \in [of : Messages \cup {None}, left : SUBSET Users]
  /\ stalls \in [Messages -> Nat]
  /\ shown \in [Messages -> SUBSET Users] /\ pushed \in [Messages -> SUBSET Users]
  /\ since \in [Messages -> SUBSET Sockets]

GatewayOK ==
  /\ socket \in [Sockets -> {"new", "open", "gone", "closed"}]
  /\ remembered \in [Users -> Sockets \cup {None}]
  /\ line \in Seq(Sockets)

TypeOK == ChatsOK /\ DeliveryOK /\ GatewayOK /\ crashes \in Nat

\* A call under way has participants, and nothing is created in its name yet.
Holding ==
  \A r \in Requests :
    /\ call[r].pc # "done" => conversation[r].who = {}
    /\ call[r].pc \in {"looking", "creating"} =>
         call[r].who # {} /\ call[r].type \in Types
    /\ call[r].pc = "looking" => call[r].type = "DIRECT"

-----------------------------------------------------------------------------
(* The inductive invariant: conversations                                  *)

\* A conversation of fewer of them, which fits the search for these two.
Shadowed(who) ==
  \E k \in Directs : conversation[k].who \subseteq who /\ conversation[k].who # who

\* A call that is past the search.
Creating(r) == call[r].pc = "creating" /\ Cardinality(call[r].who) = 2

\* One that is about to create a second conversation has a reason that
\* OneDirect allows, since the search or since a later search.
Searched ==
  \A r \in Requests : Creating(r) /\ call[r].type = "DIRECT" =>
    /\ \A j \in Directs : conversation[j].who = call[r].who =>
         \/ call[r].who \in raced \/ conversation[j].type = "untyped"
         \/ Shadowed(call[r].who)
    /\ \A q \in Requests \ {r} :
         Creating(q) /\ call[q].type = "DIRECT" /\ call[q].who = call[r].who
           => call[r].who \in raced

-----------------------------------------------------------------------------
(* The inductive invariant: deliveries                                     *)

\* The message is in a conversation, which nobody leaves.
Placed ==
  \A m \in Messages : message[m].pc # "new" =>
    /\ message[m].in \in Ids /\ message[m].sender \in Users
    /\ conversation[message[m].in].who # {}

\* What is queued or at work was stored: its conversation is known.
Posted(m) == message[m].pc \notin {"new", "verified"}

Stored ==
  /\ \A k \in DOMAIN queue : Posted(queue[k])
  /\ IF job.of = None THEN job = NoJob ELSE Posted(job.of)

\* A socket that connected is in line; the one remembered has not closed, and
\* is the socket s of its user or a later one unless a later one has closed.
Lined ==
  /\ \A s \in Sockets :
       socket[s] = "new" <=> \A k \in DOMAIN line : line[k] # s
  /\ \A m \in Messages : \A s \in since[m] : socket[s] # "new"
  /\ \A u \in Users : remembered[u] # None =>
       Owner[remembered[u]] = u /\ socket[remembered[u]] \in {"open", "gone"}
  /\ \A s \in Sockets :
       socket[s] \in {"open", "gone"} /\ (\A t \in After(s) : socket[t] # "closed")
         => remembered[Owner[s]] \in {s} \cup After(s)

\* User u has what Reached promises him of message m.
Served(m, u) ==
  /\ (\E s \in since[m] : /\ Owner[s] = u /\ socket[s] = "open"
                          /\ \A t \in After(s) : socket[t] # "closed")
       => u \in shown[m]
  /\ u \in Phones /\ (\A k \in DOMAIN line : Owner[line[k]] # u) => u \in pushed[m]

\* The participants the worker has been through are served.
Worked ==
  job.of # None =>
    \A u \in conversation[message[job.of].in].who \ {message[job.of].sender} :
      u \notin job.left => Served(job.of, u)

IInv == TypeOK /\ Holding /\ Searched /\ OneDirect
        /\ Placed /\ Stored /\ Lined /\ Worked /\ Reached

-----------------------------------------------------------------------------
(* Typing                                                                  *)

\* A variable that is left alone keeps its type.
LEMMA TypeKept ==
  /\ ChatsOK /\ UNCHANGED chats => ChatsOK'
  /\ DeliveryOK /\ UNCHANGED delivery => DeliveryOK'
  /\ GatewayOK /\ UNCHANGED gateway => GatewayOK'
  BY DEF ChatsOK, DeliveryOK, GatewayOK, chats, delivery, gateway

\* Nobody is connected and nothing is sent at first.
LEMMA TypeOKInit == Init => TypeOK
<1> SUFFICES ASSUME Init PROVE TypeOK
  OBVIOUS
<1> USE MessagingAssumption
<1>1. ChatsOK
  BY DEF Init, ChatsOK, ConversationRow, CallState, NoCall
<1>2. DeliveryOK
  BY DEF Init, DeliveryOK, MessageRow, NoMessage, NoJob
<1>3. GatewayOK /\ crashes \in Nat
  BY DEF Init, GatewayOK
<1>4. QED
  BY <1>1, <1>2, <1>3 DEF TypeOK

\* A message that moves on stays in its conversation.
LEMMA MessageMoves ==
  ASSUME NEW m \in Messages, message \in [Messages -> MessageRow],
         NEW pc \in {"new", "verified", "stored", "queued", "working", "done",
                     "failed", "unqueued", "dropped"},
         message' = [message EXCEPT ![m].pc = pc]
  PROVE  /\ message' \in [Messages -> MessageRow]
         /\ message'[m].pc = pc
         /\ message'[m].in = message[m].in /\ message'[m].sender = message[m].sender
         /\ \A n \in Messages \ {m} : message'[n] = message[n]
  BY DEF MessageRow

\* In a crash too, whose messages stay new, or verified, or are neither.
LEMMA MessagesCrash ==
  ASSUME TypeOK, Crash, NEW m \in Messages
  PROVE  /\ message' \in [Messages -> MessageRow]
         /\ message'[m].in = message[m].in /\ message'[m].sender = message[m].sender
         /\ message'[m].pc = "new" <=> message[m].pc = "new"
         /\ Posted(m) => Posted(m)'
         /\ message'[m].pc = "done" <=> message[m].pc = "done"
<1> DEFINE again == job # NoJob /\ stalls[job.of] < MaxStalls
           moved(n, pc) == [message[n] EXCEPT !.pc = pc]
<1>1. ASSUME NEW n \in Messages
      PROVE  \A pc \in {"queued", "failed", "unqueued", "dropped"} :
               /\ moved(n, pc) \in MessageRow /\ moved(n, pc).pc = pc
               /\ moved(n, pc).in = message[n].in
               /\ moved(n, pc).sender = message[n].sender
  BY DEF TypeOK, DeliveryOK, MessageRow
<1>2. /\ DOMAIN message' = Messages /\ message' = [n \in Messages |-> message'[n]]
      /\ \A n \in Messages :
           message'[n] = CASE message[n].pc = "verified" -> moved(n, "dropped")
                           [] message[n].pc = "stored" -> moved(n, "unqueued")
                           [] message[n].pc = "working" ->
                                moved(n, IF again THEN "queued" ELSE "failed")
                           [] OTHER -> message[n]
  BY DEF Crash
<1>3. ASSUME NEW n \in Messages
      PROVE  \/ message[n].pc = "verified" /\ message'[n] = moved(n, "dropped")
             \/ message[n].pc = "stored" /\ message'[n] = moved(n, "unqueued")
             \/ /\ message[n].pc = "working"
                /\ message'[n] \in {moved(n, "queued"), moved(n, "failed")}
             \/ message'[n] = message[n]
  BY <1>2
<1> HIDE DEF moved
<1>4. \A n \in Messages : message'[n] \in MessageRow
  BY <1>1, <1>3 DEF TypeOK, DeliveryOK
<1>5. message' \in [Messages -> MessageRow]
  BY <1>2, <1>4
<1>6. QED
  BY <1>1, <1>3, <1>5 DEF Posted

\* Every action keeps the types.
LEMMA TypeOKNext == TypeOK /\ Stored /\ Placed /\ [Next]_vars => TypeOK'
<1> SUFFICES ASSUME TypeOK, Stored, Placed, [Next]_vars PROVE TypeOK'
  OBVIOUS
<1> USE MessagingAssumption DEF TypeOK
<1>1. ASSUME NEW r \in Requests, NEW who \in SUBSET Users, NEW type \in Types,
             StartConversation(r, who, type)
      PROVE  TypeOK'
  <2>1. ChatsOK'
    BY <1>1 DEF StartConversation, CallState, ChatsOK
  <2>2. QED
    BY <1>1, <2>1, TypeKept DEF StartConversation
<1>2. ASSUME NEW r \in Requests, LookForDirect(r)
      PROVE  TypeOK'
  <2>1. Answered \in CallState /\ [call[r] EXCEPT !.pc = "creating"] \in CallState
    BY DEF ChatsOK, CallState, Answered, NoCall
  <2>2. call' \in [Requests -> CallState]
    BY <1>2, <2>1 DEF LookForDirect, ChatsOK
  <2>3. call[r].who \in SUBSET Users
    BY DEF ChatsOK, CallState
  <2>4. raced' \subseteq raced \cup {call[r].who}
    BY <1>2 DEF LookForDirect
  <2>5. ChatsOK'
    BY <1>2, <2>2, <2>3, <2>4 DEF LookForDirect, ChatsOK
  <2>6. QED
    BY <1>2, <2>5, TypeKept DEF LookForDirect
<1>3. ASSUME NEW r \in Requests, CreateConversation(r)
      PROVE  TypeOK'
  <2>1. ChatsOK'
    BY <1>3 DEF CreateConversation, CallState, Answered, NoCall, ConversationRow, Ids,
                ChatsOK
  <2>2. QED
    BY <1>3, <2>1, TypeKept DEF CreateConversation
<1>4. ASSUME NEW g \in Groups, CreateGroup(g)
      PROVE  TypeOK'
  <2>1. ChatsOK'
    BY <1>4 DEF CreateGroup, ConversationRow, Ids, ChatsOK
  <2>2. QED
    BY <1>4, <2>1, TypeKept DEF CreateGroup
<1>5. ASSUME PassDueDate \/ CronScan
      PROVE  TypeOK'
  <2>1. ChatsOK'
    BY <1>5 DEF PassDueDate, CronScan, ChatsOK
  <2>2. QED
    BY <1>5, <2>1, TypeKept DEF PassDueDate, CronScan
<1>6. ASSUME ArchiveConversation
      PROVE  TypeOK'
  <2>1. \A i \in Ids : [conversation[i] EXCEPT !.status = "ARCHIVED"] \in ConversationRow
    BY DEF ChatsOK, ConversationRow
  <2>2. ChatsOK'
    BY <1>6, <2>1 DEF ArchiveConversation, ChatsOK
  <2>3. QED
    BY <1>6, <2>2, TypeKept DEF ArchiveConversation
<1>7. ASSUME NEW m \in Messages, NEW u \in Users, NEW i \in Ids,
             VerifyParticipant(m, u, i)
      PROVE  TypeOK'
  <2>1. DeliveryOK'
    BY <1>7 DEF VerifyParticipant, MessageRow, DeliveryOK
  <2>2. QED
    BY <1>7, <2>1, TypeKept DEF VerifyParticipant
<1>8. ASSUME NEW m \in Messages, SaveMessage(m) \/ Enqueue(m) \/ QueueRefuses(m)
      PROVE  TypeOK'
  <2>1. message' \in [Messages -> MessageRow]
    BY <1>8, MessageMoves DEF SaveMessage, Enqueue, QueueRefuses, DeliveryOK
  <2>2. /\ queue' \in Seq(Messages)
        /\ since' \in [Messages -> SUBSET Sockets]
    <3>1. CASE SaveMessage(m)
      <4>1. {s \in Sockets : socket[s] = "open"} \in SUBSET Sockets
        OBVIOUS
      <4>2. QED
        BY <3>1, <4>1 DEF SaveMessage, DeliveryOK
    <3>2. CASE Enqueue(m) \/ QueueRefuses(m)
      <4>1. Append(queue, m) \in Seq(Messages)
        BY DEF DeliveryOK
      <4>2. QED
        BY <3>2, <4>1 DEF Enqueue, QueueRefuses, DeliveryOK
    <3>3. QED
      BY <1>8, <3>1, <3>2
  <2>3. DeliveryOK'
    BY <1>8, <2>1, <2>2 DEF SaveMessage, Enqueue, QueueRefuses, DeliveryOK
  <2>4. QED
    BY <1>8, <2>3, TypeKept DEF SaveMessage, Enqueue, QueueRefuses
<1>9. ASSUME TakeJob
      PROVE  TypeOK'
  <2>1. Head(queue) \in Messages /\ Tail(queue) \in Seq(Messages)
        /\ Head(queue) = queue[1] /\ 1 \in DOMAIN queue
    BY <1>9 DEF TakeJob, DeliveryOK
  <2>2. message' \in [Messages -> MessageRow]
    BY <1>9, <2>1, MessageMoves DEF TakeJob, DeliveryOK
  <2>3. message[Head(queue)].in \in Ids
    BY <2>1 DEF Stored, Posted, Placed
  <2>4. conversation[message[Head(queue)].in].who \subseteq Users
    BY <2>3 DEF ChatsOK, ConversationRow
  <2>5. DeliveryOK'
    BY <1>9, <2>1, <2>2, <2>4 DEF TakeJob, DeliveryOK
  <2>6. QED
    BY <1>9, <2>5, TypeKept DEF TakeJob
<1>10. ASSUME NEW u \in Users, SendToUser(u) \/ SendPush(u)
       PROVE  TypeOK'
  <2>1. job.of \in Messages
    BY <1>10 DEF SendToUser, SendPush, Stored, NoJob, DeliveryOK
  <2>2. /\ shown' \in [Messages -> SUBSET Users]
        /\ pushed' \in [Messages -> SUBSET Users]
    <3>1. \A f \in [Messages -> SUBSET Users] :
            [f EXCEPT ![job.of] = @ \cup {u}] \in [Messages -> SUBSET Users]
      BY <2>1
    <3>2. CASE SendToUser(u)
      BY <3>1, <3>2 DEF SendToUser, DeliveryOK
    <3>3. CASE SendPush(u)
      BY <3>1, <3>3 DEF SendPush, DeliveryOK
    <3>4. QED
      BY <1>10, <3>2, <3>3
  <2>3. job' \in [of : Messages \cup {None}, left : SUBSET Users]
    <3>1. job' = [job EXCEPT !.left = @ \ {u}]
      BY <1>10 DEF SendToUser, SendPush
    <3>2. QED
      BY <3>1 DEF DeliveryOK
  <2>4. DeliveryOK'
    BY <1>10, <2>2, <2>3 DEF SendToUser, SendPush, DeliveryOK
  <2>5. QED
    BY <1>10, <2>4, TypeKept DEF SendToUser, SendPush
<1>11. ASSUME FinishJob \/ FailJob
       PROVE  TypeOK'
  <2>1. job.of \in Messages
    BY <1>11 DEF FinishJob, FailJob, Stored, DeliveryOK
  <2>2. message' \in [Messages -> MessageRow]
    BY <1>11, <2>1, MessageMoves DEF FinishJob, FailJob, DeliveryOK
  <2>3. DeliveryOK'
    BY <1>11, <2>2 DEF FinishJob, FailJob, NoJob, DeliveryOK
  <2>4. QED
    BY <1>11, <2>3, TypeKept DEF FinishJob, FailJob
<1>12. ASSUME NEW s \in Sockets, HandleConnection(s) \/ Break(s) \/ HandleDisconnect(s)
       PROVE  TypeOK'
  <2>1. GatewayOK'
    <3>1. CASE HandleConnection(s)
      BY <3>1 DEF HandleConnection, Remember, GatewayOK
    <3>2. CASE Break(s)
      BY <3>2 DEF Break, GatewayOK
    <3>3. CASE HandleDisconnect(s)
      BY <3>3 DEF HandleDisconnect, Forget, GatewayOK
    <3>4. QED
      BY <1>12, <3>1, <3>2, <3>3
  <2>2. QED
    BY <1>12, <2>1, TypeKept DEF HandleConnection, Break, HandleDisconnect
<1>13. ASSUME Crash
       PROVE  TypeOK'
  <2> DEFINE again == job # NoJob /\ stalls[job.of] < MaxStalls
  <2>1. crashes' \in Nat /\ GatewayOK'
    BY <1>13 DEF Crash, GatewayOK
  <2>2. call' \in [Requests -> CallState]
    BY <1>13 DEF Crash, CallState, NoCall, Answered
  <2>3. ChatsOK'
    BY <1>13, <2>2 DEF Crash, ChatsOK
  <2>4. again => job.of \in Messages
    BY DEF Stored, DeliveryOK
  <2>5. queue' \in Seq(Messages) /\ stalls' \in [Messages -> Nat]
    BY <1>13, <2>4 DEF Crash, DeliveryOK
  <2>6. Messages = {} => message' \in [Messages -> MessageRow]
    BY <1>13 DEF Crash
  <2>7. message' \in [Messages -> MessageRow]
    BY <1>13, <2>6, MessagesCrash
  <2>8. DeliveryOK'
    BY <1>13, <2>5, <2>7 DEF Crash, DeliveryOK, NoJob
  <2>9. QED
    BY <2>1, <2>3, <2>8
<1>14. CASE UNCHANGED vars
  BY <1>14, TypeKept DEF vars, chats, delivery, gateway
<1>15. QED
  BY <1>1, <1>2, <1>3, <1>4, <1>5, <1>6, <1>7, <1>8, <1>9, <1>10, <1>11, <1>12,
     <1>13, <1>14 DEF Next

-----------------------------------------------------------------------------
(* Two users have one direct conversation                                  *)

Conversed == Holding /\ Searched /\ OneDirect

\* What a step does to the conversations and the calls.
LEMMA ChatSteps ==
  ASSUME [Next]_vars
  PROVE  \/ \E r \in Requests, who \in (SUBSET Users) \ {{}}, type \in Types :
              StartConversation(r, who, type)
         \/ \E r \in Requests : LookForDirect(r) \/ CreateConversation(r)
         \/ \E g \in Groups : CreateGroup(g)
         \/ ArchiveConversation \/ Crash
         \/ UNCHANGED <<conversation, call, raced>>
  BY DEF Next, vars, chats, PassDueDate, CronScan, VerifyParticipant, SaveMessage,
         Enqueue, QueueRefuses, TakeJob, SendToUser, SendPush, FinishJob, FailJob,
         HandleConnection, Break, HandleDisconnect

\* A conversation that is there keeps its participants and its type.
LEMMA ConversationStays ==
  ASSUME TypeOK, Holding, [Next]_vars, NEW i \in Ids, conversation[i].who # {}
  PROVE  conversation'[i].who = conversation[i].who
         /\ conversation'[i].type = conversation[i].type
<1> USE DEF TypeOK, ChatsOK
<1>1. ASSUME NEW r \in Requests, CreateConversation(r)
      PROVE  conversation'[i] = conversation[i]
  <2>1. i # r
    BY <1>1 DEF Holding, CreateConversation
  <2>2. QED
    BY <1>1, <2>1 DEF CreateConversation
<1>2. ASSUME NEW g \in Groups, CreateGroup(g)
      PROVE  conversation'[i] = conversation[i]
  BY <1>2 DEF CreateGroup
<1>3. ASSUME ArchiveConversation
      PROVE  /\ conversation'[i].who = conversation[i].who
             /\ conversation'[i].type = conversation[i].type
  <2>1. /\ [conversation[i] EXCEPT !.status = "ARCHIVED"].who = conversation[i].who
        /\ [conversation[i] EXCEPT !.status = "ARCHIVED"].type = conversation[i].type
    BY DEF ConversationRow
  <2>2. QED
    BY <1>3, <2>1 DEF ArchiveConversation
<1>4. QED
  BY <1>1, <1>2, <1>3, ChatSteps
  DEF StartConversation, LookForDirect, Crash, chats

\* So what OneDirect allows stays allowed.
LEMMA ShadowedStays ==
  ASSUME TypeOK, Holding, [Next]_vars, NEW who, Shadowed(who)
  PROVE  Shadowed(who)'
<1>1. PICK k \in Directs : conversation[k].who \subseteq who /\ conversation[k].who # who
  BY DEF Shadowed
<1>2. /\ k \in Ids /\ conversation'[k].who = conversation[k].who
      /\ conversation'[k].type = conversation[k].type
  BY ConversationStays DEF Directs
<1>3. k \in Directs'
  BY <1>2 DEF Directs
<1>4. QED
  BY <1>1, <1>2, <1>3 DEF Shadowed

\* The pairs of conversations OneDirect is about, whose excuse is the same
\* for both.
LEMMA OneDirectIs ==
  OneDirect <=>
    \A i, j \in Directs :
      (i # j /\ Cardinality(conversation[i].who) = 2
         /\ conversation[j].who = conversation[i].who)
        => \/ conversation[i].who \in raced
           \/ "untyped" \in {conversation[i].type, conversation[j].type}
           \/ Shadowed(conversation[i].who)
  BY DEF OneDirect, Shadowed

\* A call starts: it is to search, or it is not one of those that must.
LEMMA StartKeeps ==
  ASSUME TypeOK, Conversed, NEW r \in Requests, NEW who \in (SUBSET Users) \ {{}},
         NEW type \in Types, StartConversation(r, who, type)
  PROVE  Conversed'
<1> USE DEF TypeOK, ChatsOK, Conversed
<1>1. /\ call'[r].who = who /\ call'[r].type = type
      /\ call'[r].pc \in {"looking", "creating"} /\ call[r].pc = "new"
      /\ call'[r].pc = "looking" => type = "DIRECT"
      /\ call'[r].pc = "creating" => type # "DIRECT" \/ Cardinality(who) # 2
      /\ \A q \in Requests \ {r} : call'[q] = call[q]
      /\ conversation' = conversation /\ raced' = raced
  BY DEF StartConversation, CallState
<1>2. Holding'
  BY <1>1 DEF Holding
<1>3. Directs' = Directs /\ \A w : Shadowed(w)' <=> Shadowed(w)
  BY <1>1 DEF Directs, Shadowed
<1>4. \A q \in Requests : Creating(q)' /\ call'[q].type = "DIRECT"
        => q # r /\ Creating(q) /\ call'[q] = call[q]
  BY <1>1 DEF Creating
<1>5. Searched'
  BY <1>1, <1>3, <1>4 DEF Searched
<1>6. OneDirect'
  BY <1>1, <1>3 DEF OneDirect
<1>7. QED
  BY <1>2, <1>5, <1>6

\* The search finds none, or a smaller one, and the calls that are ahead are
\* remembered as raced.
LEMMA LookKeeps ==
  ASSUME TypeOK, Conversed, NEW r \in Requests, LookForDirect(r)
  PROVE  Conversed'
<1> USE DEF TypeOK, ChatsOK, Conversed
<1>1. /\ call[r].pc = "looking" /\ conversation' = conversation
      /\ \A q \in Requests \ {r} : call'[q] = call[q]
      /\ raced \subseteq raced'
  BY DEF LookForDirect
<1>2. Directs' = Directs /\ \A w : Shadowed(w)' <=> Shadowed(w)
  BY <1>1 DEF Directs, Shadowed
<1>3. OneDirect'
  BY <1>1, <1>2 DEF OneDirect
<1>4. CASE /\ Found(r) = {} \/ \E i \in Found(r) : Cardinality(conversation[i].who) # 2
           /\ call' = [call EXCEPT ![r].pc = "creating"]
           /\ raced' = raced \cup
                {call[r].who : q \in {q \in Requests \ {r} :
                   call[q].pc = "creating" /\ call[q].who = call[r].who}}
  <2>1. /\ call'[r].pc = "creating" /\ call'[r].who = call[r].who
        /\ call'[r].type = call[r].type
    BY <1>4 DEF CallState
  <2>2. Holding'
    BY <1>1, <2>1 DEF Holding
  <2>3. \A q \in Requests \ {r} :
          call[q].pc = "creating" /\ call[q].who = call[r].who => call[r].who \in raced'
    BY <1>4
  <2>4. ASSUME NEW j \in Directs, conversation[j].who = call[r].who,
               Cardinality(call[r].who) = 2
        PROVE  Shadowed(call[r].who)
    <3>1. j \in Found(r)
      BY <2>4 DEF Found
    <3>2. PICK i \in Found(r) : Cardinality(conversation[i].who) # 2
      BY <1>4, <3>1
    <3>3. QED
      BY <2>4, <3>2 DEF Found, Shadowed
  <2>5. QED
    BY <1>1, <1>2, <1>3, <2>1, <2>2, <2>3, <2>4 DEF Searched, Creating
<1>5. CASE call' = [call EXCEPT ![r] = Answered] /\ UNCHANGED raced
  <2>1. call'[r].pc = "done"
    BY <1>5 DEF Answered, NoCall
  <2>2. QED
    BY <1>1, <1>2, <1>3, <1>5, <2>1 DEF Holding, Searched, Creating
<1>6. QED
  BY <1>4, <1>5 DEF LookForDirect

\* The second conversation of two users has the excuse its call had.
LEMMA CreateKeeps ==
  ASSUME TypeOK, Conversed, NEW r \in Requests, CreateConversation(r)
  PROVE  Conversed'
<1> USE DEF TypeOK, ChatsOK, Conversed
<1>1. /\ call[r].pc = "creating" /\ r \in Ids
      /\ conversation'[r].who = call[r].who /\ conversation'[r].type = call[r].type
      /\ \A i \in Ids \ {r} : conversation'[i] = conversation[i]
      /\ call'[r].pc = "done" /\ \A q \in Requests \ {r} : call'[q] = call[q]
      /\ raced' = raced
  BY DEF CreateConversation, Ids, Answered, NoCall
<1>2. /\ call[r].who # {} /\ call[r].type \in Types /\ conversation[r].who = {}
  BY <1>1 DEF Holding
<1>3. /\ Directs' = Directs \cup (IF call[r].type = "GROUP" THEN {} ELSE {r})
      /\ r \notin Directs
  BY <1>1, <1>2 DEF Directs
<1>4. \A w : Shadowed(w) => Shadowed(w)'
  BY ShadowedStays DEF Next
<1>5. Holding'
  BY <1>1, MessagingAssumption DEF Holding, Ids
<1>6. ASSUME NEW q \in Requests, Creating(q)', call'[q].type = "DIRECT"
      PROVE  q # r /\ call'[q] = call[q] /\ Creating(q)
  BY <1>1, <1>6 DEF Creating
<1>7. Searched'
  <2> SUFFICES ASSUME NEW q \in Requests, Creating(q)', call'[q].type = "DIRECT"
               PROVE  /\ \A j \in Directs' : conversation'[j].who = call'[q].who =>
                           \/ call'[q].who \in raced' \/ conversation'[j].type = "untyped"
                           \/ Shadowed(call[q].who)'
                      /\ \A p \in Requests \ {q} :
                           Creating(p)' /\ call'[p].type = "DIRECT"
                             /\ call'[p].who = call'[q].who => call'[q].who \in raced'
    BY DEF Searched, Shadowed
  <2>1. q # r /\ call'[q] = call[q] /\ Creating(q) /\ call[q].type = "DIRECT"
    BY <1>6
  <2>2. ASSUME NEW j \in Directs, conversation'[j].who = call[q].who
        PROVE  \/ call[q].who \in raced \/ conversation'[j].type = "untyped"
               \/ Shadowed(call[q].who)
    <3>1. j \in Ids \ {r}
      BY <1>3 DEF Directs
    <3>2. conversation'[j] = conversation[j]
      BY <1>1, <3>1
    <3>3. QED
      BY <2>1, <2>2, <3>2 DEF Searched
  <2>3. ASSUME call[r].type # "GROUP", call[r].who = call[q].who
        PROVE  call[q].who \in raced \/ conversation'[r].type = "untyped"
    <3>1. call[r].type = "DIRECT" \/ call[r].type = "untyped"
      BY <1>2, <2>3, MessagingAssumption
    <3>2. Creating(r)
      BY <1>1, <2>1, <2>3 DEF Creating
    <3>3. QED
      BY <1>1, <2>1, <2>3, <3>1, <3>2 DEF Searched
  <2>4. QED
    BY <1>1, <1>3, <1>4, <1>6, <2>1, <2>2, <2>3 DEF Searched
<1>8. OneDirect'
  <2> SUFFICES ASSUME NEW i \in Directs', NEW j \in Directs', i # j,
                      Cardinality(conversation'[i].who) = 2,
                      conversation'[j].who = conversation'[i].who
               PROVE  \/ conversation'[i].who \in raced'
                      \/ "untyped" \in {conversation'[i].type, conversation'[j].type}
                      \/ Shadowed(conversation[i].who)'
    BY DEF OneDirect, Shadowed
  <2>1. ASSUME NEW k \in Directs, conversation[k].who = call[r].who,
               call[r].type # "GROUP", Cardinality(call[r].who) = 2
        PROVE  \/ call[r].who \in raced
               \/ "untyped" \in {call[r].type, conversation[k].type}
               \/ Shadowed(call[r].who)
    <3>1. call[r].type = "DIRECT" \/ call[r].type = "untyped"
      BY <1>2, <2>1, MessagingAssumption
    <3>2. Creating(r)
      BY <1>1, <2>1 DEF Creating
    <3>3. QED
      BY <2>1, <3>1, <3>2 DEF Searched
  <2>2. \A k \in Directs : conversation'[k] = conversation[k]
    BY <1>1, <1>3 DEF Directs
  <2>3. CASE i \in Directs /\ j \in Directs
    BY <1>1, <1>4, <2>2, <2>3, OneDirectIs
  <2>4. CASE i = r \/ j = r
    BY <1>1, <1>3, <1>4, <2>1, <2>2, <2>4
  <2>5. QED
    BY <1>3, <2>3, <2>4
<1>9. QED
  BY <1>5, <1>7, <1>8

\* Groups, archives and crashes leave the direct conversations as they are.
LEMMA DirectsKeep ==
  ASSUME TypeOK, Conversed,
         (\E g \in Groups : CreateGroup(g)) \/ ArchiveConversation \/ Crash
  PROVE  Conversed'
<1> USE DEF TypeOK, ChatsOK, Conversed
<1> DEFINE Same == /\ Directs' = Directs /\ raced' = raced
                   /\ \A i \in Directs : /\ conversation'[i].who = conversation[i].who
                                         /\ conversation'[i].type = conversation[i].type
                   /\ \A r \in Requests : conversation'[r].who = conversation[r].who
<1>1. Same
  <2>1. ASSUME NEW g \in Groups, CreateGroup(g)
        PROVE  Same
    <3>1. /\ conversation'[g].type = "GROUP" /\ conversation[g].who = {}
          /\ \A i \in Ids \ {g} : conversation'[i] = conversation[i]
          /\ g \in Ids /\ raced' = raced
      BY <2>1 DEF CreateGroup, Ids
    <3>2. g \notin Directs /\ Directs' = Directs
      BY <3>1 DEF Directs
    <3>3. \A r \in Requests : r \in Ids \ {g}
      BY MessagingAssumption DEF Ids
    <3>4. QED
      BY <3>1, <3>2, <3>3 DEF Directs
  <2>2. ASSUME ArchiveConversation
        PROVE  Same
    <3>1. \A i \in Ids : LET c == [conversation[i] EXCEPT !.status = "ARCHIVED"] IN
            c.who = conversation[i].who /\ c.type = conversation[i].type
      BY DEF ConversationRow
    <3>2. \A i \in Ids : /\ conversation'[i].who = conversation[i].who
                         /\ conversation'[i].type = conversation[i].type
      BY <2>2, <3>1 DEF ArchiveConversation
    <3>3. QED
      BY <2>2, <3>2 DEF Directs, Ids, ArchiveConversation
  <2>3. ASSUME Crash
        PROVE  Same
    BY <2>3 DEF Crash, Directs
  <2>4. QED
    BY <2>1, <2>2, <2>3
<1>2. \A w : Shadowed(w)' <=> Shadowed(w)
  BY <1>1 DEF Shadowed
<1>3. OneDirect'
  BY <1>1, <1>2 DEF OneDirect
<1>4. \/ call' = call
      \/ \A r \in Requests : \/ call'[r].pc = "done"
                             \/ call'[r].pc = "new" /\ call[r].pc = "new"
  BY DEF CreateGroup, ArchiveConversation, Crash, Answered, NoCall
<1>5. QED
  BY <1>1, <1>2, <1>3, <1>4 DEF Holding, Searched, Creating

\* There is no conversation at first.
LEMMA ConversedInit == Init => Conversed
  BY MessagingAssumption
  DEF Init, Conversed, Holding, Searched, OneDirect, Directs, Creating, NoCall, Ids

\* A second conversation of two users comes of a race that is recorded.
LEMMA ConversedNext == TypeOK /\ Conversed /\ [Next]_vars => Conversed'
<1> SUFFICES ASSUME TypeOK, Conversed, [Next]_vars PROVE Conversed'
  OBVIOUS
<1>1. ASSUME UNCHANGED <<conversation, call, raced>>
      PROVE  Conversed'
  <2>1. Holding' /\ Searched'
    BY <1>1 DEF Conversed, Holding, Searched, Creating, Directs, Shadowed
  <2>2. OneDirect'
    BY <1>1 DEF Conversed, OneDirect, Directs
  <2>3. QED
    BY <2>1, <2>2 DEF Conversed
<1>2. QED
  BY <1>1, ChatSteps, StartKeeps, LookKeeps, CreateKeeps, DirectsKeep

-----------------------------------------------------------------------------
(* A message is where it was sent                                          *)

Delivering == Placed /\ Stored

\* What a step does to one message: it is put into a conversation that has
\* participants, or it stays where it is, and is done when its job is.
LEMMA MessageSteps ==
  ASSUME TypeOK, Delivering, [Next]_vars, NEW m \in Messages
  PROVE  \/ /\ message[m].pc = "new" /\ message'[m].pc = "verified"
            /\ message'[m].in \in Ids /\ message'[m].sender \in Users
            /\ conversation[message'[m].in].who # {}
         \/ /\ message'[m].in = message[m].in
            /\ message'[m].sender = message[m].sender
            /\ message'[m].pc = "new" <=> message[m].pc = "new"
            /\ Posted(m) => Posted(m)'
            /\ message'[m].pc = "done" =>
                 message[m].pc = "done" \/ (FinishJob /\ m = job.of)
<1> USE DEF TypeOK, DeliveryOK, Delivering
<1> DEFINE Put == /\ message[m].pc = "new" /\ message'[m].pc = "verified"
                  /\ message'[m].in \in Ids /\ message'[m].sender \in Users
                  /\ conversation[message'[m].in].who # {}
           Moves == /\ message'[m].in = message[m].in
                    /\ message'[m].sender = message[m].sender
                    /\ message'[m].pc = "new" <=> message[m].pc = "new"
                    /\ Posted(m) => Posted(m)'
                    /\ message'[m].pc = "done" =>
                         message[m].pc = "done" \/ (FinishJob /\ m = job.of)
<1>1. message' = message => Moves
  BY DEF Posted
<1>2. ASSUME NEW n \in Messages, NEW u \in Users, NEW i \in Ids,
             VerifyParticipant(n, u, i)
      PROVE  Put \/ Moves
  BY <1>2 DEF VerifyParticipant, Posted
<1>3. ASSUME NEW n \in Messages,
             NEW pc \in {"stored", "queued", "working", "done", "failed", "unqueued"},
             message' = [message EXCEPT ![n].pc = pc], message[n].pc # "new",
             pc = "stored" => ~Posted(n), pc = "done" => FinishJob /\ n = job.of
      PROVE  Moves
  BY <1>3, MessageMoves DEF Posted
<1>4. ASSUME NEW n \in Messages, SaveMessage(n) \/ Enqueue(n) \/ QueueRefuses(n)
      PROVE  Moves
  BY <1>3, <1>4 DEF SaveMessage, Enqueue, QueueRefuses, Posted
<1>5. ASSUME TakeJob
      PROVE  Moves
  <2>1. Head(queue) \in Messages /\ Head(queue) = queue[1] /\ 1 \in DOMAIN queue
    BY <1>5 DEF TakeJob
  <2>2. message[Head(queue)].pc # "new"
    BY <2>1 DEF Stored, Posted
  <2>3. QED
    BY <1>3, <1>5, <2>1, <2>2 DEF TakeJob
<1>6. ASSUME FinishJob \/ FailJob
      PROVE  Moves
  <2>1. job.of \in Messages /\ message[job.of].pc # "new"
    BY <1>6 DEF FinishJob, FailJob, Stored, Posted
  <2>2. QED
    BY <1>3, <1>6, <2>1 DEF FinishJob, FailJob
<1>7. ASSUME Crash
      PROVE  Moves
  BY <1>7, MessagesCrash
<1>8. ASSUME UNCHANGED message
      PROVE  Moves
  BY <1>1, <1>8
<1>9. Put \/ Moves
  <2> HIDE DEF Put, Moves
  <2>1. QED
    BY <1>2, <1>4, <1>5, <1>6, <1>7, <1>8
    DEF Next, vars, delivery, StartConversation, LookForDirect, CreateConversation,
        CreateGroup, PassDueDate, CronScan, ArchiveConversation, SendToUser, SendPush,
        HandleConnection, Break, HandleDisconnect
<1>10. QED
  BY <1>9

\* A message stays in its conversation, and that keeps its participants.
LEMMA PlacedNext ==
  ASSUME TypeOK, Holding, Delivering, [Next]_vars
  PROVE  Placed'
<1> SUFFICES ASSUME NEW m \in Messages, message'[m].pc # "new"
             PROVE  /\ message'[m].in \in Ids /\ message'[m].sender \in Users
                    /\ conversation'[message'[m].in].who # {}
  BY DEF Placed
<1>1. /\ message'[m].in \in Ids /\ message'[m].sender \in Users
      /\ conversation[message'[m].in].who # {}
  BY MessageSteps DEF Delivering, Placed
<1>2. QED
  BY <1>1, ConversationStays

\* What a step does to the queue and to the worker.
LEMMA QueueSteps ==
  ASSUME TypeOK, Stored, [Next]_vars
  PROVE  \/ queue' = queue /\ job'.of = job.of
            /\ (job' = job \/ \E u \in Users : SendToUser(u) \/ SendPush(u))
         \/ queue' = queue /\ job' = NoJob
         \/ TakeJob \/ Crash
         \/ \E m \in Messages : Enqueue(m)
<1> USE DEF TypeOK, DeliveryOK
<1>1. ASSUME NEW u \in Users, SendToUser(u) \/ SendPush(u)
      PROVE  queue' = queue /\ job'.of = job.of
  BY <1>1 DEF SendToUser, SendPush
<1>2. FinishJob \/ FailJob => queue' = queue /\ job' = NoJob
  BY DEF FinishJob, FailJob
<1>3. QED
  BY <1>1, <1>2
  DEF Next, vars, delivery, StartConversation, LookForDirect, CreateConversation,
      CreateGroup, PassDueDate, CronScan, ArchiveConversation, VerifyParticipant,
      SaveMessage, QueueRefuses, HandleConnection, Break, HandleDisconnect

\* What the queue holds was stored.
LEMMA StoredNext ==
  ASSUME TypeOK, Delivering, [Next]_vars
  PROVE  Stored'
<1> USE DEF TypeOK, DeliveryOK, Delivering
<1>1. \A m \in Messages : Posted(m) => Posted(m)'
  BY MessageSteps DEF Posted
<1>2. \A k \in DOMAIN queue : queue[k] \in Messages
  OBVIOUS
<1>3. NoJob.of = None /\ \A j : j.of # None => j # NoJob
  BY DEF NoJob
<1>4. ASSUME queue' = queue, job'.of = job.of, job' = job
      PROVE  Stored'
  BY <1>1, <1>2, <1>4 DEF Stored
<1>5. ASSUME queue' = queue, job'.of = job.of,
             NEW u \in Users, SendToUser(u) \/ SendPush(u)
      PROVE  Stored'
  <2>1. job.of # None
    BY <1>5 DEF Stored, SendToUser, SendPush, NoJob
  <2>2. QED
    BY <1>1, <1>2, <1>5, <2>1 DEF Stored
<1>6. ASSUME queue' = queue, job' = NoJob
      PROVE  Stored'
  BY <1>1, <1>2, <1>3, <1>6 DEF Stored
<1>7. ASSUME TakeJob
      PROVE  Stored'
  <2>1. /\ Head(queue) \in Messages /\ Head(queue) = queue[1] /\ 1 \in DOMAIN queue
        /\ job'.of = Head(queue) /\ queue' = Tail(queue)
    BY <1>7 DEF TakeJob
  <2>2. \A k \in DOMAIN queue' : k + 1 \in DOMAIN queue /\ queue'[k] = queue[k + 1]
    BY <1>7, <2>1 DEF TakeJob
  <2>3. QED
    BY <1>1, <1>2, <2>1, <2>2, MessagingAssumption DEF Stored
<1>8. ASSUME Crash
      PROVE  Stored'
  <2>1. job' = NoJob /\ (queue' = queue \/ (queue' = <<job.of>> \o queue /\ job # NoJob))
    BY ZenonT(20), <1>8 DEF Crash
  <2>2. job # NoJob => job.of \in Messages /\ Posted(job.of)
    BY DEF Stored
  <2>3. ASSUME queue' = <<job.of>> \o queue, job # NoJob, NEW k \in DOMAIN queue'
        PROVE  queue'[k] = job.of \/ (k - 1 \in DOMAIN queue /\ queue'[k] = queue[k - 1])
    BY <2>2, <2>3
  <2>4. QED
    BY <1>1, <1>2, <1>3, <2>1, <2>2, <2>3 DEF Stored
<1>9. ASSUME NEW m \in Messages, Enqueue(m)
      PROVE  Stored'
  <2>1. /\ message' = [message EXCEPT ![m].pc = "queued"] /\ queue' = Append(queue, m)
        /\ job' = job
    BY <1>9 DEF Enqueue
  <2>2. Posted(m)'
    BY <2>1, MessageMoves DEF Posted
  <2>3. \A k \in DOMAIN queue' : \/ queue'[k] = m
                                 \/ k \in DOMAIN queue /\ queue'[k] = queue[k]
    BY <2>1
  <2>4. QED
    BY <1>1, <1>2, <2>1, <2>2, <2>3 DEF Stored
<1>10. QED
  BY <1>4, <1>5, <1>6, <1>7, <1>8, <1>9, QueueSteps

-----------------------------------------------------------------------------
(* The sockets of a user, in the order in which they connected             *)

\* After looks at the line and nothing else.
LEMMA AfterKept == line' = line => \A s : After(s)' = After(s)
  BY DEF After

\* A socket that connects is after those of its user that are in line.
LEMMA AfterGrows ==
  ASSUME line \in Seq(Sockets), NEW t \in Sockets, line' = Append(line, t),
         NEW s \in Sockets
  PROVE  After(s)' = After(s) \cup
           {x \in {t} : Owner[x] = Owner[s] /\ \E k \in DOMAIN line : line[k] = s}
<1>1. /\ DOMAIN line' = DOMAIN line \cup {Len(line) + 1}
      /\ DOMAIN line = 1 .. Len(line) /\ Len(line) \in Nat
      /\ line'[Len(line) + 1] = t
      /\ \A k \in DOMAIN line : line'[k] = line[k]
  OBVIOUS
<1>2. \A k \in DOMAIN line : \A j \in 1 .. k - 1 : j \in DOMAIN line
  BY <1>1
<1>3. ASSUME NEW x, x \in After(s)'
      PROVE  x \in After(s) \/ (x = t /\ Owner[x] = Owner[s]
                                /\ \E k \in DOMAIN line : line[k] = s)
  <2>1. PICK k \in DOMAIN line' : /\ x = line'[k] /\ Owner[line'[k]] = Owner[s]
                                  /\ \E j \in 1 .. k - 1 : line'[j] = s
    BY <1>3 DEF After
  <2>2. CASE k \in DOMAIN line
    BY <1>1, <1>2, <2>1, <2>2 DEF After
  <2>3. CASE k = Len(line) + 1
    BY <1>1, <2>1, <2>3
  <2>4. QED
    BY <1>1, <2>1, <2>2, <2>3
<1>4. ASSUME NEW x \in After(s)
      PROVE  x \in After(s)'
  <2>1. PICK k \in DOMAIN line : /\ x = line[k] /\ Owner[line[k]] = Owner[s]
                                 /\ \E j \in 1 .. k - 1 : line[j] = s
    BY <1>4 DEF After
  <2>2. QED
    BY <1>1, <1>2, <2>1 DEF After
<1>5. ASSUME Owner[t] = Owner[s], NEW k \in DOMAIN line, line[k] = s
      PROVE  t \in After(s)'
  <2>1. k \in 1 .. (Len(line) + 1) - 1 /\ line'[k] = s
    BY <1>1, <1>5
  <2>2. QED
    BY <1>1, <1>5, <2>1 DEF After
<1>6. QED
  BY <1>3, <1>4, <1>5

\* Only sockets in line are after one.
LEMMA AfterInLine ==
  ASSUME GatewayOK, NEW s \in Sockets, NEW t \in After(s)
  PROVE  t \in Sockets /\ Owner[t] = Owner[s] /\ \E k \in DOMAIN line : line[k] = t
  BY DEF After, GatewayOK

\* What a step does to the sockets and to who is remembered.
LEMMA GatewaySteps ==
  ASSUME [Next]_vars
  PROVE  \/ \E s \in Sockets : HandleConnection(s) \/ Break(s) \/ HandleDisconnect(s)
         \/ Crash
         \/ UNCHANGED gateway
  BY DEF Next, vars, gateway, StartConversation, LookForDirect, CreateConversation,
         CreateGroup, PassDueDate, CronScan, ArchiveConversation, VerifyParticipant,
         SaveMessage, Enqueue, QueueRefuses, TakeJob, SendToUser, SendPush, FinishJob,
         FailJob

\* A socket opens once and closes for good, and the line only grows.
LEMMA SocketsAge ==
  ASSUME TypeOK, [Next]_vars, NEW s \in Sockets
  PROVE  /\ socket[s] # "new" => socket'[s] # "new"
         /\ socket[s] # "new" /\ socket'[s] = "open" => socket[s] = "open"
         /\ socket[s] = "closed" => socket'[s] = "closed"
         /\ After(s) \subseteq After(s)'
         /\ (\E k \in DOMAIN line : line[k] = s) => \E k \in DOMAIN line' : line'[k] = s
<1> USE DEF TypeOK, GatewayOK
<1>1. ASSUME NEW t \in Sockets, HandleConnection(t)
      PROVE  /\ After(s) \subseteq After(s)'
             /\ \A k \in DOMAIN line : k \in DOMAIN line' /\ line'[k] = line[k]
             /\ socket' = [socket EXCEPT ![t] = "open"] /\ socket[t] = "new"
  BY <1>1, AfterGrows DEF HandleConnection
<1>2. ASSUME NEW t \in Sockets, Break(t) \/ HandleDisconnect(t)
      PROVE  /\ line' = line /\ socket[t] \in {"open", "gone"}
             /\ \E c \in {"gone", "closed"} : socket' = [socket EXCEPT ![t] = c]
  BY <1>2 DEF Break, HandleDisconnect
<1>3. ASSUME Crash
      PROVE  line' = line /\ socket'[s] = IF socket[s] = "new" THEN "new" ELSE "closed"
  BY <1>3 DEF Crash
<1>4. UNCHANGED gateway => line' = line /\ socket' = socket
  BY DEF gateway
<1>5. CASE \E t \in Sockets : HandleConnection(t)
  BY <1>1, <1>5
<1>6. CASE \E t \in Sockets : Break(t) \/ HandleDisconnect(t)
  BY <1>2, <1>6, AfterKept
<1>7. CASE Crash
  BY <1>3, <1>7, AfterKept
<1>8. CASE UNCHANGED gateway
  BY <1>4, <1>8, AfterKept
<1>9. QED
  BY <1>5, <1>6, <1>7, <1>8, GatewaySteps

\* The sockets open when a message is stored are known from then on.
LEMMA SinceSteps ==
  ASSUME TypeOK, [Next]_vars, NEW m \in Messages
  PROVE  /\ since'[m] = since[m] \/ since'[m] = {s \in Sockets : socket[s] = "open"}
         /\ Posted(m) => since'[m] = since[m]
<1>1. ASSUME NEW n \in Messages, SaveMessage(n)
      PROVE  /\ since'[m] = since[m] \/ since'[m] = {s \in Sockets : socket[s] = "open"}
             /\ Posted(m) => since'[m] = since[m]
  BY <1>1 DEF SaveMessage, Posted, TypeOK, DeliveryOK
<1>2. (\A n \in Messages : ~SaveMessage(n)) => since' = since
  BY DEF Next, vars, delivery, StartConversation, LookForDirect, CreateConversation,
         CreateGroup, PassDueDate, CronScan, ArchiveConversation, VerifyParticipant,
         Enqueue, QueueRefuses, TakeJob, SendToUser, SendPush, FinishJob, FailJob,
         HandleConnection, Break, HandleDisconnect, Crash
<1>3. QED
  BY <1>1, <1>2

\* The gateway remembers the last of a user's sockets that did not close.
LEMMA LinedNext ==
  ASSUME TypeOK, Lined, [Next]_vars
  PROVE  Lined'
<1> USE MessagingAssumption DEF TypeOK, GatewayOK
<1> DEFINE InLine(s) == \E k \in DOMAIN line : line[k] = s
           Up == {s \in Sockets : socket[s] \in {"open", "gone"}}
           Last(s) == (\A t \in After(s) : socket[t] # "closed")
                        => remembered[Owner[s]] \in {s} \cup After(s)
           Known == \A u \in Users : remembered[u] # None =>
                      Owner[remembered[u]] = u /\ remembered[u] \in Up
           Listed == \A s \in Sockets : socket[s] = "new" <=> ~InLine(s)
<1>1. Known /\ Listed /\ \A s \in Up : Last(s)
  BY DEF Lined
<1>2. (Known /\ Listed /\ \A s \in Up : Last(s))'
  <2>1. ASSUME NEW t \in Sockets, HandleConnection(t)
        PROVE  (Known /\ Listed /\ \A s \in Up : Last(s))'
    <3>1. /\ socket' = [socket EXCEPT ![t] = "open"] /\ socket[t] = "new"
          /\ remembered' = [remembered EXCEPT ![Owner[t]] = t]
          /\ line' = Append(line, t) /\ ~InLine(t)
      BY <1>1, <2>1 DEF HandleConnection, Remember
    <3>2. \A s \in Sockets : InLine(s)' <=> InLine(s) \/ s = t
      <4>1. /\ DOMAIN line' = DOMAIN line \cup {Len(line) + 1}
            /\ line'[Len(line) + 1] = t
            /\ \A k \in DOMAIN line : line'[k] = line[k]
        BY <3>1
      <4>2. QED
        BY <4>1
    <3>3. Up' = Up \cup {t}
      BY <3>1
    <3>4. Known' /\ Listed'
      <4>1. ASSUME NEW u \in Users, remembered'[u] # None
            PROVE  Owner[remembered'[u]] = u /\ remembered'[u] \in Up'
        <5>1. CASE u = Owner[t]
          BY <3>1, <3>3, <5>1
        <5>2. CASE u # Owner[t]
          <6>1. remembered'[u] = remembered[u]
            BY <3>1, <5>2
          <6>2. QED
            BY <1>1, <3>3, <4>1, <6>1
        <5>3. QED
          BY <5>1, <5>2
      <4>2. ASSUME NEW s \in Sockets
            PROVE  socket'[s] = "new" <=> ~InLine(s)'
        BY <1>1, <3>1, <3>2
      <4>3. QED
        BY <4>1, <4>2
    <3>5. ASSUME NEW s \in Up, \A x \in After(s)' : socket'[x] # "closed"
          PROVE  remembered'[Owner[s]] \in {s} \cup After(s)'
      <4>1. InLine(s) /\ s # t
        BY <1>1, <3>1
      <4>2. CASE Owner[s] = Owner[t]
        BY <3>1, <4>1, <4>2, AfterGrows
      <4>3. CASE Owner[s] # Owner[t]
        <5>1. After(s)' = After(s)
          <6>1. After(s)' = After(s) \cup
                  {x \in {t} : Owner[x] = Owner[s] /\ \E k \in DOMAIN line : line[k] = s}
            BY <3>1, AfterGrows
          <6>2. QED
            BY <4>3, <6>1
        <5>2. \A x \in After(s) : x # t
          BY <4>3, AfterInLine
        <5>3. \A x \in After(s) : socket[x] # "closed"
          BY <3>1, <3>5, <5>1, <5>2, AfterInLine
        <5>4. remembered[Owner[s]] \in {s} \cup After(s)
          BY <1>1, <5>3
        <5>5. QED
          BY <3>1, <4>3, <5>1, <5>4
      <4>4. QED
        BY <4>2, <4>3
    <3>6. remembered'[Owner[t]] = t
      BY <3>1
    <3>7. QED
      BY <3>3, <3>4, <3>5, <3>6
  <2>2. ASSUME NEW t \in Sockets, Break(t)
        PROVE  (Known /\ Listed /\ \A s \in Up : Last(s))'
    <3>1. /\ socket' = [socket EXCEPT ![t] = "gone"] /\ socket[t] = "open"
          /\ remembered' = remembered /\ line' = line
      BY <2>2 DEF Break
    <3>2. Up' = Up /\ \A s : After(s)' = After(s)
      BY <3>1, AfterKept
    <3>3. Known' /\ Listed'
      BY <1>1, <3>1, <3>2
    <3>4. \A s \in Up : \A x \in After(s) : x \in Sockets
      BY AfterInLine
    <3>5. QED
      BY <1>1, <3>1, <3>2, <3>3, <3>4
  <2>3. ASSUME NEW t \in Sockets, HandleDisconnect(t)
        PROVE  (Known /\ Listed /\ \A s \in Up : Last(s))'
    <3>1. /\ socket' = [socket EXCEPT ![t] = "closed"] /\ socket[t] \in {"open", "gone"}
          /\ remembered' = [u \in Users |-> IF remembered[u] = t THEN None
                                            ELSE remembered[u]]
          /\ line' = line
      BY <2>3 DEF HandleDisconnect, Forget
    <3>2. Up' = Up \ {t} /\ \A s : After(s)' = After(s)
      BY <3>1, AfterKept
    <3>3. Known' /\ Listed'
      BY <1>1, <3>1, <3>2
    <3>4. ASSUME NEW s \in Up, s # t, \A x \in After(s) : socket'[x] # "closed"
          PROVE  remembered'[Owner[s]] \in {s} \cup After(s)
      <4>1. t \notin After(s) /\ \A x \in After(s) : socket[x] # "closed"
        BY <3>1, <3>4, AfterInLine
      <4>2. remembered[Owner[s]] \in {s} \cup After(s)
        BY <1>1, <4>1
      <4>3. QED
        BY <3>1, <3>4, <4>1, <4>2
    <3>5. QED
      BY <3>2, <3>3, <3>4
  <2>4. ASSUME Crash
        PROVE  (Known /\ Listed /\ \A s \in Up : Last(s))'
    <3>1. /\ socket' = [s \in Sockets |-> IF socket[s] = "new" THEN "new" ELSE "closed"]
          /\ remembered' = [u \in Users |-> None] /\ line' = line
      BY <2>4 DEF Crash
    <3>2. QED
      BY <1>1, <3>1
  <2>5. ASSUME UNCHANGED gateway
        PROVE  (Known /\ Listed /\ \A s \in Up : Last(s))'
    <3>1. socket' = socket /\ remembered' = remembered /\ line' = line
      BY <2>5 DEF gateway
    <3>2. QED
      BY <1>1, <3>1, AfterKept
  <2>6. QED
    BY <2>1, <2>2, <2>3, <2>4, <2>5, GatewaySteps
<1>3. \A m \in Messages : \A s \in since'[m] : s \in Sockets /\ socket'[s] # "new"
  <2> SUFFICES ASSUME NEW m \in Messages, NEW s \in since'[m]
               PROVE  s \in Sockets /\ socket'[s] # "new"
    OBVIOUS
  <2>1. s \in since[m] \/ s \in {x \in Sockets : socket[x] = "open"}
    BY SinceSteps
  <2>2. s \in Sockets /\ socket[s] # "new"
    BY <2>1 DEF Lined, DeliveryOK
  <2>3. QED
    BY <2>2, SocketsAge
<1>4. QED
  BY <1>2, <1>3 DEF Lined

-----------------------------------------------------------------------------
(* Whoever the worker has been through has the message                     *)

\* Reached says that a finished message has served every participant.
LEMMA ReachedIs ==
  Reached <=> \A m \in Messages : message[m].pc = "done" =>
    \A u \in conversation[message[m].in].who \ {message[m].sender} : Served(m, u)
  BY DEF Reached, Served

\* What was shown and pushed stays so.
LEMMA ShownGrows ==
  ASSUME TypeOK, [Next]_vars, NEW m \in Messages
  PROVE  shown[m] \subseteq shown'[m] /\ pushed[m] \subseteq pushed'[m]
<1> USE DEF TypeOK, DeliveryOK
<1>1. ASSUME NEW u \in Users, SendToUser(u)
      PROVE  shown[m] \subseteq shown'[m] /\ pushed[m] \subseteq pushed'[m]
  BY <1>1 DEF SendToUser
<1>2. ASSUME NEW u \in Users, SendPush(u)
      PROVE  shown[m] \subseteq shown'[m] /\ pushed[m] \subseteq pushed'[m]
  BY <1>2 DEF SendPush
<1>3. QED
  BY <1>1, <1>2
  DEF Next, vars, delivery, StartConversation, LookForDirect, CreateConversation,
      CreateGroup, PassDueDate, CronScan, ArchiveConversation, VerifyParticipant,
      SaveMessage, Enqueue, QueueRefuses, TakeJob, FinishJob, FailJob,
      HandleConnection, Break, HandleDisconnect, Crash

\* Who has what he was promised keeps it, and is promised nothing more.
LEMMA ServedStays ==
  ASSUME TypeOK, Lined, [Next]_vars, NEW m \in Messages, Posted(m),
         NEW u \in Users, Served(m, u)
  PROVE  Served(m, u)'
<1> USE DEF TypeOK, GatewayOK
<1>1. since'[m] = since[m] /\ since[m] \subseteq Sockets
  BY SinceSteps DEF DeliveryOK
<1>2. shown[m] \subseteq shown'[m] /\ pushed[m] \subseteq pushed'[m]
  BY ShownGrows
<1>3. ASSUME NEW s \in since'[m], Owner[s] = u, socket'[s] = "open",
             \A t \in After(s)' : socket'[t] # "closed"
      PROVE  u \in shown'[m]
  <2>1. s \in since[m] /\ s \in Sockets /\ socket[s] # "new"
    BY <1>1, <1>3 DEF Lined
  <2>2. socket[s] = "open" /\ After(s) \subseteq After(s)'
    BY <1>3, <2>1, SocketsAge
  <2>3. \A t \in After(s) : socket[t] # "closed"
    BY <1>3, <2>1, <2>2, AfterInLine, SocketsAge
  <2>4. QED
    BY <1>2, <1>3, <2>1, <2>2, <2>3 DEF Served
<1>4. ASSUME u \in Phones, \A k \in DOMAIN line' : Owner[line'[k]] # u
      PROVE  u \in pushed'[m]
  <2>1. ASSUME NEW k \in DOMAIN line
        PROVE  Owner[line[k]] # u
    <3>1. line[k] \in Sockets
      OBVIOUS
    <3>2. \E j \in DOMAIN line' : line'[j] = line[k]
      BY <3>1, SocketsAge
    <3>3. QED
      BY <1>4, <3>2
  <2>2. QED
    BY <1>2, <1>4, <2>1 DEF Served
<1>5. QED
  BY <1>3, <1>4 DEF Served

\* A user who is online is emitted to, on every socket that is open.
LEMMA SendServes ==
  ASSUME TypeOK, Stored, Lined, NEW u \in Users, SendToUser(u) \/ SendPush(u)
  PROVE  /\ job.of \in Messages /\ job'.of = job.of
         /\ job'.left = job.left \ {u} /\ Served(job.of, u)'
<1> USE MessagingAssumption DEF TypeOK, DeliveryOK, GatewayOK
<1>1. /\ job.of \in Messages /\ job'.of = job.of /\ job'.left = job.left \ {u}
      /\ socket' = socket /\ line' = line /\ since' = since
  <2>1. u \in job.left /\ job' = [job EXCEPT !.left = @ \ {u}]
    BY DEF SendToUser, SendPush
  <2>2. job.of \in Messages
    BY <2>1 DEF Stored, NoJob
  <2>3. QED
    BY <2>1, <2>2 DEF SendToUser, SendPush, gateway
<1>2. \A s : After(s)' = After(s)
  BY <1>1, AfterKept
<1>3. ASSUME NEW s \in since[job.of], Owner[s] = u, socket[s] = "open",
             \A t \in After(s) : socket[t] # "closed"
      PROVE  SendToUser(u) /\ u \in shown'[job.of]
  <2>1. s \in Sockets /\ s \in Room(u)
    BY <1>1, <1>3 DEF Room
  <2>2. remembered[u] \in {s} \cup After(s)
    BY <1>3, <2>1 DEF Lined
  <2>3. remembered[u] # None
    BY <2>1, <2>2, AfterInLine
  <2>4. SendToUser(u) /\ shown' = [shown EXCEPT ![job.of] = @ \cup {u}]
    BY <2>1, <2>3 DEF SendToUser, SendPush, IsUserOnline
  <2>5. QED
    BY <1>1, <2>4
<1>4. ASSUME u \in Phones, \A k \in DOMAIN line : Owner[line[k]] # u
      PROVE  u \in pushed'[job.of]
  <2>1. remembered[u] = None
    <3>1. SUFFICES ASSUME remembered[u] # None PROVE FALSE
      OBVIOUS
    <3>2. remembered[u] \in Sockets /\ Owner[remembered[u]] = u
          /\ socket[remembered[u]] # "new"
      BY <3>1 DEF Lined
    <3>3. PICK k \in DOMAIN line : line[k] = remembered[u]
      BY <3>2 DEF Lined
    <3>4. QED
      BY <1>4, <3>2, <3>3
  <2>2. pushed' = [pushed EXCEPT ![job.of] = @ \cup {u}]
    BY <1>4, <2>1 DEF SendToUser, SendPush, IsUserOnline
  <2>3. QED
    BY <1>1, <2>2
<1>5. Served(job.of, u)'
  BY <1>1, <1>2, <1>3, <1>4 DEF Served
<1>6. QED
  BY <1>1, <1>5

\* The participants of a stored message are users, and the same after a step.
LEMMA AudienceStays ==
  ASSUME TypeOK, Holding, Delivering, [Next]_vars, NEW m \in Messages, Posted(m)
  PROVE  LET audience == conversation[message[m].in].who \ {message[m].sender} IN
         audience \subseteq Users /\ audience' = audience
<1>1. message'[m].in = message[m].in /\ message'[m].sender = message[m].sender
  BY MessageSteps DEF Posted
<1>2. message[m].in \in Ids /\ conversation[message[m].in].who # {}
  BY DEF Delivering, Placed, Posted
<1>3. conversation'[message[m].in].who = conversation[message[m].in].who
  BY <1>2, ConversationStays
<1>4. conversation[message[m].in].who \subseteq Users
  BY <1>2 DEF TypeOK, ChatsOK, ConversationRow
<1>5. QED
  BY <1>1, <1>3, <1>4

\* A job begins with all participants but the sender, and serves each as he
\* leaves it.
LEMMA WorkedNext ==
  ASSUME TypeOK, Holding, Delivering, Lined, Worked, [Next]_vars
  PROVE  Worked'
<1> USE MessagingAssumption DEF TypeOK, DeliveryOK, Delivering
<1> DEFINE audience(m) == conversation[message[m].in].who \ {message[m].sender}
<1>1. ASSUME job.of # None
      PROVE  /\ job.of \in Messages /\ Posted(job.of) /\ audience(job.of) \subseteq Users
             /\ conversation'[message'[job.of].in].who \ {message'[job.of].sender}
                  = audience(job.of)
             /\ \A u \in audience(job.of) \ job.left : Served(job.of, u)
  <2>1. job.of \in Messages /\ Posted(job.of)
    BY <1>1 DEF Stored
  <2>2. \A m \in Messages : Posted(m) =>
          /\ audience(m) \subseteq Users
          /\ conversation'[message'[m].in].who \ {message'[m].sender} = audience(m)
    BY AudienceStays
  <2>3. QED
    BY <1>1, <2>1, <2>2 DEF Worked
<1>2. \A m \in Messages, u \in Users : Posted(m) /\ Served(m, u) => Served(m, u)'
  BY ServedStays
<1>3. ASSUME job' = job
      PROVE  Worked'
  <2>1. SUFFICES ASSUME job.of # None
                 PROVE  \A u \in audience(job.of) \ job.left : Served(job.of, u)'
    BY <1>1, <1>3 DEF Worked
  <2>2. QED
    BY <1>1, <1>2, <1>3, <2>1 DEF Served
<1>4. ASSUME NEW v \in Users, SendToUser(v) \/ SendPush(v)
      PROVE  Worked'
  <2>1. /\ job.of \in Messages /\ job'.of = job.of
        /\ job'.left = job.left \ {v} /\ Served(job.of, v)'
    BY <1>4, SendServes
  <2>2. job.of # None
    BY <2>1
  <2>3. \A u \in audience(job.of) \ job.left : Served(job.of, u)'
    BY <1>1, <1>2, <2>1, <2>2 DEF Served
  <2>4. QED
    BY <1>1, <2>1, <2>2, <2>3 DEF Worked
<1>5. ASSUME job' = NoJob
      PROVE  Worked'
  BY <1>5 DEF Worked, NoJob
<1>6. ASSUME TakeJob
      PROVE  Worked'
  <2>1. Head(queue) \in Messages /\ Head(queue) = queue[1] /\ 1 \in DOMAIN queue
    BY <1>6 DEF TakeJob
  <2>2. Posted(Head(queue))
    BY <2>1 DEF Stored
  <2>3. job' = [of |-> Head(queue), left |-> audience(Head(queue))]
    BY <1>6 DEF TakeJob
  <2>4. \A m \in Messages : Posted(m) =>
          conversation'[message'[m].in].who \ {message'[m].sender} = audience(m)
    BY AudienceStays
  <2>5. conversation'[message'[job'.of].in].who \ {message'[job'.of].sender} = job'.left
    BY <2>1, <2>2, <2>3, <2>4
  <2>6. QED
    BY <2>5 DEF Worked
<1>7. Crash => job' = NoJob
  BY DEF Crash
<1>8. ASSUME NEW m \in Messages, Enqueue(m)
      PROVE  job' = job
  BY <1>8 DEF Enqueue
<1>9. QED
  BY <1>3, <1>4, <1>5, <1>6, <1>7, <1>8, QueueSteps

\* A job that ends has served everybody.
LEMMA ReachedNext ==
  ASSUME TypeOK, Holding, Delivering, Lined, Worked, Reached, [Next]_vars
  PROVE  Reached'
<1> USE MessagingAssumption DEF TypeOK, DeliveryOK, Delivering
<1> DEFINE audience(m) == conversation[message[m].in].who \ {message[m].sender}
<1>1. ASSUME NEW m \in Messages, message'[m].pc = "done",
             NEW u \in conversation'[message'[m].in].who \ {message'[m].sender}
      PROVE  Served(m, u)'
  <2>1. message[m].pc = "done" \/ (FinishJob /\ m = job.of)
    BY <1>1, MessageSteps
  <2>2. Posted(m)
    <3>1. FinishJob => job.of # None
      BY DEF FinishJob, Stored
    <3>2. QED
      BY <2>1, <3>1 DEF Posted, Stored
  <2>3. u \in audience(m) /\ u \in Users
    BY <1>1, <2>2, AudienceStays
  <2>4. Served(m, u)
    <3>1. CASE message[m].pc = "done"
      BY <2>3, <3>1, ReachedIs
    <3>2. CASE FinishJob /\ m = job.of
      BY <2>3, <3>2 DEF FinishJob, Worked
    <3>3. QED
      BY <2>1, <3>1, <3>2
  <2>5. QED
    BY <2>2, <2>3, <2>4, ServedStays
<1>2. QED
  BY <1>1 DEF Reached, Served

-----------------------------------------------------------------------------
(* The theorems                                                            *)

\* It holds before anything was sent.
LEMMA IInvInit == Init => IInv
<1> SUFFICES ASSUME Init PROVE IInv
  OBVIOUS
<1>1. Placed /\ Stored /\ Worked /\ Reached
  BY DEF Init, Placed, Stored, Worked, Reached, NoMessage, NoJob
<1>2. Lined
  BY DEF Init, Lined
<1>3. QED
  BY <1>1, <1>2, TypeOKInit, ConversedInit DEF IInv, Conversed

\* Conversations and deliveries, by every interleaving of calls, sockets,
\* the worker and crashes.
THEOREM MessagingInvariant == Spec => []IInv
<1>1. IInv /\ [Next]_vars => IInv'
  BY TypeOKNext, ConversedNext, PlacedNext, StoredNext, LinedNext, WorkedNext,
     ReachedNext DEF IInv, Conversed, Delivering
<1>2. QED
  BY IInvInit, <1>1, PTL DEF Spec

\* Two users have one direct conversation, whoever starts it and how often,
\* unless their calls searched at once, skipped the search or found a smaller
\* conversation (startConversation).
THEOREM DirectIsOne == Spec => []OneDirect
<1>1. IInv => OneDirect
  BY DEF IInv
<1>2. QED
  BY MessagingInvariant, <1>1, PTL

\* A message whose job is done was shown on every socket that was there to
\* show it and not forgotten, or pushed to the telephone of one who never
\* connected (the delivery worker and the gateway's map of users).
THEOREM DeliveredIsReached == Spec => []Reached
<1>1. IInv => Reached
  BY DEF IInv
<1>2. QED
  BY MessagingInvariant, <1>1, PTL

-----------------------------------------------------------------------------
(***************************************************************************)
(* Authentication sessions                                                 *)
(*                                                                         *)
(* Proofs about Sessions, for any number of calls and passwords.            *)
(***************************************************************************)

RequestState ==
  [pc : {"new", "authentic", "changing", "found", "live", "known", "issued", "done"},
   token : Tokens \cup {Nothing}, answer : Tokens \cup {Nothing},
   new : Passwords \cup {Nothing}]

RequestsOK ==
  /\ store \in [Tokens -> Tokens \cup {"1", Nothing}]
  /\ password \in Passwords
  /\ request \in [Calls -> RequestState]
  /\ parent \in [Tokens -> Tokens \cup {Nothing}]
  /\ overlapped \in SUBSET Tokens /\ ended \in SUBSET Tokens

\* A refresh holds the token it found, a change of password the new one.
RequestsHold ==
  \A c \in Calls :
    /\ request[c].pc \in {"found", "live", "known", "issued"} =>
         request[c].token \in Tokens
    /\ request[c].pc = "changing" => request[c].new \in Passwords

RequestsTyped == RequestsOK /\ RequestsHold

-----------------------------------------------------------------------------
(* The inductive invariant                                                 *)

\* Calls that have not issued their token and still may.
Unissued(c) ==
  request[c].pc \in {"new", "authentic", "changing", "found", "live", "known"}

\* Nobody has seen a token that was not issued yet.
Fresh ==
  \A c \in Calls : Unissued(c) =>
    /\ store[c] = Nothing /\ parent[c] = Nothing /\ c \notin ended
    /\ \A t \in Tokens : /\ store[t] # c /\ parent[t] # c
                         /\ request[t].token # c /\ request[t].answer # c

\* A token that is left alone has one refresh at a time, which finds its key
\* there, and alive from the moment it was read so until it is rewritten.
AloneToken ==
  \A t \in Tokens \ overlapped : \A c \in Refreshing(t) :
    /\ \A d \in Refreshing(t) : c = d
    /\ store[t] # Nothing
    /\ request[c].pc # "found" => store[t] = "1"
    /\ request[c].pc = "issued" => parent[c] = t

\* As long as its key says "1" it was replaced only by a refresh that is about
\* to rewrite the key.
Replaced ==
  \A t \in Tokens \ overlapped : store[t] = "1" =>
    \A n \in Tokens : parent[n] = t => n \in Refreshing(t) /\ request[n].pc = "issued"

\* A token logged out is not being refreshed.
Over == \A t \in ended \ overlapped : store[t] = Nothing /\ Refreshing(t) = {}

TokensCore == Fresh /\ AloneToken /\ Replaced /\ OneSuccessor /\ Over

-----------------------------------------------------------------------------
(* Typing                                                                  *)

\* A call that moves on keeps what it has read.
LEMMA CallMoves ==
  ASSUME NEW c \in Calls, request \in [Calls -> RequestState],
         NEW pc \in {"new", "authentic", "changing", "found", "live", "known",
                     "issued", "done"}
  PROVE  LET s == [request[c] EXCEPT !.pc = pc] IN
         /\ s \in RequestState /\ s.pc = pc
         /\ s.token = request[c].token /\ s.answer = request[c].answer
         /\ s.new = request[c].new
  BY DEF RequestState

\* A refresh that finds a key holds its token.
LEMMA CallFinds ==
  ASSUME NEW c \in Calls, request \in [Calls -> RequestState], NEW t \in Tokens
  PROVE  LET s == [request[c] EXCEPT !.pc = "found", !.token = t] IN
         /\ s \in RequestState /\ s.pc = "found"
         /\ s.token = t /\ s.answer = request[c].answer
  BY DEF RequestState

\* A change of password holds the new one.
LEMMA CallRenews ==
  ASSUME NEW c \in Calls, request \in [Calls -> RequestState], NEW p \in Passwords
  PROVE  LET s == [request[c] EXCEPT !.pc = "changing", !.new = p] IN
         /\ s \in RequestState /\ s.pc = "changing" /\ s.new = p
         /\ s.token = request[c].token /\ s.answer = request[c].answer
  BY DEF RequestState

\* A call that is over remembers at most its answer.
LEMMA CallEnds ==
  /\ Idle("done") \in RequestState /\ Idle("done").pc = "done"
  /\ Idle("done").answer = Nothing /\ Idle("done").token = Nothing
  /\ \A c, t \in Tokens : /\ Answer(c, t) \in RequestState
                          /\ Answer(c, t).pc = "done" /\ Answer(c, t).answer = t
                          /\ Answer(c, t).token = Nothing
  BY DEF RequestState, Idle, Answer

\* No token is out and no call has begun.
LEMMA RequestsTypedInit == SessionsInit => RequestsTyped
  BY SessionsAssumption
  DEF SessionsInit, RequestsTyped, RequestsOK, RequestsHold, RequestState, Tokens,
      Idle

\* Every action keeps the types, and what a call holds.
LEMMA RequestsTypedNext == RequestsTyped /\ [SessionsNext]_sessions => RequestsTyped'
<1> SUFFICES ASSUME RequestsTyped, [SessionsNext]_sessions PROVE RequestsTyped'
  OBVIOUS
<1> USE SessionsAssumption DEF RequestsTyped, RequestsOK, RequestsHold
<1>1. ASSUME NEW c \in Calls, NEW p \in Passwords, CheckPassword(c, p)
      PROVE  RequestsTyped'
  BY <1>1, CallMoves DEF CheckPassword
<1>2. ASSUME NEW c \in Calls, NEW p \in Passwords, NEW old \in Passwords,
             CheckOldPassword(c, old, p)
      PROVE  RequestsTyped'
  <2>1. request' =
          [request EXCEPT ![c] = [request[c] EXCEPT !.pc = "changing", !.new = p]]
    BY <1>2 DEF CheckOldPassword
  <2>2. request' \in [Calls -> RequestState] /\ RequestsHold'
    BY <2>1, CallRenews
  <2>3. QED
    BY <1>2, <2>2 DEF CheckOldPassword
<1>3. ASSUME NEW c \in Calls, NEW t \in Tokens, FindKey(c, t)
      PROVE  RequestsTyped'
  <2>1. request' =
          [request EXCEPT ![c] = [request[c] EXCEPT !.pc = "found", !.token = t]]
    BY <1>3 DEF FindKey
  <2>2. /\ request' \in [Calls -> RequestState]
        /\ request'[c].pc = "found" /\ request'[c].token = t
    BY <2>1, CallFinds
  <2>3. \A d \in Calls \ {c} : request'[d] = request[d]
    BY <2>1
  <2>4. QED
    BY <1>3, <2>2, <2>3 DEF FindKey
<1>4. ASSUME NEW c \in Calls, NEW t \in Tokens, Logout(c, t)
      PROVE  RequestsTyped'
  BY <1>4, CallEnds DEF Logout, Deleted
<1>5. ASSUME NEW c \in Calls, Login(c)
      PROVE  RequestsTyped'
  BY <1>5, CallEnds DEF Login, IssueTokens, Tokens
<1>6. ASSUME NEW c \in Calls, ChangePassword(c) \/ ResetPassword(c)
      PROVE  RequestsTyped'
  BY <1>6, CallEnds DEF ChangePassword, ResetPassword
<1>7. ASSUME NEW c \in Calls, ReadValue(c) \/ ReadUser(c)
      PROVE  RequestsTyped'
  <2>1. CASE ReadValue(c)
    BY ZenonT(30), <2>1, CallMoves, CallEnds DEF ReadValue, Tokens
  <2>2. CASE ReadUser(c)
    BY <2>2, CallMoves DEF ReadUser
  <2>3. QED
    BY <1>7, <2>1, <2>2
<1>8. ASSUME NEW c \in Calls, IssueSuccessor(c) \/ StartGracePeriod(c)
      PROVE  RequestsTyped'
  <2>1. CASE IssueSuccessor(c)
    BY <2>1, CallMoves DEF IssueSuccessor, IssueTokens, Tokens
  <2>2. CASE StartGracePeriod(c)
    BY <2>2, CallEnds DEF StartGracePeriod, Tokens
  <2>3. QED
    BY <1>8, <2>1, <2>2
<1>9. ASSUME NEW c \in Calls, Abandon(c)
      PROVE  RequestsTyped'
  BY <1>9, CallEnds DEF Abandon
<1>10. ASSUME NEW t \in Tokens, Expire(t)
       PROVE  RequestsTyped'
  BY <1>10 DEF Expire
<1>11. CASE UNCHANGED sessions
  BY <1>11 DEF sessions
<1>12. QED
  BY <1>1, <1>2, <1>3, <1>4, <1>5, <1>6, <1>7, <1>8, <1>9, <1>10, <1>11
  DEF SessionsNext

-----------------------------------------------------------------------------
(* The invariant is kept                                                   *)

\* What a step does to its call, told by the parts the invariant looks at.
Turns(c, pc, token, answer) ==
  /\ request'[c].pc = pc /\ request'[c].token = token /\ request'[c].answer = answer
  /\ \A d \in Calls \ {c} : request'[d] = request[d]

Keeps(c, pc) == Turns(c, pc, request[c].token, request[c].answer)

\* Every action turns its own call, and no other.
LEMMA Turn ==
  ASSUME RequestsTyped, NEW c \in Calls
  PROVE  /\ \A p \in Passwords : CheckPassword(c, p) => Keeps(c, "authentic")
         /\ \A old, p \in Passwords :
              CheckOldPassword(c, old, p) => Keeps(c, "changing")
         /\ \A t \in Tokens : FindKey(c, t) => Turns(c, "found", t, request[c].answer)
         /\ \A t \in Tokens : Logout(c, t) => Turns(c, "done", Nothing, Nothing)
         /\ ChangePassword(c) \/ ResetPassword(c) \/ Abandon(c)
              => Turns(c, "done", Nothing, Nothing)
         /\ Login(c) \/ StartGracePeriod(c) => Turns(c, "done", Nothing, c)
         /\ ReadValue(c) =>
              \/ /\ store[request[c].token] \in Tokens
                 /\ Turns(c, "done", Nothing, store[request[c].token])
              \/ store[request[c].token] \notin Tokens /\ Keeps(c, "live")
         /\ ReadUser(c) => Keeps(c, "known")
         /\ IssueSuccessor(c) => Keeps(c, "issued")
<1> USE DEF RequestsTyped, RequestsOK, Turns, Keeps
<1>1. \A p \in Passwords : CheckPassword(c, p) => Keeps(c, "authentic")
  BY CallMoves DEF CheckPassword
<1>2. ASSUME NEW old \in Passwords, NEW p \in Passwords, CheckOldPassword(c, old, p)
      PROVE  Keeps(c, "changing")
  <2>1. request' =
          [request EXCEPT ![c] = [request[c] EXCEPT !.pc = "changing", !.new = p]]
    BY <1>2 DEF CheckOldPassword
  <2>2. QED
    BY <2>1, CallRenews
<1>3. ASSUME NEW t \in Tokens, FindKey(c, t)
      PROVE  Turns(c, "found", t, request[c].answer)
  <2>1. request' =
          [request EXCEPT ![c] = [request[c] EXCEPT !.pc = "found", !.token = t]]
    BY <1>3 DEF FindKey
  <2>2. QED
    BY <2>1, CallFinds
<1>4. \A t \in Tokens : Logout(c, t) => Turns(c, "done", Nothing, Nothing)
  BY CallEnds DEF Logout
<1>5. ChangePassword(c) \/ ResetPassword(c) \/ Abandon(c)
        => Turns(c, "done", Nothing, Nothing)
  BY CallEnds DEF ChangePassword, ResetPassword, Abandon
<1>6. Login(c) \/ StartGracePeriod(c) => Turns(c, "done", Nothing, c)
  BY CallEnds DEF Login, StartGracePeriod, Tokens
<1>7. ASSUME ReadValue(c)
      PROVE  \/ /\ store[request[c].token] \in Tokens
                /\ Turns(c, "done", Nothing, store[request[c].token])
             \/ store[request[c].token] \notin Tokens /\ Keeps(c, "live")
  <2>1. CASE store[request[c].token] \in Tokens
    BY <1>7, <2>1, CallEnds DEF ReadValue, Tokens
  <2>2. CASE store[request[c].token] \notin Tokens
    BY <1>7, <2>2, CallMoves DEF ReadValue
  <2>3. QED
    BY <2>1, <2>2
<1>8. ReadUser(c) => Keeps(c, "known")
  BY CallMoves DEF ReadUser
<1>9. IssueSuccessor(c) => Keeps(c, "issued")
  BY CallMoves DEF IssueSuccessor
<1>10. QED
  BY <1>1, <1>2, <1>3, <1>4, <1>5, <1>6, <1>7, <1>8, <1>9

\* A successor is issued by the one call that held the token.
LEMMA TokensCoreNext ==
  RequestsTyped /\ TokensCore /\ [SessionsNext]_sessions => TokensCore'
<1> SUFFICES ASSUME RequestsTyped, TokensCore, [SessionsNext]_sessions
             PROVE  TokensCore'
  OBVIOUS
<1> USE SessionsAssumption
    DEF RequestsTyped, RequestsOK, RequestsHold, TokensCore, Fresh, AloneToken,
        Replaced, OneSuccessor, Over, Refreshing, Unissued, Turns, Keeps, Tokens
<1>1. ASSUME NEW c \in Calls, NEW p \in Passwords, CheckPassword(c, p)
      PROVE  TokensCore'
  <2>1. Keeps(c, "authentic")
    BY <1>1, Turn
  <2>2. QED
    BY <1>1, <2>1 DEF CheckPassword
<1>2. ASSUME NEW c \in Calls, NEW p \in Passwords, NEW old \in Passwords,
             CheckOldPassword(c, old, p)
      PROVE  TokensCore'
  <2>1. Keeps(c, "changing")
    BY <1>2, Turn
  <2>2. QED
    BY <1>2, <2>1 DEF CheckOldPassword
<1>3. ASSUME NEW c \in Calls, NEW t \in Tokens, FindKey(c, t)
      PROVE  TokensCore'
  <2>1. Turns(c, "found", t, request[c].answer)
    BY <1>3, Turn
  <2>2. QED
    BY <1>3, <2>1 DEF FindKey
<1>4. ASSUME NEW c \in Calls, NEW t \in Tokens, Logout(c, t)
      PROVE  TokensCore'
  <2>1. Turns(c, "done", Nothing, Nothing)
    BY <1>4, Turn
  <2>2. QED
    BY <1>4, <2>1 DEF Logout, Deleted
<1>5. ASSUME NEW c \in Calls, Login(c)
      PROVE  TokensCore'
  <2>1. Turns(c, "done", Nothing, c)
    BY <1>5, Turn
  <2>2. QED
    BY <1>5, <2>1 DEF Login, IssueTokens
<1>6. ASSUME NEW c \in Calls, ChangePassword(c) \/ ResetPassword(c)
      PROVE  TokensCore'
  <2>1. Turns(c, "done", Nothing, Nothing)
    BY <1>6, Turn
  <2>2. QED
    BY <1>6, <2>1 DEF ChangePassword, ResetPassword
<1>7. ASSUME NEW c \in Calls, ReadValue(c)
      PROVE  TokensCore'
  <2>1. CASE Turns(c, "done", Nothing, store[request[c].token])
    BY <1>7, <2>1 DEF ReadValue
  <2>2. CASE store[request[c].token] \notin Tokens /\ Keeps(c, "live")
    BY <1>7, <2>2 DEF ReadValue
  <2>3. QED
    BY <1>7, <2>1, <2>2, Turn
<1>8. ASSUME NEW c \in Calls, ReadUser(c)
      PROVE  TokensCore'
  <2>1. Keeps(c, "known")
    BY <1>8, Turn
  <2>2. QED
    BY <1>8, <2>1 DEF ReadUser
<1>9. ASSUME NEW c \in Calls, IssueSuccessor(c)
      PROVE  TokensCore'
  <2>1. Keeps(c, "issued")
    BY <1>9, Turn
  <2>2. QED
    BY <1>9, <2>1 DEF IssueSuccessor, IssueTokens
<1>10. ASSUME NEW c \in Calls, StartGracePeriod(c)
       PROVE  TokensCore'
  <2>1. Turns(c, "done", Nothing, c)
    BY <1>10, Turn
  <2>2. QED
    BY <1>10, <2>1 DEF StartGracePeriod
<1>11. ASSUME NEW c \in Calls, Abandon(c)
       PROVE  TokensCore'
  <2>1. Turns(c, "done", Nothing, Nothing)
    BY <1>11, Turn
  <2>2. QED
    BY <1>11, <2>1 DEF Abandon
<1>12. ASSUME NEW t \in Tokens, Expire(t)
       PROVE  TokensCore'
  BY <1>12 DEF Expire
<1>13. CASE UNCHANGED sessions
  BY <1>13 DEF sessions
<1>14. QED
  BY <1>1, <1>2, <1>3, <1>4, <1>5, <1>6, <1>7, <1>8, <1>9, <1>10, <1>11, <1>12,
     <1>13 DEF SessionsNext

\* Nothing is issued, replaced or ended at first.
LEMMA TokensCoreInit == SessionsInit => TokensCore
  BY SessionsAssumption
  DEF SessionsInit, TokensCore, Tokens, Idle, Fresh, AloneToken, Replaced,
      OneSuccessor, Over, Refreshing

-----------------------------------------------------------------------------
(* What follows from it                                                    *)

\* Refresh tokens: whatever tabs, logins, logouts and expiries there are, a
\* token left alone is replaced by one token, which the grace period gives out.
THEOREM RotationIsUnique == SessionsSpec => []OneSuccessor
<1>1. SessionsInit => RequestsTyped /\ TokensCore
  BY RequestsTypedInit, TokensCoreInit
<1>2. RequestsTyped /\ TokensCore /\ [SessionsNext]_sessions
        => (RequestsTyped /\ TokensCore)'
  BY RequestsTypedNext, TokensCoreNext
<1>3. TokensCore => OneSuccessor
  BY DEF TokensCore
<1>4. QED
  BY <1>1, <1>2, <1>3, PTL DEF SessionsSpec

\* What a token came from is written by the call that issues it.
LEMMA IssuesOnly ==
  ASSUME RequestsOK, [SessionsNext]_sessions, NEW n \in Tokens, parent'[n] # parent[n]
  PROVE  \/ parent'[n] = Nothing
         \/ \E c \in Calls : IssueSuccessor(c) /\ parent'[n] = request[c].token
<1> USE DEF RequestsOK, Tokens
<1>1. ASSUME NEW c \in Calls, Login(c)
      PROVE  parent'[n] = Nothing
  BY <1>1 DEF Login, IssueTokens
<1>2. ASSUME NEW c \in Calls, IssueSuccessor(c)
      PROVE  parent'[n] = request[c].token
  BY <1>2 DEF IssueSuccessor, IssueTokens
<1>3. QED
  BY <1>1, <1>2
  DEF SessionsNext, sessions, CheckPassword, CheckOldPassword, FindKey, Logout,
      ChangePassword, ResetPassword, ReadValue, ReadUser, StartGracePeriod,
      Abandon, Expire

\* What is over stays over.
LEMMA HistoryGrows ==
  ASSUME [SessionsNext]_sessions
  PROVE  ended \subseteq ended' /\ overlapped \subseteq overlapped'
  BY DEF SessionsNext, sessions, CheckPassword, CheckOldPassword, FindKey, Logout,
         Login, ChangePassword, ResetPassword, ReadValue, ReadUser, IssueSuccessor,
         StartGracePeriod, Abandon, Expire

\* No step brings a token back that was logged out while nobody refreshed it,
\* nor issues another from it.
THEOREM LogoutIsFinal == SessionsSpec => LoggedOutForGood
<1> DEFINE Dead == \A t \in ended \ overlapped' :
                     /\ store'[t] = Nothing
                     /\ \A n \in Tokens : parent'[n] = t => parent[n] = t
<1>1. SessionsInit => RequestsTyped /\ TokensCore
  BY RequestsTypedInit, TokensCoreInit
<1>2. RequestsTyped /\ TokensCore /\ [SessionsNext]_sessions
        => (RequestsTyped /\ TokensCore)'
  BY RequestsTypedNext, TokensCoreNext
<1>3. RequestsTyped /\ TokensCore /\ [SessionsNext]_sessions => [Dead]_sessions
  <2> SUFFICES ASSUME RequestsTyped, TokensCore, [SessionsNext]_sessions
               PROVE  [Dead]_sessions
    OBVIOUS
  <2>1. ended \subseteq ended' /\ overlapped \subseteq overlapped'
    BY HistoryGrows
  <2>2. \A t \in ended \ overlapped' : store'[t] = Nothing
    BY <2>1, TokensCoreNext, RequestsTypedNext
       DEF TokensCore, Over, RequestsTyped, RequestsOK
  <2>3. ASSUME NEW t \in ended \ overlapped', NEW n \in Tokens,
               parent'[n] = t, parent[n] # t
        PROVE  FALSE
    <3>1. t \in Tokens /\ t # Nothing
      BY SessionsAssumption DEF RequestsTyped, RequestsOK, Tokens
    <3>2. PICK c \in Calls : IssueSuccessor(c) /\ request[c].token = t
      BY <2>3, <3>1, IssuesOnly DEF RequestsTyped, RequestsOK
    <3>3. c \in Refreshing(t)
      BY <3>2 DEF IssueSuccessor, Refreshing
    <3>4. QED
      BY <2>1, <2>3, <3>3 DEF TokensCore, Over
  <2>4. QED
    BY <2>2, <2>3
<1>4. QED
  BY <1>1, <1>2, <1>3, PTL DEF SessionsSpec, LoggedOutForGood
=============================================================================
