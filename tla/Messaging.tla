----------------------------- MODULE Messaging -----------------------------
(***************************************************************************)
(* Conversations, messages and their delivery to sockets and telephones.    *)
(*                                                                         *)
(* A message is stored, then queued; one worker takes it and goes through   *)
(* the participants.  The gateway remembers one socket of each user, emits  *)
(* to all of them, and forgets the user when the remembered one closes.     *)
(* Everything the gateway knows is lost with the process; what the queue    *)
(* holds is not.  raced, since and line are history: direct conversations   *)
(* asked for twice at once, the sockets open when a message was stored, and *)
(* the order in which sockets connected.                                    *)
(***************************************************************************)
EXTENDS Integers, Sequences, FiniteSets

CONSTANTS
  Users, Teacher,
  Section,     \* the students of the one section that has groups
  Sockets, Owner,
  Phones,      \* users with an FCM token
  Requests,    \* startConversation calls; each names what it creates
  Types,       \* what a call asks for: "DIRECT", "untyped" (stored as DIRECT), "GROUP"
  Groups,      \* "assignment" and "subject": group chats by their kind
  Messages,
  MaxStalls,   \* BullMQ's maxStalledCount
  MaxCrashes,  \* bound
  None

ASSUME MessagingAssumption ==
  /\ Teacher \in Users /\ Section \subseteq Users \ {Teacher}
  /\ Owner \in [Sockets -> Users] /\ Phones \subseteq Users
  /\ Groups \subseteq {"assignment", "subject"} /\ Requests \cap Groups = {}
  /\ Types \subseteq {"DIRECT", "untyped", "GROUP"}
  /\ MaxStalls \in Nat /\ MaxCrashes \in Nat
  /\ None \notin Users \cup Sockets \cup Requests \cup Messages

Ids == Requests \cup Groups

VARIABLES
  conversation, \* Conversation: participants ({} where there is none), type, status
  call,         \* startConversation: where it stands and whom it is for
  message,      \* Message: where it is, its conversation and its sender
  queue,        \* jobs waiting, in order
  job,          \* the job at work and the participants left, or None
  stalls,       \* how often each job was found stalled
  shown,        \* users a message was emitted to, on a socket that lived
  pushed,       \* users whose telephone FCM was asked to notify
  socket,       \* "new", "open", "gone" (broken, not yet noticed), "closed"
  remembered,   \* connectedUsers
  overdue,      \* is the assignment past its due date?
  cron,         \* the nightly run: has it read its list?
  crashes, raced, since, line

vars == <<conversation, call, message, queue, job, stalls, shown, pushed,
          socket, remembered, overdue, cron, crashes, raced, since, line>>
chats == <<conversation, call, raced, overdue, cron>>
delivery == <<message, queue, job, stalls, shown, pushed, since>>
gateway == <<socket, remembered, line>>

NoCall == [pc |-> "new", who |-> {}, type |-> None]
Answered == [NoCall EXCEPT !.pc = "done"]
NoMessage == [pc |-> "new", in |-> None, sender |-> None]
NoJob == [of |-> None, left |-> {}]

Init ==
  /\ conversation = [i \in Ids |-> [who |-> {}, type |-> None, status |-> "ACTIVE"]]
  /\ call = [r \in Requests |-> NoCall]
  /\ message = [m \in Messages |-> NoMessage]
  /\ queue = <<>> /\ job = NoJob /\ stalls = [m \in Messages |-> 0]
  /\ shown = [m \in Messages |-> {}] /\ pushed = [m \in Messages |-> {}]
  /\ socket = [s \in Sockets |-> "new"] /\ remembered = [u \in Users |-> None]
  /\ overdue = FALSE /\ cron = "idle" /\ crashes = 0
  /\ raced = {} /\ since = [m \in Messages |-> {}] /\ line = <<>>

-----------------------------------------------------------------------------
(* Conversations                                                           *)

Directs == {i \in Ids : conversation[i].who # {} /\ conversation[i].type # "GROUP"}

\* Defect: the conversations with oneself are looked for.
Found_Alone(r) == {i \in Directs : \E u \in call[r].who : conversation[i].who = {u}}

\* Every participant is one of the two: a conversation with oneself fits too.
Found(r) == {i \in Directs : conversation[i].who \subseteq call[r].who}

\* The participants, the caller among them, and perhaps a type.
StartConversation(r, who, type) ==
  /\ call[r].pc = "new"
  /\ LET looks == type = "DIRECT" /\ Cardinality(who) = 2
     IN  call' = [call EXCEPT ![r] =
           [pc |-> IF looks THEN "looking" ELSE "creating",
            who |-> who, type |-> type]]
  /\ UNCHANGED <<conversation, raced, overdue, cron, delivery, gateway, crashes>>

\* The first one found answers the call only when it has both participants.
LookForDirect(r) ==
  /\ call[r].pc = "looking"
  /\ \/ /\ Found(r) = {} \/ \E i \in Found(r) : Cardinality(conversation[i].who) # 2
        /\ call' = [call EXCEPT ![r].pc = "creating"]
        /\ raced' = raced \cup
             {call[r].who : q \in {q \in Requests \ {r} :
                call[q].pc = "creating" /\ call[q].who = call[r].who}}
     \/ /\ \E i \in Found(r) : Cardinality(conversation[i].who) = 2
        /\ call' = [call EXCEPT ![r] = Answered]
        /\ UNCHANGED raced
  /\ UNCHANGED <<conversation, overdue, cron, delivery, gateway, crashes>>

CreateConversation(r) ==
  /\ call[r].pc = "creating"
  /\ conversation' = [conversation EXCEPT ![r] =
       [who |-> call[r].who, type |-> call[r].type, status |-> "ACTIVE"]]
  /\ call' = [call EXCEPT ![r] = Answered]
  /\ UNCHANGED <<raced, overdue, cron, delivery, gateway, crashes>>

\* The section is read and its group created with it.
CreateGroup(g) ==
  /\ conversation[g].who = {}
  /\ conversation' = [conversation EXCEPT ![g] =
       [who |-> {Teacher} \cup Section, type |-> "GROUP", status |-> "ACTIVE"]]
  /\ UNCHANGED <<call, raced, overdue, cron, delivery, gateway, crashes>>

PassDueDate ==
  /\ "assignment" \in Groups /\ ~overdue
  /\ overdue' = TRUE
  /\ UNCHANGED <<conversation, call, raced, cron, delivery, gateway, crashes>>

\* At midnight: the list of active assignment groups.  A group whose
\* assignment is not past due when the run begins is left as it is.
CronScan ==
  /\ cron = "idle" /\ overdue
  /\ conversation["assignment"].who # {}
  /\ conversation["assignment"].status = "ACTIVE"
  /\ cron' = "listed"
  /\ UNCHANGED <<conversation, call, raced, overdue, delivery, gateway, crashes>>

ArchiveConversation ==
  /\ cron = "listed" /\ cron' = "idle"
  /\ conversation' = [conversation EXCEPT !["assignment"].status = "ARCHIVED"]
  /\ UNCHANGED <<call, raced, overdue, delivery, gateway, crashes>>

-----------------------------------------------------------------------------
(* Messages: stored, then queued                                           *)

\* A participant of any conversation, archived ones included.
VerifyParticipant(m, u, i) ==
  /\ message[m].pc = "new" /\ u \in conversation[i].who
  /\ message' = [message EXCEPT ![m] = [pc |-> "verified", in |-> i, sender |-> u]]
  /\ UNCHANGED <<chats, queue, job, stalls, shown, pushed, since, gateway, crashes>>

SaveMessage(m) ==
  /\ message[m].pc = "verified"
  /\ message' = [message EXCEPT ![m].pc = "stored"]
  /\ since' = [since EXCEPT ![m] = {s \in Sockets : socket[s] = "open"}]
  /\ UNCHANGED <<chats, queue, job, stalls, shown, pushed, gateway, crashes>>

Enqueue(m) ==
  /\ message[m].pc = "stored"
  /\ message' = [message EXCEPT ![m].pc = "queued"]
  /\ queue' = Append(queue, m)
  /\ UNCHANGED <<chats, job, stalls, shown, pushed, since, gateway, crashes>>

\* Redis refuses: the sender sees an error, the conversation has the message.
QueueRefuses(m) ==
  /\ message[m].pc = "stored"
  /\ message' = [message EXCEPT ![m].pc = "unqueued"]
  /\ UNCHANGED <<chats, queue, job, stalls, shown, pushed, since, gateway, crashes>>

-----------------------------------------------------------------------------
(* The worker: one job at a time, one participant after the other          *)

TakeJob ==
  /\ job = NoJob /\ queue # <<>>
  /\ queue' = Tail(queue)
  /\ LET m == Head(queue)
     IN  /\ job' = [of |-> m,
                    left |-> conversation[message[m].in].who \ {message[m].sender}]
         /\ message' = [message EXCEPT ![m].pc = "working"]
  /\ UNCHANGED <<chats, stalls, shown, pushed, since, gateway, crashes>>

IsUserOnline(u) == remembered[u] # None
Room(u) == {s \in Sockets : Owner[s] = u /\ socket[s] = "open"}

\* To every socket in the user's room, whichever of them is remembered.
SendToUser(u) ==
  /\ u \in job.left /\ IsUserOnline(u)
  /\ shown' = IF Room(u) = {} THEN shown
              ELSE [shown EXCEPT ![job.of] = @ \cup {u}]
  /\ job' = [job EXCEPT !.left = @ \ {u}]
  /\ UNCHANGED <<chats, message, queue, stalls, pushed, since, gateway, crashes>>

\* What FCM answers is not looked at.
SendPush(u) ==
  /\ u \in job.left /\ ~IsUserOnline(u)
  /\ pushed' = IF u \in Phones THEN [pushed EXCEPT ![job.of] = @ \cup {u}] ELSE pushed
  /\ job' = [job EXCEPT !.left = @ \ {u}]
  /\ UNCHANGED <<chats, message, queue, stalls, shown, since, gateway, crashes>>

FinishJob ==
  /\ job # NoJob /\ job.left = {}
  /\ message' = [message EXCEPT ![job.of].pc = "done"]
  /\ job' = NoJob
  /\ UNCHANGED <<chats, queue, stalls, shown, pushed, since, gateway, crashes>>

\* A read of the database fails: the queue was told of no further attempts.
FailJob ==
  /\ job # NoJob
  /\ message' = [message EXCEPT ![job.of].pc = "failed"]
  /\ job' = NoJob
  /\ UNCHANGED <<chats, queue, stalls, shown, pushed, since, gateway, crashes>>

-----------------------------------------------------------------------------
(* The gateway                                                             *)

\* Defect: a second socket of a user the gateway knows is not recorded.
Remember_First(s) ==
  IF remembered[Owner[s]] = None
  THEN [remembered EXCEPT ![Owner[s]] = s] ELSE remembered

Remember(s) == [remembered EXCEPT ![Owner[s]] = s]

\* Defect: whichever socket of the user closes, the user is forgotten.
Forget_Any(s) == [remembered EXCEPT ![Owner[s]] = None]

Forget(s) == [u \in Users |-> IF remembered[u] = s THEN None ELSE remembered[u]]

HandleConnection(s) ==
  /\ socket[s] = "new"
  /\ socket' = [socket EXCEPT ![s] = "open"]
  /\ remembered' = Remember(s)
  /\ line' = Append(line, s)
  /\ UNCHANGED <<chats, delivery, crashes>>

\* The network breaks; the server learns of it at a later ping.
Break(s) ==
  /\ socket[s] = "open"
  /\ socket' = [socket EXCEPT ![s] = "gone"]
  /\ UNCHANGED <<chats, delivery, remembered, line, crashes>>

HandleDisconnect(s) ==
  /\ socket[s] \in {"open", "gone"}
  /\ socket' = [socket EXCEPT ![s] = "closed"]
  /\ remembered' = Forget(s)
  /\ UNCHANGED <<chats, delivery, line, crashes>>

\* The process dies: sockets, calls and the nightly run with it.  The job at
\* work is found stalled, and runs again from its start or fails.
Crash ==
  /\ crashes < MaxCrashes /\ crashes' = crashes + 1
  /\ socket' = [s \in Sockets |->
                  IF socket[s] = "new" THEN "new" ELSE "closed"]
  /\ remembered' = [u \in Users |-> None]
  /\ cron' = "idle"
  /\ call' = [r \in Requests |-> IF call[r].pc = "new" THEN NoCall ELSE Answered]
  /\ job' = NoJob
  /\ LET again == job # NoJob /\ stalls[job.of] < MaxStalls
     IN  /\ queue' = IF again THEN <<job.of>> \o queue ELSE queue
         /\ stalls' = IF again THEN [stalls EXCEPT ![job.of] = @ + 1] ELSE stalls
         /\ message' = [m \in Messages |->
              CASE message[m].pc = "verified" -> [message[m] EXCEPT !.pc = "dropped"]
                [] message[m].pc = "stored" -> [message[m] EXCEPT !.pc = "unqueued"]
                [] message[m].pc = "working" ->
                     [message[m] EXCEPT !.pc = IF again THEN "queued" ELSE "failed"]
                [] OTHER -> message[m]]
  /\ UNCHANGED <<conversation, raced, overdue, shown, pushed, since, line>>

-----------------------------------------------------------------------------
Next ==
  \/ \E r \in Requests, who \in (SUBSET Users) \ {{}}, type \in Types :
       StartConversation(r, who, type)
  \/ \E r \in Requests : LookForDirect(r) \/ CreateConversation(r)
  \/ \E g \in Groups : CreateGroup(g)
  \/ PassDueDate \/ CronScan \/ ArchiveConversation
  \/ \E m \in Messages, u \in Users, i \in Ids : VerifyParticipant(m, u, i)
  \/ \E m \in Messages : SaveMessage(m) \/ Enqueue(m) \/ QueueRefuses(m)
  \/ TakeJob \/ FinishJob \/ FailJob
  \/ \E u \in Users : SendToUser(u) \/ SendPush(u)
  \/ \E s \in Sockets :
       HandleConnection(s) \/ Break(s) \/ HandleDisconnect(s)
  \/ Crash

Spec == Init /\ [][Next]_vars

-----------------------------------------------------------------------------
(* Two users have one direct conversation (messages.service.ts:23), unless  *)
(* two calls looked for it at once, a call left the type out, which skips   *)
(* the search, or one of the two talks to himself: that conversation fits   *)
(* the search, and the first one found may be it.                           *)
OneDirect ==
  \A i, j \in Directs :
    LET who == conversation[i].who
    IN  (i # j /\ Cardinality(who) = 2 /\ conversation[j].who = who)
          => \/ who \in raced
             \/ "untyped" \in {conversation[i].type, conversation[j].type}
             \/ \E k \in Directs : conversation[k].who \subseteq who
                                   /\ conversation[k].who # who

\* Sockets of u that connected after s.
After(s) ==
  {line[k] : k \in {k \in DOMAIN line :
     Owner[line[k]] = Owner[s] /\ \E j \in 1 .. k - 1 : line[j] = s}}

(* A message whose job is done was shown to every other participant whose   *)
(* socket is open since before it was stored, though his other sockets come *)
(* and go (messages.gateway.ts:46, :59): unless one that connected after  *)
(* it has closed, for with that one the gateway forgets the user.  One who  *)
(* never connected had it on his telephone.                                 *)
Reached ==
  \A m \in Messages :
    message[m].pc = "done" =>
      \A u \in conversation[message[m].in].who \ {message[m].sender} :
        /\ (\E s \in since[m] : /\ Owner[s] = u /\ socket[s] = "open"
                                /\ \A t \in After(s) : socket[t] # "closed")
             => u \in shown[m]
        /\ u \in Phones /\ (\A k \in DOMAIN line : Owner[line[k]] # u)
             => u \in pushed[m]
=============================================================================
