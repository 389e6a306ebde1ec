------------------------------ MODULE Sessions ------------------------------
(***************************************************************************)
(* Refresh tokens in Redis: login, rotation with its grace period, logout.  *)
(*                                                                         *)
(* A token's key holds "1" while it may be used, then for a minute the      *)
(* tokens that replaced it, so that a second tab is answered with the same. *)
(* A refresh finds the key, reads it, reads the user, stores the new token  *)
(* and rewrites the old key, in five steps.  parent, overlapped and ended   *)
(* are history: the token each came from, the tokens whose key changed      *)
(* under a refresh, and those logged out.                                   *)
(***************************************************************************)
EXTENDS Integers, FiniteSets

CONSTANTS
  Calls,       \* requests; a login or refresh names the token it issues
  Passwords, First, Default,  \* Default: what a reset without one sets
  Nothing

ASSUME SessionsAssumption ==
  /\ First \in Passwords /\ Default \in Passwords
  /\ Nothing \notin Calls \cup Passwords \cup {"1"} /\ "1" \notin Calls

Tokens == Calls

VARIABLES
  store,      \* Redis, one user's keys: "1", the token that replaced it, or Nothing
  password,   \* users.password
  request,    \* a request: where it stands, its token, what it answered
  parent, overlapped, ended

sessions == <<store, password, request, parent, overlapped, ended>>

Idle(pc) == [pc |-> pc, token |-> Nothing, answer |-> Nothing, new |-> Nothing]

SessionsInit ==
  /\ store = [t \in Tokens |-> Nothing] /\ password = First
  /\ request = [c \in Calls |-> Idle("new")]
  /\ parent = [t \in Tokens |-> Nothing] /\ overlapped = {} /\ ended = {}

Answer(c, t) == [Idle("done") EXCEPT !.answer = t]

\* Refreshes that have found the key of t and not yet rewritten it.
Refreshing(t) ==
  {c \in Calls : request[c].token = t
                 /\ request[c].pc \in {"found", "live", "known", "issued"}}

-----------------------------------------------------------------------------
(* Login and passwords                                                     *)

CheckPassword(c, p) ==
  /\ request[c].pc = "new" /\ p = password
  /\ request' = [request EXCEPT ![c].pc = "authentic"]
  /\ UNCHANGED <<store, password, parent, overlapped, ended>>

\* A token that may be used for a week.
IssueTokens(c, from) ==
  /\ store' = [store EXCEPT ![c] = "1"]
  /\ parent' = [parent EXCEPT ![c] = from]

Login(c) ==
  /\ request[c].pc = "authentic" /\ IssueTokens(c, Nothing)
  /\ request' = [request EXCEPT ![c] = Answer(c, c)]
  /\ UNCHANGED <<password, overlapped, ended>>

CheckOldPassword(c, old, p) ==
  /\ request[c].pc = "new" /\ old = password
  /\ request' = [request EXCEPT ![c].pc = "changing", ![c].new = p]
  /\ UNCHANGED <<store, password, parent, overlapped, ended>>

\* No token ends with it.
ChangePassword(c) ==
  /\ request[c].pc = "changing"
  /\ password' = request[c].new /\ request' = [request EXCEPT ![c] = Idle("done")]
  /\ UNCHANGED <<store, parent, overlapped, ended>>

ResetPassword(c) ==
  /\ request[c].pc = "new"
  /\ password' = Default /\ request' = [request EXCEPT ![c] = Idle("done")]
  /\ UNCHANGED <<store, parent, overlapped, ended>>

-----------------------------------------------------------------------------
(* Refresh                                                                 *)

FindKey(c, t) ==
  /\ request[c].pc = "new" /\ store[t] # Nothing
  /\ request' = [request EXCEPT ![c].pc = "found", ![c].token = t]
  /\ overlapped' = IF Refreshing(t) = {} THEN overlapped ELSE overlapped \cup {t}
  /\ UNCHANGED <<store, password, parent, ended>>

\* Defect: the tokens kept for the grace period are not given out.
ReadValue_Rotate(c) ==
  /\ request[c].pc = "found"
  /\ request' = [request EXCEPT ![c].pc = "live"]
  /\ UNCHANGED <<store, password, parent, overlapped, ended>>

\* Within the grace period: the tokens that replaced it.  A key that went
\* since it was found is taken to be alive.
ReadValue(c) ==
  /\ request[c].pc = "found"
  /\ LET t == request[c].token
     IN  request' = IF store[t] \in Tokens
                    THEN [request EXCEPT ![c] = Answer(c, store[t])]
                    ELSE [request EXCEPT ![c].pc = "live"]
  /\ UNCHANGED <<store, password, parent, overlapped, ended>>

ReadUser(c) ==
  /\ request[c].pc = "live"
  /\ request' = [request EXCEPT ![c].pc = "known"]
  /\ UNCHANGED <<store, password, parent, overlapped, ended>>

IssueSuccessor(c) ==
  /\ request[c].pc = "known" /\ IssueTokens(c, request[c].token)
  /\ request' = [request EXCEPT ![c].pc = "issued"]
  /\ UNCHANGED <<password, overlapped, ended>>

\* The old key for another minute, whether or not it is still there.
StartGracePeriod(c) ==
  /\ request[c].pc = "issued"
  /\ store' = [store EXCEPT ![request[c].token] = c]
  /\ request' = [request EXCEPT ![c] = Answer(c, c)]
  /\ UNCHANGED <<password, parent, overlapped, ended>>

-----------------------------------------------------------------------------
(* The ends of a token                                                     *)

\* Defect: a token is put into its grace period instead of being deleted.
Deleted_Kept(t) == [store EXCEPT ![t] = IF @ = "1" THEN t ELSE @]

Deleted(t) == [store EXCEPT ![t] = Nothing]

\* A client logs out with a token it was given; only that key goes.
Logout(c, t) ==
  /\ request[c].pc = "new" /\ \E d \in Calls : request[d].answer = t
  /\ store' = Deleted(t)
  /\ ended' = ended \cup {t}
  /\ overlapped' = IF Refreshing(t) = {} THEN overlapped ELSE overlapped \cup {t}
  /\ request' = [request EXCEPT ![c] = Idle("done")]
  /\ UNCHANGED <<password, parent>>

\* A week, or the minute of grace, is over.
Expire(t) ==
  /\ store[t] # Nothing
  /\ store' = [store EXCEPT ![t] = Nothing]
  /\ overlapped' = IF Refreshing(t) = {} THEN overlapped ELSE overlapped \cup {t}
  /\ UNCHANGED <<password, request, parent, ended>>

\* The process dies, and the client is left with the token it had.
Abandon(c) ==
  /\ request[c].pc \notin {"new", "done"}
  /\ request' = [request EXCEPT ![c] = Idle("done")]
  /\ overlapped' = IF request[c].pc = "issued"
                   THEN overlapped \cup {request[c].token} ELSE overlapped
  /\ UNCHANGED <<store, password, parent, ended>>

SessionsNext ==
  \/ \E c \in Calls, p \in Passwords :
       \/ CheckPassword(c, p)
       \/ \E old \in Passwords : CheckOldPassword(c, old, p)
  \/ \E c \in Calls, t \in Tokens : FindKey(c, t) \/ Logout(c, t)
  \/ \E c \in Calls :
       \/ Login(c) \/ ChangePassword(c) \/ ResetPassword(c)
       \/ ReadValue(c) \/ ReadUser(c) \/ IssueSuccessor(c) \/ StartGracePeriod(c)
       \/ Abandon(c)
  \/ \E t \in Tokens : Expire(t)

SessionsSpec == SessionsInit /\ [][SessionsNext]_sessions

-----------------------------------------------------------------------------
(* However many tabs refresh a token, it is replaced by one token, which    *)
(* all of them are given (auth.service.ts:63, :78): unless two were at it   *)
(* before the first had rewritten the key, the key went while one was, or   *)
(* one died between its two writes.                                         *)
OneSuccessor ==
  \A t \in Tokens \ overlapped :
    /\ \A n, m \in Tokens : parent[n] = t /\ parent[m] = t => n = m
    /\ store[t] \in Tokens => parent[store[t]] = t

(* A token logged out stays dead, and when it had not been replaced no      *)
(* token comes of it afterwards (auth.service.ts:87): unless a refresh of   *)
(* it was under way, which stores its own token and the old key again.      *)
LoggedOutForGood ==
  [][\A t \in ended \ overlapped' :
       /\ store'[t] = Nothing
       /\ \A n \in Tokens : parent'[n] = t => parent[n] = t]_sessions
=============================================================================
