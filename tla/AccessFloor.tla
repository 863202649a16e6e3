------------------------------ MODULE AccessFloor -----------------------------
(* Who may do what on a file, and how soon a connection notices a change:      *)
(* FilesService.getAccess with its two reads, SharesService and the file's     *)
(* general access that it reads, and CollabGateway.hasFloor, which keeps each  *)
(* verdict on the socket for a while.  One file.                               *)
EXTENDS Integers

CONSTANTS Users,      \* users other than the file's owner
          Owner,
          Sockets,    \* connections that stay up
          UserOf,     \* the local user of a connection
          Messages,   \* messages that need a floor
          ShareRoles, \* roles an owner hands out
          Floors,     \* minRole of the messages sent
          TTL,        \* ACCESS_CACHE_TTL_MS, in ticks
          MaxClock    \* bound on the clock

Rank == [NONE |-> 0, VIEWER |-> 1, COMMENTER |-> 2, EDITOR |-> 3, OWNER |-> 4]
Roles == DOMAIN Rank \ {"NONE"}

ASSUME FloorAssumption ==
  /\ Owner \notin Users
  /\ UserOf \in [Sockets -> Users \cup {Owner}]
  /\ ShareRoles \subseteq Roles \ {"OWNER"} /\ Floors \subseteq Roles
  /\ TTL \in Nat \ {0} /\ MaxClock \in Nat

VARIABLES trashed,  \* deletedAt IS NOT NULL
          general,  \* generalAccessRole under ANYONE, NONE under RESTRICTED
          share,    \* the role of a user's Share row, NONE without a row
          clock,    \* Date.now()
          cache,    \* accessCache of a socket: a role and when it expires
          msg,      \* how far the check of a message got
          held,     \* history: when a user last held a grant of a role
          lacked,   \* history: when a user last lacked a share of a role
          open      \* history: when the file was last out of the trash

facts == <<trashed, general, share>>
past  == <<held, lacked, open>>
vars  == <<facts, clock, cache, msg, past>>

(* What getAccess finds of the file: no row when it is in the trash. *)
FileRow == [found |-> ~trashed, general |-> IF trashed THEN "NONE" ELSE general]
NoRow   == [found |-> FALSE, general |-> "NONE"]

NoVerdict == [role |-> "NONE", expires |-> 0]
Unsent    == [pc |-> "unsent", floor |-> "VIEWER", now |-> 0, row |-> NoRow]

Never == -TTL

Init == /\ trashed = FALSE /\ general = "NONE"
        /\ share = [u \in Users |-> "NONE"]
        /\ clock = 0
        /\ cache = [s \in Sockets |-> NoVerdict]
        /\ msg = [s \in Sockets |-> [m \in Messages |-> Unsent]]
        /\ held = [u \in Users |-> [r \in Floors |-> Never]]
        /\ lacked = [u \in Users |-> [r \in Floors |-> 0]]
        /\ open = 0

-------------------------------------------------------------------------------
(* The owner's requests *)

(* SharesService.invite upserts: a second invitation changes the role. *)
Invite(u) ==
  /\ \E r \in ShareRoles : share' = [share EXCEPT ![u] = r]
  /\ UNCHANGED <<trashed, general, clock, cache, msg>>

UpdateRole(u) ==
  /\ share[u] # "NONE"
  /\ \E r \in ShareRoles : share' = [share EXCEPT ![u] = r]
  /\ UNCHANGED <<trashed, general, clock, cache, msg>>

RemoveShare(u) ==
  /\ share[u] # "NONE"
  /\ share' = [share EXCEPT ![u] = "NONE"]
  /\ UNCHANGED <<trashed, general, clock, cache, msg>>

(* updateGeneralAccess: ANYONE with a role, or RESTRICTED, which clears it. *)
UpdateGeneralAccess ==
  /\ general' \in ShareRoles \cup {"NONE"}
  /\ UNCHANGED <<trashed, share, clock, cache, msg>>

(* softDelete and restore. *)
MoveTrash ==
  /\ trashed' = ~trashed
  /\ UNCHANGED <<general, share, clock, cache, msg>>

-------------------------------------------------------------------------------
(* hasFloor *)

Passes(role, floor) == role # "NONE" /\ Rank[role] >= Rank[floor]

Answer(s, m, sent, role) ==
  msg' = [msg EXCEPT ![s][m] =
            [sent EXCEPT !.pc = IF Passes(role, sent.floor) THEN "passed" ELSE "denied"]]

(* A message arrives; now is taken before anything is awaited, and a verdict   *)
(* that has not expired answers at once.                                       *)
Arrive(s, m) ==
  /\ msg[s][m].pc = "unsent"
  /\ \E floor \in Floors :
       LET sent == [pc |-> "file", floor |-> floor, now |-> clock, row |-> NoRow] IN
       IF cache[s].expires > clock
       THEN Answer(s, m, sent, cache[s].role)
       ELSE msg' = [msg EXCEPT ![s][m] = sent]
  /\ UNCHANGED <<facts, clock, cache>>

(* getAccess reads the File row ... *)
ReadFile(s, m) ==
  /\ msg[s][m].pc = "file"
  /\ msg' = [msg EXCEPT ![s][m].pc = "share", ![s][m].row = FileRow]
  /\ UNCHANGED <<facts, clock, cache>>

(* ... and the Share row later, unless the file is gone or the user owns it.   *)
AccessRole(row, u) ==
  IF ~row.found THEN "NONE"
  ELSE IF u = Owner THEN "OWNER"
  ELSE IF share[u] # "NONE" THEN share[u] ELSE row.general

MutReadShare(s, m) ==
  /\ msg[s][m].pc = "share"
  /\ LET role == AccessRole(msg[s][m].row, UserOf[s]) IN
       /\ cache' = [cache EXCEPT ![s] = [role |-> role, expires |-> clock + TTL]]
       /\ Answer(s, m, msg[s][m], role)
  /\ UNCHANGED <<facts, clock>>
ReadShare(s, m) ==
  /\ msg[s][m].pc = "share"
  /\ LET role == AccessRole(msg[s][m].row, UserOf[s]) IN
       /\ cache' = [cache EXCEPT ![s] = [role |-> role, expires |-> msg[s][m].now + TTL]]
       /\ Answer(s, m, msg[s][m], role)
  /\ UNCHANGED <<facts, clock>>

(* getAccess rejects: the message is dropped and nothing is cached. *)
AccessFails(s, m) ==
  /\ msg[s][m].pc \in {"file", "share"}
  /\ msg' = [msg EXCEPT ![s][m].pc = "failed"]
  /\ UNCHANGED <<facts, clock, cache>>
-------------------------------------------------------------------------------

Tick == /\ clock < MaxClock
        /\ clock' = clock + 1
        /\ UNCHANGED <<facts, cache, msg>>

Step == \/ \E u \in Users : Invite(u) \/ UpdateRole(u) \/ RemoveShare(u)
        \/ UpdateGeneralAccess \/ MoveTrash
        \/ \E s \in Sockets, m \in Messages :
             Arrive(s, m) \/ ReadFile(s, m) \/ ReadShare(s, m) \/ AccessFails(s, m)
        \/ Tick

Shares(u, r)  == Passes(share[u], r)
Granted(u, r) == Shares(u, r) \/ Passes(general, r)

(* The history variables: the last moment at which something was the case.     *)
Remember ==
  /\ held' = [u \in Users |-> [r \in Floors |->
                 IF Granted(u, r)' THEN clock' ELSE held[u][r]]]
  /\ lacked' = [u \in Users |-> [r \in Floors |->
                   IF Shares(u, r)' /\ ~trashed' THEN lacked[u][r] ELSE clock']]
  /\ open' = IF trashed' THEN open ELSE clock'

Next == Step /\ Remember

Spec == Init /\ [][Next]_vars

-------------------------------------------------------------------------------
(* Properties *)

Times    == 0..MaxClock
Verdicts == [role : Roles \cup {"NONE"}, expires : 0..(MaxClock + TTL)]

(* The types, and: a verdict is kept for no longer than the time it is good    *)
(* for, counted from before it was read.                                       *)
TypeOK ==
  /\ trashed \in BOOLEAN /\ general \in ShareRoles \cup {"NONE"}
  /\ share \in [Users -> ShareRoles \cup {"NONE"}]
  /\ clock \in Times
  /\ cache \in [Sockets -> Verdicts]
  /\ msg \in [Sockets -> [Messages ->
       [pc : {"unsent", "file", "share", "passed", "denied", "failed"}, floor : Roles,
        now : Times, row : [found : BOOLEAN, general : ShareRoles \cup {"NONE"}]]]]
  /\ held \in [Users -> [Floors -> Times \cup {Never}]]
  /\ lacked \in [Users -> [Floors -> Times]]
  /\ open \in Times
  /\ \A s \in Sockets : cache[s] # NoVerdict =>
       \E m \in Messages : cache[s].expires = msg[s][m].now + TTL

Becomes(s, m, pc) == msg[s][m].pc # pc /\ msg'[s][m].pc = pc

(* A revocation is noticed within the TTL: whatever slow reads and overlapping *)
(* checks fill the cache, a message passes only if, less than TTL before it    *)
(* arrived or since, the file was out of the trash and some grant of the floor *)
(* was in force.                                                               *)
RevokedWithinTTL ==
  [][\A s \in Sockets, m \in Messages :
       Becomes(s, m, "passed") =>
         /\ open > msg'[s][m].now - TTL
         /\ UserOf[s] # Owner => held[UserOf[s]][msg'[s][m].floor] > msg'[s][m].now - TTL]_vars

(* A grant is noticed within the TTL: a message is denied only if, less than   *)
(* TTL before it arrived or since, the file was in the trash or the user had   *)
(* no share of the floor.                                                      *)
GrantedWithinTTL ==
  [][\A s \in Sockets, m \in Messages :
       Becomes(s, m, "denied") /\ UserOf[s] # Owner =>
         lacked[UserOf[s]][msg'[s][m].floor] > msg'[s][m].now - TTL]_vars
===============================================================================
