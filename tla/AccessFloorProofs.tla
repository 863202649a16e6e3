--------------------------- MODULE AccessFloorProofs --------------------------
(* What AccessFloor guarantees for any number of users, connections and        *)
(* messages, any roles and any lifetime of the cache.                          *)
EXTENDS AccessFloor, TLAPS

OwnerStep == \/ \E u \in Users : Invite(u) \/ UpdateRole(u) \/ RemoveShare(u)
             \/ UpdateGeneralAccess \/ MoveTrash

LEMMA StepCases ==
  Step <=> \/ OwnerStep
           \/ \E s \in Sockets, m \in Messages :
                Arrive(s, m) \/ ReadFile(s, m) \/ ReadShare(s, m) \/ AccessFails(s, m)
           \/ Tick
  BY DEF Step, OwnerStep

-------------------------------------------------------------------------------
(* Types *)

FactsOK == /\ trashed \in BOOLEAN /\ general \in ShareRoles \cup {"NONE"}
           /\ share \in [Users -> ShareRoles \cup {"NONE"}]
           /\ clock \in 0..MaxClock

Checks == [pc : {"unsent", "file", "share", "passed", "denied", "failed"}, floor : Roles,
           now : 0..MaxClock, row : [found : BOOLEAN, general : ShareRoles \cup {"NONE"}]]

ChecksOK == /\ cache \in [Sockets -> Verdicts]
            /\ msg \in [Sockets -> [Messages -> Checks]]
            /\ \A s \in Sockets : cache[s] # NoVerdict =>
                 \E m \in Messages : /\ cache[s].expires = msg[s][m].now + TTL
                                     /\ msg[s][m].pc \notin {"unsent", "file", "share"}

FloorsOK == \A s \in Sockets, m \in Messages : msg[s][m].pc # "unsent" => msg[s][m].floor \in Floors

PastOK == /\ held \in [Users -> [Floors -> 0..MaxClock \cup {Never}]]
          /\ lacked \in [Users -> [Floors -> 0..MaxClock]]
          /\ open \in 0..MaxClock

TypeInv == FactsOK /\ ChecksOK /\ FloorsOK /\ PastOK

LEMMA RolesAre == Roles = {"VIEWER", "COMMENTER", "EDITOR", "OWNER"}
  BY DEF Roles, Rank

LEMMA TypeInit == Init => TypeInv
  <1> SUFFICES ASSUME Init
               PROVE  TypeInv
    OBVIOUS
  <1>0. 0 \in 0..MaxClock
    BY FloorAssumption
  <1>1. FactsOK /\ PastOK
    BY <1>0 DEF Init, FactsOK, PastOK
  <1>2. Unsent \in Checks /\ NoVerdict \in Verdicts
    BY FloorAssumption, RolesAre DEF Unsent, Checks, NoRow, NoVerdict, Verdicts
  <1> QED
    BY <1>1, <1>2 DEF Init, TypeInv, ChecksOK, FloorsOK, Unsent

LEMMA FactsStep ==
  ASSUME TypeInv, Step
  PROVE  FactsOK' /\ clock' >= clock
  <1>1. CASE OwnerStep
    <2>1. UNCHANGED clock /\ clock \in Int
      BY <1>1, FloorAssumption DEF OwnerStep, Invite, UpdateRole, RemoveShare,
         UpdateGeneralAccess, MoveTrash, TypeInv, FactsOK
    <2>2. share' \in [Users -> ShareRoles \cup {"NONE"}]
      BY <1>1 DEF OwnerStep, Invite, UpdateRole, RemoveShare, UpdateGeneralAccess, MoveTrash,
                  TypeInv, FactsOK
    <2>3. trashed' \in BOOLEAN /\ general' \in ShareRoles \cup {"NONE"}
      BY <1>1 DEF OwnerStep, Invite, UpdateRole, RemoveShare, UpdateGeneralAccess, MoveTrash,
                  TypeInv, FactsOK
    <2> QED
      BY <2>1, <2>2, <2>3 DEF TypeInv, FactsOK
  <1>2. CASE Tick
    BY <1>2, FloorAssumption DEF Tick, facts, TypeInv, FactsOK
  <1>3. ASSUME NEW s \in Sockets, NEW m \in Messages,
               Arrive(s, m) \/ ReadFile(s, m) \/ ReadShare(s, m) \/ AccessFails(s, m)
        PROVE  FactsOK' /\ clock' >= clock
    BY <1>3, FloorAssumption
    DEF Arrive, ReadFile, ReadShare, AccessFails, facts, TypeInv, FactsOK
  <1> QED
    BY <1>1, <1>2, <1>3, StepCases

LEMMA PastStep ==
  ASSUME TypeInv, FactsOK', Remember
  PROVE  PastOK'
  BY DEF Remember, TypeInv, PastOK, FactsOK

(* What the four steps of a check do to the check, and nothing to the others.  *)
Moves(s, m, new) ==
  /\ msg' = [msg EXCEPT ![s][m] = new]
  /\ new \in Checks
  /\ msg[s][m].pc \in {"unsent", "file", "share"} /\ new.pc # "unsent"
  /\ new.floor \in Floors
  /\ new.now = IF msg[s][m].pc = "unsent" THEN clock ELSE msg[s][m].now

LEMMA CheckMoves ==
  ASSUME TypeInv, NEW s \in Sockets, NEW m \in Messages,
         Arrive(s, m) \/ ReadFile(s, m) \/ ReadShare(s, m) \/ AccessFails(s, m)
  PROVE  Moves(s, m, msg'[s][m])
  <1> DEFINE was == msg[s][m]
  <1>t. /\ msg \in [Sockets -> [Messages -> Checks]] /\ was \in Checks
        /\ clock \in 0..MaxClock /\ FileRow \in [found : BOOLEAN, general : ShareRoles \cup {"NONE"}]
        /\ was.pc # "unsent" => was.floor \in Floors
    BY DEF TypeInv, FactsOK, ChecksOK, FloorsOK, FileRow
  <1>n. ASSUME NEW new, Moves(s, m, new)
        PROVE  Moves(s, m, msg'[s][m])
    <2>1. msg'[s][m] = new
      BY <1>t, <1>n DEF Moves
    <2> QED
      BY <1>n, <2>1
  <1> SUFFICES \E new : Moves(s, m, new)
    BY <1>n
  <1>1. CASE Arrive(s, m)
    <2>1. PICK floor \in Floors :
            LET sent == [pc |-> "file", floor |-> floor, now |-> clock, row |-> NoRow] IN
            IF cache[s].expires > clock
            THEN Answer(s, m, sent, cache[s].role)
            ELSE msg' = [msg EXCEPT ![s][m] = sent]
      BY <1>1 DEF Arrive
    <2> DEFINE arrived(pc) == [pc |-> pc, floor |-> floor, now |-> clock, row |-> NoRow]
    <2>2. PICK pc \in {"file", "passed", "denied"} : msg' = [msg EXCEPT ![s][m] = arrived(pc)]
      BY <2>1 DEF Answer
    <2>3. /\ arrived(pc) \in Checks /\ arrived(pc).floor \in Floors
          /\ arrived(pc).pc # "unsent" /\ arrived(pc).now = clock
      BY <1>t, FloorAssumption DEF Checks, NoRow
    <2>4. was.pc = "unsent"
      BY <1>1 DEF Arrive
    <2> HIDE DEF arrived
    <2> QED
      BY <2>2, <2>3, <2>4 DEF Moves
  <1>2. CASE ReadFile(s, m)
    <2> DEFINE new == [was EXCEPT !.pc = "share", !.row = FileRow]
    <2>1. msg' = [msg EXCEPT ![s][m] = new] /\ was.pc = "file"
      BY <1>2, <1>t DEF ReadFile
    <2>2. new \in Checks /\ new.pc = "share" /\ new.floor = was.floor /\ new.now = was.now
      BY <1>t DEF Checks
    <2> HIDE DEF new
    <2> QED
      BY <1>t, <2>1, <2>2 DEF Moves
  <1>3. CASE ReadShare(s, m) \/ AccessFails(s, m)
    <2> DEFINE new(pc) == [was EXCEPT !.pc = pc]
    <2>1. PICK pc \in {"passed", "denied", "failed"} : msg' = [msg EXCEPT ![s][m] = new(pc)]
      BY <1>3, <1>t DEF ReadShare, AccessFails, Answer
    <2>2. /\ new(pc) \in Checks /\ new(pc).pc # "unsent"
          /\ new(pc).floor = was.floor /\ new(pc).now = was.now
      BY <1>t DEF Checks
    <2>3. was.pc \in {"file", "share"}
      BY <1>3 DEF ReadShare, AccessFails
    <2> HIDE DEF new
    <2> QED
      BY <1>t, <2>1, <2>2, <2>3 DEF Moves
  <1> QED
    BY <1>1, <1>2, <1>3

(* The role getAccess comes to is a role. *)
LEMMA RoleType ==
  ASSUME TypeInv, NEW s \in Sockets, NEW m \in Messages
  PROVE  AccessRole(msg[s][m].row, UserOf[s]) \in Roles \cup {"NONE"}
  <1>1. /\ msg[s][m].row.general \in ShareRoles \cup {"NONE"}
        /\ UserOf[s] # Owner => share[UserOf[s]] \in ShareRoles \cup {"NONE"}
        /\ ShareRoles \subseteq Roles
    BY FloorAssumption DEF TypeInv, FactsOK, ChecksOK, Checks
  <1> QED
    BY <1>1, RolesAre DEF AccessRole

LEMMA ChecksStep ==
  ASSUME TypeInv, Step
  PROVE  ChecksOK' /\ FloorsOK'
  <1>t. /\ msg \in [Sockets -> [Messages -> Checks]] /\ cache \in [Sockets -> Verdicts]
        /\ \A s \in Sockets : cache[s] # NoVerdict =>
             \E m \in Messages : /\ cache[s].expires = msg[s][m].now + TTL
                                 /\ msg[s][m].pc \notin {"unsent", "file", "share"}
        /\ FloorsOK
    BY DEF TypeInv, ChecksOK
  <1>1. CASE OwnerStep \/ Tick
    <2>1. UNCHANGED <<cache, msg>>
      BY <1>1 DEF OwnerStep, Invite, UpdateRole, RemoveShare, UpdateGeneralAccess, MoveTrash,
                  Tick
    <2> QED
      BY <1>t, <2>1 DEF ChecksOK, FloorsOK
  <1>2. ASSUME NEW s \in Sockets, NEW m \in Messages,
               Arrive(s, m) \/ ReadFile(s, m) \/ ReadShare(s, m) \/ AccessFails(s, m)
        PROVE  ChecksOK' /\ FloorsOK'
    <2> DEFINE new == msg'[s][m]
    <2>m. /\ msg' = [msg EXCEPT ![s][m] = new] /\ new \in Checks /\ new.floor \in Floors
          /\ msg[s][m].pc \in {"unsent", "file", "share"}
      BY <1>2, CheckMoves DEF Moves
    <2> HIDE DEF new
    <2>1. msg' \in [Sockets -> [Messages -> Checks]]
      BY <1>t, <2>m
    <2>2. FloorsOK'
      BY <1>t, <2>m DEF FloorsOK
    <2>3. \A q \in Sockets, i \in Messages :
            msg[q][i].pc \notin {"unsent", "file", "share"} => msg'[q][i] = msg[q][i]
      BY <1>t, <2>m
    <2>4. CASE UNCHANGED cache
      BY <1>t, <2>1, <2>2, <2>3, <2>4 DEF ChecksOK
    <2>5. CASE ReadShare(s, m)
      <3> DEFINE role == AccessRole(msg[s][m].row, UserOf[s])
                 verdict == [role |-> role, expires |-> msg[s][m].now + TTL]
      <3>1. cache' = [cache EXCEPT ![s] = verdict]
        BY <2>5 DEF ReadShare
      <3>2. verdict \in Verdicts
        <4>1. msg[s][m].now + TTL \in 0..(MaxClock + TTL)
          BY <1>t, FloorAssumption DEF Checks
        <4> QED
          BY <4>1, RoleType DEF Verdicts
      <3>3. msg'[s][m].now = msg[s][m].now /\ msg'[s][m].pc \in {"passed", "denied"}
        BY <1>t, <2>5 DEF ReadShare, Answer, Checks
      <3>4. cache'[s].expires = msg'[s][m].now + TTL
        BY <1>t, <3>1, <3>3
      <3> HIDE DEF verdict
      <3>5. cache' \in [Sockets -> Verdicts] /\ \A q \in Sockets \ {s} : cache'[q] = cache[q]
        BY <1>t, <3>1, <3>2
      <3> QED
        BY <1>t, <2>1, <2>2, <2>3, <3>3, <3>4, <3>5 DEF ChecksOK
    <2> QED
      BY <1>2, <2>4, <2>5 DEF Arrive, ReadFile, AccessFails
  <1> QED
    BY <1>1, <1>2, StepCases

LEMMA TypeStep == TypeInv /\ [Next]_vars => TypeInv'
  <1>1. TypeInv /\ Next => TypeInv'
    BY FactsStep, ChecksStep, PastStep DEF Next, TypeInv
  <1>2. TypeInv /\ UNCHANGED vars => TypeInv'
    BY DEF vars, facts, past, TypeInv, FactsOK, ChecksOK, FloorsOK, PastOK
  <1> QED
    BY <1>1, <1>2

(* Every reachable state is well typed, and no verdict is good for longer than *)
(* the cache's lifetime from the arrival of the message it was read for.       *)
THEOREM TypeCorrect == Spec => []TypeOK
  <1>1. TypeInv => TypeOK
    BY DEF TypeInv, TypeOK, FactsOK, ChecksOK, PastOK, Times, Checks
  <1> QED
    BY <1>1, TypeInit, TypeStep, PTL DEF Spec

-------------------------------------------------------------------------------
(* The history variables: what is the case now was last the case now, and no   *)
(* memory is lost as the clock moves on.                                       *)

PastInv ==
  /\ open <= clock /\ (~trashed => open = clock)
  /\ \A u \in Users, r \in Floors :
       /\ held[u][r] <= clock /\ (Granted(u, r) => held[u][r] = clock)
       /\ lacked[u][r] <= clock /\ (~Shares(u, r) \/ trashed => lacked[u][r] = clock)

LEMMA PastMoves ==
  ASSUME TypeInv, PastInv, Next
  PROVE  /\ PastInv'
         /\ open' >= open
         /\ \A u \in Users, r \in Floors :
              held'[u][r] >= held[u][r] /\ lacked'[u][r] >= lacked[u][r]
  <1>1. FactsOK' /\ clock' >= clock /\ Remember
    BY FactsStep DEF Next
  <1>2. clock \in Int /\ clock' \in Int /\ open \in Int
    BY <1>1, FloorAssumption DEF TypeInv, FactsOK, PastOK
  <1>3. open' >= open /\ open' <= clock' /\ (~trashed' => open' = clock')
    BY <1>1, <1>2 DEF Remember, PastInv, FactsOK
  <1>4. ASSUME NEW u \in Users, NEW r \in Floors
        PROVE  /\ held'[u][r] >= held[u][r] /\ held'[u][r] <= clock'
               /\ Granted(u, r)' => held'[u][r] = clock'
    <2>1. held[u][r] \in Int /\ held[u][r] <= clock
      BY FloorAssumption DEF TypeInv, PastOK, PastInv, Never
    <2>2. held'[u][r] = IF Granted(u, r)' THEN clock' ELSE held[u][r]
      BY <1>1 DEF Remember
    <2> QED
      BY <1>1, <1>2, <2>1, <2>2
  <1>5. ASSUME NEW u \in Users, NEW r \in Floors
        PROVE  /\ lacked'[u][r] >= lacked[u][r] /\ lacked'[u][r] <= clock'
               /\ ~Shares(u, r)' \/ trashed' => lacked'[u][r] = clock'
    <2>1. lacked[u][r] \in Int /\ lacked[u][r] <= clock
      BY FloorAssumption DEF TypeInv, PastOK, PastInv
    <2>2. lacked'[u][r] = IF Shares(u, r)' /\ ~trashed' THEN lacked[u][r] ELSE clock'
      BY <1>1 DEF Remember
    <2> QED
      BY <1>1, <1>2, <2>1, <2>2
  <1> QED
    BY <1>3, <1>4, <1>5 DEF PastInv

-------------------------------------------------------------------------------
(* What a role read at some moment says of the past, for a user other than the *)
(* owner: a floor it passes was granted then or since, and a floor it does not *)
(* pass was lacking then or since.                                             *)

GrantedSince(u, role, t) == \A r \in Floors : Passes(role, r) => held[u][r] >= t
LackedSince(u, role, t)  == \A r \in Floors : ~Passes(role, r) => lacked[u][r] >= t

(* The first read of a check is as fresh as its arrival, and no role is what a *)
(* file in the trash gives.                                                    *)
ReadInv(s, m) ==
  LET c == msg[s][m] IN
  /\ c.pc \in {"file", "share"} => c.now <= clock
  /\ c.pc = "share" =>
       /\ c.row.found => open >= c.now
       /\ \A u \in Users : /\ GrantedSince(u, c.row.general, c.now)
                           /\ ~c.row.found => /\ c.row.general = "NONE"
                                              /\ \A r \in Floors : lacked[u][r] >= c.now

(* A verdict is as fresh as the arrival of the check that read it. *)
VerdictInv(s) ==
  LET since == cache[s].expires - TTL IN
  /\ cache[s].role # "NONE" => open >= since
  /\ UserOf[s] \in Users => /\ GrantedSince(UserOf[s], cache[s].role, since)
                            /\ LackedSince(UserOf[s], cache[s].role, since)

FreshInv == /\ \A s \in Sockets, m \in Messages : ReadInv(s, m)
            /\ \A s \in Sockets : VerdictInv(s)

Inv == TypeInv /\ PastInv /\ FreshInv

LEMMA NothingPasses == \A r : ~Passes("NONE", r)
  BY DEF Passes

(* What the second read comes to is as fresh as the arrival. *)
LEMMA RoleIsFresh ==
  ASSUME Inv, NEW s \in Sockets, NEW m \in Messages, msg[s][m].pc = "share"
  PROVE  LET role == AccessRole(msg[s][m].row, UserOf[s])
             now  == msg[s][m].now IN
         /\ role # "NONE" => open >= now
         /\ UserOf[s] \in Users => /\ GrantedSince(UserOf[s], role, now)
                                   /\ LackedSince(UserOf[s], role, now)
  <1> DEFINE row == msg[s][m].row
             now == msg[s][m].now
             role == AccessRole(row, UserOf[s])
  <1>1. /\ now <= clock /\ (row.found => open >= now)
        /\ \A u \in Users : /\ GrantedSince(u, row.general, now)
                            /\ ~row.found => /\ row.general = "NONE"
                                             /\ \A r \in Floors : lacked[u][r] >= now
    BY DEF Inv, FreshInv, ReadInv
  <1>2. role # "NONE" => row.found
    BY DEF AccessRole
  <1>3. ASSUME UserOf[s] \in Users
        PROVE  GrantedSince(UserOf[s], role, now) /\ LackedSince(UserOf[s], role, now)
    <2> DEFINE u == UserOf[s]
    <2>1. u # Owner
      BY <1>3, FloorAssumption
    <2>2. CASE ~row.found
      <3>1. role = "NONE"
        BY <2>2 DEF AccessRole
      <3> QED
        BY <1>1, <1>3, <2>2, <3>1, NothingPasses DEF GrantedSince, LackedSince
    <2>3. CASE row.found /\ share[u] # "NONE"
      <3>1. role = share[u]
        BY <2>1, <2>3 DEF AccessRole
      <3>2. \A r \in Floors : IF Passes(share[u], r) THEN held[u][r] = clock
                                                     ELSE lacked[u][r] = clock
        BY <1>3 DEF Inv, PastInv, Granted, Shares
      <3> QED
        BY <1>1, <3>1, <3>2 DEF GrantedSince, LackedSince
    <2>4. CASE row.found /\ share[u] = "NONE"
      <3>1. role = row.general
        BY <2>1, <2>4 DEF AccessRole
      <3>2. \A r \in Floors : lacked[u][r] = clock
        BY <1>3, <2>4, NothingPasses DEF Inv, PastInv, Shares
      <3> QED
        BY <1>1, <1>3, <3>1, <3>2 DEF GrantedSince, LackedSince
    <2> QED
      BY <2>2, <2>3, <2>4
  <1> QED
    BY <1>1, <1>2, <1>3

(* The facts that the steps below keep coming back to. *)
LEMMA Passing ==
  ASSUME Inv, Next
  PROVE  /\ open \in Int /\ open' \in Int /\ open' >= open
         /\ clock \in Int /\ clock' \in Int /\ clock' >= clock
         /\ \A u \in Users, r \in Floors :
              /\ held[u][r] \in Int /\ held'[u][r] \in Int /\ held'[u][r] >= held[u][r]
              /\ lacked[u][r] \in Int /\ lacked'[u][r] \in Int /\ lacked'[u][r] >= lacked[u][r]
         /\ \A s \in Sockets, m \in Messages : msg[s][m].now \in Int
         /\ \A s \in Sockets : cache[s].expires - TTL \in Int
  <1>1. TypeInv /\ TypeInv'
    BY TypeStep DEF Inv
  <1>2. PastInv' /\ open' >= open /\ \A u \in Users, r \in Floors :
          held'[u][r] >= held[u][r] /\ lacked'[u][r] >= lacked[u][r]
    BY PastMoves DEF Inv
  <1>3. clock' >= clock
    BY FactsStep DEF Inv, Next
  <1>4. open \in Int /\ open' \in Int /\ clock \in Int /\ clock' \in Int
    BY <1>1, FloorAssumption DEF TypeInv, FactsOK, PastOK
  <1>5. ASSUME NEW u \in Users, NEW r \in Floors
        PROVE  /\ held[u][r] \in Int /\ held'[u][r] \in Int
               /\ lacked[u][r] \in Int /\ lacked'[u][r] \in Int
    <2>1. /\ held[u][r] \in 0..MaxClock \cup {Never} /\ held'[u][r] \in 0..MaxClock \cup {Never}
          /\ lacked[u][r] \in 0..MaxClock /\ lacked'[u][r] \in 0..MaxClock
      BY <1>1 DEF TypeInv, PastOK
    <2> QED
      BY <2>1, FloorAssumption DEF Never
  <1>6. \A s \in Sockets, m \in Messages : msg[s][m].now \in Int
    BY <1>1 DEF TypeInv, ChecksOK, Checks
  <1>7. \A s \in Sockets : cache[s].expires - TTL \in Int
    BY <1>1, FloorAssumption DEF TypeInv, ChecksOK, Verdicts
  <1> QED
    BY <1>2, <1>3, <1>4, <1>5, <1>6, <1>7

(* A check that does not move, and a verdict that is not replaced, stay as     *)
(* fresh as they were.                                                         *)
LEMMA ReadKept ==
  ASSUME Inv, Next, NEW s \in Sockets, NEW m \in Messages, msg'[s][m] = msg[s][m]
  PROVE  ReadInv(s, m)'
  <1>1. ReadInv(s, m)
    BY DEF Inv, FreshInv
  <1>2. ASSUME msg[s][m].pc \in {"file", "share"}
        PROVE  msg[s][m].now <= clock'
    BY <1>1, <1>2, Passing DEF ReadInv
  <1>3. ASSUME msg[s][m].pc = "share", msg[s][m].row.found
        PROVE  open' >= msg[s][m].now
    BY <1>1, <1>3, Passing DEF ReadInv
  <1>4. ASSUME msg[s][m].pc = "share", NEW u \in Users
        PROVE  /\ GrantedSince(u, msg[s][m].row.general, msg[s][m].now)'
               /\ ~msg[s][m].row.found => /\ msg[s][m].row.general = "NONE"
                                          /\ \A r \in Floors : lacked'[u][r] >= msg[s][m].now
    BY <1>1, <1>4, Passing DEF ReadInv, GrantedSince
  <1> QED
    BY <1>2, <1>3, <1>4 DEF ReadInv, GrantedSince

LEMMA VerdictKept ==
  ASSUME Inv, Next, NEW s \in Sockets, cache'[s] = cache[s]
  PROVE  VerdictInv(s)'
  <1>1. VerdictInv(s)
    BY DEF Inv, FreshInv
  <1>2. cache[s].role # "NONE" => open' >= cache[s].expires - TTL
    BY <1>1, Passing DEF VerdictInv
  <1>3. ASSUME UserOf[s] \in Users, NEW r \in Floors
        PROVE  IF Passes(cache[s].role, r) THEN held'[UserOf[s]][r] >= cache[s].expires - TTL
                                           ELSE lacked'[UserOf[s]][r] >= cache[s].expires - TTL
    BY <1>1, <1>3, Passing DEF VerdictInv, GrantedSince, LackedSince
  <1> QED
    BY <1>2, <1>3 DEF VerdictInv, GrantedSince, LackedSince

(* The check that moves: only ReadFile leaves it with a row. *)
LEMMA ReadMoved ==
  ASSUME Inv, Next, NEW s \in Sockets, NEW m \in Messages,
         Arrive(s, m) \/ ReadFile(s, m) \/ ReadShare(s, m) \/ AccessFails(s, m)
  PROVE  ReadInv(s, m)'
  <1>t. msg \in [Sockets -> [Messages -> Checks]] /\ msg[s][m] \in Checks
    BY DEF Inv, TypeInv, ChecksOK
  <1>c. UNCHANGED <<facts, clock>>
    BY DEF Arrive, ReadFile, ReadShare, AccessFails
  <1>1. CASE Arrive(s, m)
    <2>1. msg'[s][m].pc \in {"file", "passed", "denied"} /\ msg'[s][m].now = clock
      BY <1>1, <1>t DEF Arrive, Answer
    <2> QED
      BY <1>c, <2>1, Passing DEF ReadInv
  <1>2. CASE ReadFile(s, m)
    <2>1. /\ msg[s][m].pc = "file" /\ msg'[s][m].pc = "share"
          /\ msg'[s][m].row = FileRow /\ msg'[s][m].now = msg[s][m].now
      BY <1>2, <1>t DEF ReadFile, Checks
    <2> DEFINE now == msg[s][m].now
    <2>2. now <= clock
      BY <2>1 DEF Inv, FreshInv, ReadInv
    <2>3. FileRow.found => open' >= now
      <3>1. FileRow.found => open = clock
        BY DEF FileRow, Inv, TypeInv, FactsOK, PastInv
      <3> HIDE DEF now
      <3> QED
        BY <2>2, <3>1, Passing DEF now
    <2>4. ASSUME NEW u \in Users
          PROVE  GrantedSince(u, FileRow.general, now)'
      <3>1. ASSUME NEW r \in Floors, Passes(FileRow.general, r)
            PROVE  held'[u][r] >= now
        <4>1. held[u][r] = clock
          BY <3>1, NothingPasses DEF FileRow, Inv, PastInv, Granted
        <4> QED
          BY <2>2, <4>1, Passing
      <3> QED
        BY <1>c, <2>1, <3>1 DEF GrantedSince, FileRow, facts
    <2>5. ASSUME NEW u \in Users, NEW r \in Floors, ~FileRow.found
          PROVE  FileRow.general = "NONE" /\ lacked'[u][r] >= now
      <3>1. FileRow.general = "NONE" /\ lacked[u][r] = clock
        BY <2>5 DEF FileRow, Inv, PastInv
      <3> QED
        BY <2>2, <3>1, Passing
    <2>6. now <= clock'
      BY <1>c, <2>2
    <2>7. FileRow' = FileRow
      BY <1>c DEF FileRow, facts
    <2>8. ~FileRow.found => FileRow.general = "NONE"
      BY DEF FileRow
    <2> HIDE DEF now
    <2> QED
      BY <2>1, <2>3, <2>4, <2>5, <2>6, <2>7, <2>8 DEF ReadInv, GrantedSince, now
  <1>3. CASE ReadShare(s, m) \/ AccessFails(s, m)
    <2>1. msg'[s][m].pc \in {"passed", "denied", "failed"}
      BY <1>3, <1>t DEF ReadShare, AccessFails, Answer, Checks
    <2> QED
      BY <2>1 DEF ReadInv
  <1> QED
    BY <1>1, <1>2, <1>3

(* The verdict that a check leaves on its socket. *)
LEMMA VerdictRead ==
  ASSUME Inv, Next, NEW s \in Sockets, NEW m \in Messages, ReadShare(s, m)
  PROVE  VerdictInv(s)'
  <1> DEFINE role == AccessRole(msg[s][m].row, UserOf[s])
             now == msg[s][m].now
  <1>1. cache'[s].role = role /\ cache'[s].expires - TTL = now
    <2>1. cache' = [cache EXCEPT ![s] = [role |-> role, expires |-> now + TTL]]
      BY DEF ReadShare
    <2>2. cache'[s] = [role |-> role, expires |-> now + TTL]
      BY <2>1 DEF Inv, TypeInv, ChecksOK
    <2> QED
      BY <2>2, Passing, FloorAssumption
  <1>2. /\ role # "NONE" => open >= now
        /\ UserOf[s] \in Users => /\ GrantedSince(UserOf[s], role, now)
                                  /\ LackedSince(UserOf[s], role, now)
    BY RoleIsFresh DEF ReadShare
  <1> HIDE DEF role
  <1>3. role # "NONE" => open' >= now
    BY <1>2, Passing
  <1>4. ASSUME UserOf[s] \in Users, NEW r \in Floors
        PROVE  IF Passes(role, r) THEN held'[UserOf[s]][r] >= now
                                  ELSE lacked'[UserOf[s]][r] >= now
    BY <1>2, <1>4, Passing DEF GrantedSince, LackedSince
  <1> QED
    BY <1>1, <1>3, <1>4 DEF VerdictInv, GrantedSince, LackedSince

LEMMA FreshStep ==
  ASSUME Inv, Next
  PROVE  FreshInv'
  <1>t. /\ msg \in [Sockets -> [Messages -> Checks]] /\ cache \in [Sockets -> Verdicts]
    BY DEF Inv, TypeInv, ChecksOK
  <1>1. CASE OwnerStep \/ Tick
    <2>1. UNCHANGED <<cache, msg>>
      BY <1>1 DEF OwnerStep, Invite, UpdateRole, RemoveShare, UpdateGeneralAccess, MoveTrash,
                  Tick
    <2> QED
      BY <2>1, ReadKept, VerdictKept DEF FreshInv
  <1>2. ASSUME NEW s \in Sockets, NEW m \in Messages,
               Arrive(s, m) \/ ReadFile(s, m) \/ ReadShare(s, m) \/ AccessFails(s, m)
        PROVE  FreshInv'
    <2>1. msg' = [msg EXCEPT ![s][m] = msg'[s][m]]
      BY <1>2, CheckMoves DEF Moves, Inv
    <2>2. \A q \in Sockets, i \in Messages : <<q, i>> = <<s, m>> \/ msg'[q][i] = msg[q][i]
      BY <1>t, <2>1
    <2>3. \A q \in Sockets, i \in Messages : ReadInv(q, i)'
      BY <1>2, <2>2, ReadKept, ReadMoved
    <2>4. \A q \in Sockets : (q = s /\ ReadShare(s, m)) \/ cache'[q] = cache[q]
      BY <1>2, <1>t DEF Arrive, ReadFile, ReadShare, AccessFails
    <2>5. \A q \in Sockets : VerdictInv(q)'
      BY <2>4, VerdictKept, VerdictRead
    <2> QED
      BY <2>3, <2>5 DEF FreshInv
  <1> QED
    BY <1>1, <1>2, StepCases DEF Next

LEMMA Fresh == Spec => []Inv
  <1>1. Init => Inv
    <2>1. Init => TypeInv
      BY TypeInit
    <2>2. Init => PastInv
      BY NothingPasses, FloorAssumption DEF Init, PastInv, Granted, Shares, Never
    <2>3. Init => FreshInv
      BY NothingPasses, FloorAssumption
      DEF Init, FreshInv, ReadInv, VerdictInv, GrantedSince, LackedSince, Unsent, NoVerdict
    <2> QED
      BY <2>1, <2>2, <2>3 DEF Inv
  <1>2. Inv /\ [Next]_vars => Inv'
    <2>1. Inv /\ Next => Inv'
      BY TypeStep, PastMoves, FreshStep DEF Inv
    <2>2. Inv /\ UNCHANGED vars => Inv'
      <3>1. Inv /\ UNCHANGED vars => TypeInv'
        BY TypeStep DEF Inv
      <3>2. Inv /\ UNCHANGED vars => PastInv'
        BY DEF Inv, PastInv, vars, facts, past, Granted, Shares
      <3>3. Inv /\ UNCHANGED vars => FreshInv'
        BY DEF Inv, FreshInv, ReadInv, VerdictInv, GrantedSince, LackedSince, vars, past
      <3> QED
        BY <3>1, <3>2, <3>3 DEF Inv
    <2> QED
      BY <2>1, <2>2
  <1> QED
    BY <1>1, <1>2, PTL DEF Spec

(* A message is answered by a role that is less than TTL older than its        *)
(* arrival: the one it read itself, or the socket's unexpired verdict.         *)
Answers(s, m, role) ==
  LET c == msg'[s][m] IN
  /\ c.floor \in Floors
  /\ c.pc = IF Passes(role, c.floor) THEN "passed" ELSE "denied"
  /\ role # "NONE" => open > c.now - TTL
  /\ UserOf[s] \in Users =>
       IF Passes(role, c.floor) THEN held[UserOf[s]][c.floor] > c.now - TTL
                                ELSE lacked[UserOf[s]][c.floor] > c.now - TTL

LEMMA AnsweredByAFreshRole ==
  ASSUME Inv, Next, NEW s \in Sockets, NEW m \in Messages,
         Becomes(s, m, "passed") \/ Becomes(s, m, "denied")
  PROVE  \E role : Answers(s, m, role)
  <1>t. /\ msg \in [Sockets -> [Messages -> Checks]] /\ msg[s][m] \in Checks
        /\ TTL \in Int /\ TTL > 0 /\ FloorsOK
    BY FloorAssumption DEF Inv, TypeInv, ChecksOK
  <1>1. Arrive(s, m) \/ ReadFile(s, m) \/ ReadShare(s, m) \/ AccessFails(s, m)
    <2>1. msg' # msg
      BY DEF Becomes
    <2>2. ~OwnerStep /\ ~Tick
      BY <2>1 DEF OwnerStep, Invite, UpdateRole, RemoveShare, UpdateGeneralAccess, MoveTrash,
                  Tick
    <2>3. PICK q \in Sockets, i \in Messages :
            Arrive(q, i) \/ ReadFile(q, i) \/ ReadShare(q, i) \/ AccessFails(q, i)
      BY <2>2, StepCases DEF Next
    <2>4. msg' = [msg EXCEPT ![q][i] = msg'[q][i]]
      BY <2>3, CheckMoves DEF Moves, Inv
    <2>5. q = s /\ i = m
      BY <1>t, <2>4 DEF Becomes
    <2> QED
      BY <2>3, <2>5
  <1>2. CASE Arrive(s, m)
    <2>1. PICK floor \in Floors :
            LET sent == [pc |-> "file", floor |-> floor, now |-> clock, row |-> NoRow] IN
            IF cache[s].expires > clock
            THEN Answer(s, m, sent, cache[s].role)
            ELSE msg' = [msg EXCEPT ![s][m] = sent]
      BY <1>2 DEF Arrive
    <2>2. /\ cache[s].expires > clock
          /\ msg'[s][m].floor = floor /\ msg'[s][m].now = clock
          /\ msg'[s][m].pc = IF Passes(cache[s].role, floor) THEN "passed" ELSE "denied"
      BY <1>t, <2>1 DEF Answer, Becomes
    <2>3. cache[s].expires - TTL > clock - TTL
      BY <1>t, <2>2, FloorAssumption, Passing DEF Inv, TypeInv, ChecksOK, Verdicts
    <2>4. VerdictInv(s)
      BY DEF Inv, FreshInv
    <2>5. cache[s].role # "NONE" => open > clock - TTL
      BY <1>t, <2>3, <2>4, Passing DEF VerdictInv
    <2>6. ASSUME UserOf[s] \in Users
          PROVE  IF Passes(cache[s].role, floor) THEN held[UserOf[s]][floor] > clock - TTL
                                                 ELSE lacked[UserOf[s]][floor] > clock - TTL
      BY <1>t, <2>3, <2>4, <2>6, Passing DEF VerdictInv, GrantedSince, LackedSince
    <2> QED
      BY <2>2, <2>5, <2>6 DEF Answers
  <1>3. CASE ReadShare(s, m)
    <2> DEFINE role == AccessRole(msg[s][m].row, UserOf[s])
               now == msg[s][m].now
               floor == msg[s][m].floor
    <2>1. /\ msg'[s][m].floor = floor /\ msg'[s][m].now = now
          /\ msg'[s][m].pc = IF Passes(role, floor) THEN "passed" ELSE "denied"
      BY <1>t, <1>3 DEF ReadShare, Answer, Checks
    <2>2. floor \in Floors
      BY <1>t, <1>3 DEF ReadShare, FloorsOK
    <2>3. /\ role # "NONE" => open >= now
          /\ UserOf[s] \in Users => /\ GrantedSince(UserOf[s], role, now)
                                    /\ LackedSince(UserOf[s], role, now)
      BY <1>3, RoleIsFresh DEF ReadShare
    <2>4. now \in Int
      BY Passing
    <2> HIDE DEF role, now, floor
    <2>5. role # "NONE" => open > now - TTL
      BY <1>t, <2>3, <2>4, Passing
    <2>6. ASSUME UserOf[s] \in Users
          PROVE  IF Passes(role, floor) THEN held[UserOf[s]][floor] > now - TTL
                                        ELSE lacked[UserOf[s]][floor] > now - TTL
      BY <1>t, <2>2, <2>3, <2>4, <2>6, Passing DEF GrantedSince, LackedSince
    <2>7. Answers(s, m, role)
      BY <2>1, <2>2, <2>5, <2>6 DEF Answers
    <2> QED
      BY <2>7
  <1>4. CASE ReadFile(s, m) \/ AccessFails(s, m)
    <2>1. msg'[s][m].pc \in {"share", "failed"}
      BY <1>t, <1>4 DEF ReadFile, AccessFails, Checks
    <2> QED
      BY <2>1 DEF Becomes
  <1> QED
    BY <1>1, <1>2, <1>3, <1>4

(* A message passes only if the file was out of the trash, and some grant of   *)
(* the floor was in force, less than TTL before it arrived or since.           *)
THEOREM RevocationsAreNoticed == Spec => RevokedWithinTTL
  <1> DEFINE OnTime == \A s \in Sockets, m \in Messages :
               Becomes(s, m, "passed") =>
                 /\ open > msg'[s][m].now - TTL
                 /\ UserOf[s] # Owner => held[UserOf[s]][msg'[s][m].floor] > msg'[s][m].now - TTL
  <1>1. Inv /\ Next => OnTime
    <2> SUFFICES ASSUME Inv, Next, NEW s \in Sockets, NEW m \in Messages,
                        Becomes(s, m, "passed")
                 PROVE  /\ open > msg'[s][m].now - TTL
                        /\ UserOf[s] # Owner =>
                             held[UserOf[s]][msg'[s][m].floor] > msg'[s][m].now - TTL
      OBVIOUS
    <2>1. PICK role : Answers(s, m, role)
      BY AnsweredByAFreshRole
    <2>2. msg'[s][m].pc = "passed"
      BY DEF Becomes
    <2>3. Passes(role, msg'[s][m].floor)
      BY <2>1, <2>2 DEF Answers
    <2>4. role # "NONE"
      BY <2>3 DEF Passes
    <2> QED
      BY <2>1, <2>3, <2>4, FloorAssumption DEF Answers
  <1>2. Inv /\ [Next]_vars => [OnTime]_vars
    BY <1>1
  <1> QED
    BY <1>2, Fresh, PTL DEF Spec, RevokedWithinTTL

(* A message is denied only if the file was in the trash, or the user had no   *)
(* share of the floor, less than TTL before it arrived or since.               *)
THEOREM GrantsAreNoticed == Spec => GrantedWithinTTL
  <1> DEFINE OnTime == \A s \in Sockets, m \in Messages :
               Becomes(s, m, "denied") /\ UserOf[s] # Owner =>
                 lacked[UserOf[s]][msg'[s][m].floor] > msg'[s][m].now - TTL
  <1>1. Inv /\ Next => OnTime
    <2> SUFFICES ASSUME Inv, Next, NEW s \in Sockets, NEW m \in Messages,
                        Becomes(s, m, "denied"), UserOf[s] # Owner
                 PROVE  lacked[UserOf[s]][msg'[s][m].floor] > msg'[s][m].now - TTL
      OBVIOUS
    <2>1. PICK role : Answers(s, m, role)
      BY AnsweredByAFreshRole
    <2>2. ~Passes(role, msg'[s][m].floor)
      BY <2>1 DEF Answers, Becomes
    <2> QED
      BY <2>1, <2>2, FloorAssumption DEF Answers
  <1>2. Inv /\ [Next]_vars => [OnTime]_vars
    BY <1>1
  <1> QED
    BY <1>2, Fresh, PTL DEF Spec, GrantedWithinTTL
===============================================================================
