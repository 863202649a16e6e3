----------------------------- MODULE NoticesProofs ----------------------------
(* What Notices guarantees for any number of users, requests and messages, any *)
(* switches and any number of faults.                                          *)
EXTENDS Notices, TLAPS

Ops  == {"invite", "role", "remove"}
Pcs  == {"unused", "find", "write", "check", "file", "notify", "reply", "ok", "failed"}
Done == {"none", "pref", "insert", "stored", "skipped", "failed"}

LEMMA KindDomain == DOMAIN Kind = Ops \cup {"chat"}
  BY DEF Kind, Ops

-------------------------------------------------------------------------------
(* What a run and a notification look like on the way.  An unused run has left *)
(* no trace; whom a notification is for is fixed by what the run is; and       *)
(* whoever holds a share's id holds it of a share that is there.               *)

RunInv ==
  \A c \in Runs :
    /\ run[c].pc = "unused" => /\ mentions[c] = {}
                               /\ c \notin holds \cup wrote \cup stored
    /\ run[c].pc = "unused" <=> run[c].op = "none"
    /\ run[c].pc \in {"check", "file", "reply"} => run[c].op = "chat"
    /\ run[c].pc \in {"find", "write"} => run[c].op \in Ops
    /\ run[c].op \in Ops => run[c].user \in Users
    /\ c \in wrote => run[c].op \in Ops
    /\ c \in holds => run[c].op \in {"role", "remove"} /\ run[c].user \in shared

NoteOk(c, u) ==
  /\ run[c].pc \in {"unused", "find", "write", "check", "file"} => note[c][u] = "none"
  /\ note[c][u] # "none" /\ run[c].op \in Ops => u = run[c].user /\ c \in wrote
  /\ note[c][u] # "none" /\ run[c].op = "chat" => u \in Addressed(c)
  /\ <<c, u>> \in inbox => note[c][u] = "stored"

NoteInv == \A c \in Runs, u \in People : NoteOk(c, u)

MirrorInv ==
  /\ \A c \in Runs : known[c] \subseteq Present
  /\ \A u \in Users : pending[u] # {} => u \in closed
  /\ GhostOnlyIfReordered

TypeInv == TypeOK /\ RunInv /\ NoteInv /\ MirrorInv

RunType == [op : DOMAIN Kind \cup {"none"}, user : People, todo : SUBSET People,
            asked : SUBSET People, pc : Pcs]

LEMMA UnusedType == Unused \in RunType
  BY DEF Unused, RunType, People, Pcs

LEMMA TypeInit == Init => TypeInv
  <1> SUFFICES ASSUME Init PROVE TypeInv
    OBVIOUS
  <1> USE NoticesAssumption, KindDomain DEF Init, Unused, People, Ops
  <1>1. TypeOK
    <2>1. run \in [Runs -> RunType]
      BY UnusedType
    <2>2. /\ live \subseteq Users /\ closed \subseteq Users /\ shared \subseteq live
          /\ pending \in [Users -> SUBSET {"updated", "deleted"}]
          /\ muted \in [People -> SUBSET Kinds]
          /\ anyone \in BOOLEAN /\ file \in {"live", "trashed", "gone"}
      OBVIOUS
    <2>3. /\ stored = {} /\ inbox = {} /\ holds = {} /\ wrote = {} /\ late = {}
          /\ mentions \in [Runs -> SUBSET People] /\ known \in [Runs -> SUBSET People]
          /\ note \in [Runs -> [People -> Done]]
          /\ faults \in 0..MaxFaults
      BY DEF Done
    <2>4. /\ opened \subseteq Runs /\ granted \in [Runs -> SUBSET People]
          /\ wanted \in [Runs -> SUBSET People] /\ spurned \in [Runs -> SUBSET People]
      OBVIOUS
    <2> QED
      BY <2>1, <2>2, <2>3, <2>4 DEF TypeOK, RunType, Pcs, Done
  <1>2. RunInv
    BY DEF RunInv
  <1>3. NoteInv
    BY DEF NoteInv, NoteOk
  <1>4. MirrorInv
    BY DEF MirrorInv, GhostOnlyIfReordered, Present
  <1> QED
    BY <1>1, <1>2, <1>3, <1>4 DEF TypeInv

(* A run that goes on, and a notification that does. *)
Moves(c, pc) ==
  /\ run' \in [Runs -> RunType]
  /\ \A d \in Runs : /\ run'[d].op = run[d].op /\ run'[d].user = run[d].user
                     /\ run'[d].pc = IF d = c THEN pc ELSE run[d].pc
                     /\ run'[d].asked = run[d].asked

NoteMoves(c, u, pc) ==
  /\ note' \in [Runs -> [People -> Done]]
  /\ \A d \in Runs, v \in People :
       note'[d][v] = IF d = c /\ v = u THEN pc ELSE note[d][v]

LEMMA GoesMoves ==
  ASSUME TypeOK, NEW c \in Runs, NEW pc \in Pcs, Goes(c, pc)
  PROVE  Moves(c, pc)
  <1>1. run \in [Runs -> RunType]
    BY DEF TypeOK, RunType, Pcs
  <1>2. run' = [run EXCEPT ![c] = [run[c] EXCEPT !.pc = pc]]
    BY DEF Goes
  <1>3. [run[c] EXCEPT !.pc = pc] \in RunType
    BY <1>1 DEF RunType
  <1> QED
    BY <1>1, <1>2, <1>3 DEF Moves, RunType

LEMMA NotesMoves ==
  ASSUME TypeOK, NEW c \in Runs, NEW u \in People, NEW pc \in Done, Notes(c, u, pc)
  PROVE  NoteMoves(c, u, pc)
  BY DEF Notes, NoteMoves, TypeOK, Done

LEMMA RememberType ==
  ASSUME TypeOK, Remember
  PROVE  /\ opened' \subseteq Runs /\ granted' \in [Runs -> SUBSET People]
         /\ wanted' \in [Runs -> SUBSET People] /\ spurned' \in [Runs -> SUBSET People]
  <1>1. opened' \subseteq Runs /\ granted' \in [Runs -> SUBSET People]
    BY DEF Remember, TypeOK
  <1>2. wanted' \in [Runs -> SUBSET People] /\ spurned' \in [Runs -> SUBSET People]
    BY DEF Remember, TypeOK
  <1> QED
    BY <1>1, <1>2

LEMMA FaultType == ASSUME TypeOK, Fault PROVE faults' \in 0..MaxFaults
  BY NoticesAssumption DEF Fault, TypeOK

LEMMA AcknowledgeType ==
  ASSUME TypeOK, NEW u \in Users, NEW event, Acknowledge(u, event)
  PROVE  /\ faults' \in 0..MaxFaults
         /\ pending' \in [Users -> SUBSET {"updated", "deleted"}]
         /\ \A v \in Users :
              (pending'[v] = pending[v]) \/ (v = u /\ pending'[v] = pending[v] \ {event})
  <1>0. pending \in [Users -> SUBSET {"updated", "deleted"}] /\ faults \in 0..MaxFaults
    BY DEF TypeOK
  <1>1. CASE pending' = [pending EXCEPT ![u] = @ \ {event}] /\ UNCHANGED faults
    <2>1. pending[u] \ {event} \in SUBSET {"updated", "deleted"}
      BY <1>0
    <2> QED
      BY <1>0, <1>1, <2>1
  <1>2. CASE Fault /\ UNCHANGED pending
    BY <1>0, <1>2, FaultType
  <1> QED
    BY <1>1, <1>2 DEF Acknowledge

-------------------------------------------------------------------------------
(* Steps that touch no run and no notification *)

LEMMA MirrorStepType ==
  ASSUME TypeInv, Remember, NEW u \in Users,
         ClerkDeletes(u) \/ UpsertUser(u) \/ DeleteUser(u)
  PROVE  TypeInv'
  <1> USE RememberType
  <1>1. CASE ClerkDeletes(u)
    BY <1>1 DEF ClerkDeletes, facts, rows, ids, TypeInv, TypeOK, RunInv, NoteInv, NoteOk, MirrorInv,
       GhostOnlyIfReordered, Present, Addressed
  <1>2. CASE UpsertUser(u)
    <2>1. faults' \in 0..MaxFaults /\ pending' \in [Users -> SUBSET {"updated", "deleted"}]
          /\ \A v \in Users : pending'[v] \subseteq pending[v]
                              /\ ("deleted" \in pending[v] => "deleted" \in pending'[v])
      BY <1>2, AcknowledgeType DEF UpsertUser, TypeInv
    <2>2. muted' \in [People -> SUBSET Kinds]
      BY <1>2 DEF UpsertUser, TypeInv, TypeOK
    <2> QED
      BY <1>2, <2>1, <2>2 DEF UpsertUser, rows, TypeInv, TypeOK, ids, RunInv, NoteInv, NoteOk,
         MirrorInv, GhostOnlyIfReordered, Present, Addressed
  <1>3. CASE DeleteUser(u)
    <2>1. faults' \in 0..MaxFaults /\ pending' \in [Users -> SUBSET {"updated", "deleted"}]
          /\ \A v \in Users : /\ pending'[v] \subseteq pending[v]
                              /\ v # u => pending'[v] = pending[v]
      BY <1>3, AcknowledgeType DEF DeleteUser, TypeInv
    <2>2. known' \in [Runs -> SUBSET People] /\ \A c \in Runs : known'[c] \subseteq Present'
      BY <1>3, NoticesAssumption DEF DeleteUser, TypeInv, TypeOK, MirrorInv, Present
    <2>3. inbox' \subseteq Runs \X Present'
      BY <1>3 DEF DeleteUser, TypeInv, TypeOK, Present
    <2>4. \A s \in stored' : run'[s].user \in Present'
      BY <1>3 DEF DeleteUser, TypeInv, TypeOK, Present
    <2> QED
      BY <1>3, <2>1, <2>2, <2>3, <2>4 DEF DeleteUser, TypeInv, TypeOK, RunInv, NoteInv, NoteOk,
         MirrorInv, GhostOnlyIfReordered, Present, Addressed
  <1> QED
    BY <1>1, <1>2, <1>3

LEMMA FactStepType ==
  ASSUME TypeInv, Remember,
         \/ \E u \in People : SetPreferences(u)
         \/ UpdateGeneralAccess \/ MoveTrash \/ PermanentDelete
  PROVE  TypeInv'
  <1> USE RememberType
  <1>1. ASSUME NEW u \in People, SetPreferences(u)
        PROVE  TypeInv'
    BY <1>1 DEF SetPreferences, mirror, rows, ids, TypeInv, TypeOK, RunInv, NoteInv, NoteOk,
       MirrorInv, GhostOnlyIfReordered, Present, Addressed
  <1>2. CASE UpdateGeneralAccess
    BY <1>2 DEF UpdateGeneralAccess, mirror, rows, ids, TypeInv, TypeOK, RunInv, NoteInv, NoteOk,
       MirrorInv, GhostOnlyIfReordered, Present, Addressed
  <1>3. CASE MoveTrash
    BY <1>3 DEF MoveTrash, mirror, rows, ids, TypeInv, TypeOK, RunInv, NoteInv, NoteOk,
       MirrorInv, GhostOnlyIfReordered, Present, Addressed
  <1>4. CASE PermanentDelete
    BY <1>4 DEF PermanentDelete, mirror, TypeInv, TypeOK, RunInv, NoteInv, NoteOk,
       MirrorInv, GhostOnlyIfReordered, Present, Addressed
  <1> QED
    BY <1>1, <1>2, <1>3, <1>4

-------------------------------------------------------------------------------
(* Steps of a request, of a send, and of a notification *)

LEMMA GoesType ==
  ASSUME TypeInv, Remember, NEW q \in Runs, NEW pc \in {"write", "reply", "ok", "failed"},
         Goes(q, pc), faults' \in 0..MaxFaults, run[q].pc # "unused",
         pc = "write" => run[q].pc = "find", pc = "reply" => run[q].op = "chat",
         UNCHANGED <<mirror, facts, rows, note, ids, wrote, late>>
  PROVE  TypeInv'
  <1>1. Moves(q, pc)
    BY GoesMoves DEF TypeInv, Pcs
  <1>2. TypeOK'
    BY <1>1, RememberType DEF Moves, RunType, Pcs, mirror, facts, rows, ids, TypeInv, TypeOK,
       Present
  <1>3. RunInv'
    BY <1>1 DEF Moves, facts, rows, ids, TypeInv, RunInv, Ops
  <1>4. NoteInv'
    <2> SUFFICES ASSUME NEW c \in Runs, NEW u \in People
                 PROVE  NoteOk(c, u)'
      BY DEF NoteInv
    <2>1. NoteOk(c, u) /\ mentions' = mentions /\ inbox' = inbox /\ note' = note /\ wrote' = wrote
      BY DEF TypeInv, NoteInv, rows
    <2>2. run'[c].op = run[c].op /\ run'[c].user = run[c].user
          /\ (run'[c].pc = run[c].pc \/ run'[c].pc \in {"reply", "ok", "failed"}
              \/ (run'[c].pc = "write" /\ run[c].pc = "find"))
      BY <1>1 DEF Moves
    <2> QED
      BY <2>1, <2>2 DEF NoteOk, Addressed
  <1>5. MirrorInv'
    BY DEF mirror, facts, ids, TypeInv, MirrorInv, GhostOnlyIfReordered, Present
  <1> QED
    BY <1>2, <1>3, <1>4, <1>5 DEF TypeInv

LEMMA RequestStepType ==
  ASSUME TypeInv, Remember, NEW q \in Runs, RequestStep(q)
  PROVE  TypeInv'
  <1> USE RememberType, KindDomain
  <1>0. TypeOK /\ run \in [Runs -> RunType]
    BY DEF TypeInv, TypeOK, RunType, Pcs
  <1>1. ASSUME NEW u \in Users, StartRequest(q, u)
        PROVE  TypeInv'
    <2>1. PICK op \in Ops : /\ u \in IF op = "invite" THEN live ELSE shared
                            /\ run' = [run EXCEPT ![q] = [Unused EXCEPT !.op = op,
                                                           !.user = u, !.pc = "find"]]
                            /\ holds' = IF op = "invite" THEN holds ELSE holds \cup {q}
      BY <1>1 DEF StartRequest, Ops
    <2>2. [Unused EXCEPT !.op = op, !.user = u, !.pc = "find"] \in RunType
      BY UnusedType DEF RunType, Pcs, Ops, People
    <2>3. /\ run' \in [Runs -> RunType]
          /\ run'[q].op = op /\ run'[q].user = u /\ run'[q].pc = "find"
          /\ \A c \in Runs \ {q} : run'[c] = run[c]
      BY <1>0, <2>1, <2>2 DEF Unused
    <2>4. known' \in [Runs -> SUBSET People] /\ known'[q] = {u} /\ u \in live
          /\ \A c \in Runs \ {q} : known'[c] = known[c]
      BY <1>1, <2>1 DEF StartRequest, TypeInv, TypeOK, People
    <2>5. /\ run[q].pc = "unused" /\ run[q].op = "none"
          /\ \A v \in People : note[q][v] = "none" /\ <<q, v>> \notin inbox
          /\ q \notin holds \cup wrote \cup stored
      BY <1>1 DEF StartRequest, TypeInv, RunInv, NoteInv, NoteOk
    <2> USE <1>1, <2>1, <2>3, <2>4, <2>5 DEF StartRequest, mirror, facts, rows, TypeInv
    <2>6. TypeOK'
      BY DEF TypeOK, RunType, Pcs, Present
    <2>7. RunInv'
      BY DEF RunInv, Ops
    <2>8. NoteInv'
      <3> SUFFICES ASSUME NEW c \in Runs, NEW v \in People
                   PROVE  NoteOk(c, v)'
        BY DEF NoteInv
      <3>1. NoteOk(c, v) /\ mentions' = mentions /\ inbox' = inbox /\ note' = note /\ wrote' = wrote
        BY DEF NoteInv
      <3> QED
        BY <3>1 DEF NoteOk, Addressed
    <2>9. MirrorInv'
      BY DEF MirrorInv, GhostOnlyIfReordered, Present
    <2> QED
      BY <2>6, <2>7, <2>8, <2>9
  <1>3. CASE FindRow(q) \/ WriteFails(q) \/ RequestError(q)
    <2>1. faults' \in 0..MaxFaults
      BY <1>3, <1>0, FaultType DEF FindRow, WriteFails, RequestError, TypeOK
    <2>2. PICK pc \in {"write", "failed"} : /\ Goes(q, pc) /\ run[q].pc \in {"find", "write"}
                                            /\ pc = "write" => run[q].pc = "find"
      BY <1>3 DEF FindRow, WriteFails, RequestError
    <2> QED
      BY <1>3, <2>1, <2>2, GoesType DEF FindRow, WriteFails, RequestError
  <1>4. CASE Invite(q) \/ UpdateRole(q) \/ Remove(q)
    <2>1. run[q].pc = "write" /\ Wrote(q) /\ Finds(q) /\ run[q].op \in Ops
          /\ run[q].user \in Users /\ run[q].user \in People
      BY <1>4 DEF Invite, UpdateRole, Remove, At, Writable, TypeInv, RunInv, People, Ops
    <2>2. Moves(q, "notify")
      BY <1>0, <2>1, GoesMoves DEF Wrote, Pcs
    <2>3. NoteMoves(q, run[q].user, "pref")
      BY <1>0, <2>1, NotesMoves DEF Wrote, Notes, Done
    <2>4. /\ shared' \subseteq live /\ holds' \subseteq holds
          /\ \A c \in holds' : run[c].user \in shared'
      <3>1. CASE Invite(q)
        BY <2>1, <3>1, NoticesAssumption
        DEF Invite, At, Finds, TypeInv, TypeOK, RunInv, MirrorInv, Present
      <3>2. CASE UpdateRole(q)
        BY <3>2 DEF UpdateRole, TypeInv, TypeOK, RunInv
      <3>3. CASE Remove(q)
        BY <3>3 DEF Remove, TypeInv, TypeOK, RunInv
      <3> QED
        BY <1>4, <3>1, <3>2, <3>3
    <2> USE <2>1, <2>2, <2>3, <2>4 DEF Wrote, Moves, NoteMoves, mirror, rows, TypeInv
    <2>5. TypeOK'
      BY DEF TypeOK, RunType, Pcs, Done, Present
    <2>6. RunInv'
      BY DEF RunInv, Ops, TypeOK
    <2>7. NoteInv'
      <3> SUFFICES ASSUME NEW c \in Runs, NEW v \in People
                   PROVE  NoteOk(c, v)'
        BY DEF NoteInv
      <3>1. NoteOk(c, v) /\ mentions' = mentions /\ inbox' = inbox /\ wrote' = wrote \cup {q}
        BY DEF NoteInv
      <3>2. run'[c].op = run[c].op /\ run'[c].user = run[c].user
            /\ (c # q => run'[c].pc = run[c].pc) /\ run'[q].pc = "notify"
            /\ note'[c][v] = (IF c = q /\ v = run[q].user THEN "pref" ELSE note[c][v])
        OBVIOUS
      <3>3. NoteOk(q, v) => <<q, v>> \notin inbox
        BY DEF NoteOk
      <3> QED
        BY <3>1, <3>2, <3>3 DEF NoteOk, Addressed, Ops
    <2>8. MirrorInv'
      BY DEF MirrorInv, GhostOnlyIfReordered, Present
    <2> QED
      BY <2>5, <2>6, <2>7, <2>8
  <1>5. CASE AnswerRequest(q)
    <2>1. PICK pc \in {"ok", "failed"} : Goes(q, pc)
      BY <1>5 DEF AnswerRequest
    <2> QED
      BY <1>5, <1>0, <2>1, GoesType DEF AnswerRequest, TypeOK
  <1> QED
    BY <1>1, <1>3, <1>4, <1>5 DEF RequestStep

LEMMA NoteStepType ==
  ASSUME TypeInv, Remember, NEW c \in Runs, NEW u \in People,
         NotePreference(c, u) \/ NoteInsert(c, u) \/ NoteError(c, u)
  PROVE  TypeInv'
  <1> USE RememberType
  <1>0. TypeOK
    BY DEF TypeInv
  <1>1. PICK pc \in {"insert", "skipped", "stored", "failed"} : NoteMoves(c, u, pc)
    BY <1>0, NotesMoves DEF NotePreference, NoteInsert, NoteError, Done
  <1>2. note[c][u] \in {"pref", "insert"}
    BY DEF NotePreference, NoteInsert, NoteError
  <1>3. /\ faults' \in 0..MaxFaults
        /\ inbox' \subseteq Runs \X Present
        /\ \A d \in Runs, v \in People :
             <<d, v>> \in inbox' => (<<d, v>> \in inbox) \/ note'[d][v] = "stored"
        /\ UNCHANGED <<mirror, facts, mentions, stored, run, ids, wrote, late>>
    <2>1. CASE NotePreference(c, u)
      BY <2>1 DEF NotePreference, rows, TypeInv, TypeOK
    <2>2. CASE NoteInsert(c, u)
      <3>1. CASE u \in known[c] /\ ActorIsThere(c)
        <4>1. inbox' = inbox \cup {<<c, u>>} /\ NoteMoves(c, u, "stored") /\ u \in Present
          BY <2>2, <3>1, <1>0, NotesMoves DEF NoteInsert, Done, TypeInv, MirrorInv
        <4> QED
          BY <2>2, <4>1 DEF NoteInsert, NoteMoves, TypeInv, TypeOK
      <3>2. CASE ~(u \in known[c] /\ ActorIsThere(c))
        BY <2>2, <3>2 DEF NoteInsert, TypeInv, TypeOK
      <3> QED
        BY <3>1, <3>2
    <2>3. CASE NoteError(c, u)
      BY <2>3, <1>0, FaultType DEF NoteError, rows, TypeInv, TypeOK
    <2> QED
      BY <2>1, <2>2, <2>3
  <1> USE <1>1, <1>2, <1>3 DEF NoteMoves, mirror, facts, ids, TypeInv
  <1>4. TypeOK'
    BY DEF TypeOK, Done, Present
  <1>5. RunInv'
    BY DEF RunInv
  <1>6. NoteInv'
    <2> SUFFICES ASSUME NEW d \in Runs, NEW v \in People
                 PROVE  NoteOk(d, v)'
      BY DEF NoteInv
    <2>1. NoteOk(d, v) /\ mentions' = mentions /\ run' = run /\ wrote' = wrote
      BY DEF NoteInv
    <2>2. note'[d][v] = IF d = c /\ v = u THEN pc ELSE note[d][v]
      OBVIOUS
    <2> QED
      BY <2>1, <2>2 DEF NoteOk, Addressed
  <1>7. MirrorInv'
    BY DEF MirrorInv, GhostOnlyIfReordered, Present
  <1> QED
    BY <1>4, <1>5, <1>6, <1>7

LEMMA SendStepType ==
  ASSUME TypeInv, Remember, NEW s \in Runs, SendStep(s)
  PROVE  TypeInv'
  <1> USE RememberType, KindDomain
  <1>0. TypeOK /\ run \in [Runs -> RunType]
    BY DEF TypeInv, TypeOK, RunType, Pcs
  <1>1. ASSUME NEW u \in People, StartSend(s, u)
        PROVE  TypeInv'
    <2>1. PICK candidates \in SUBSET People :
            /\ run' = [run EXCEPT ![s] = [op |-> "chat", user |-> u, pc |-> "check",
                                          todo |-> candidates, asked |-> {}]]
            /\ known' = [known EXCEPT ![s] = {u} \cup (candidates \cap Present)]
      BY <1>1 DEF StartSend
    <2>2. [op |-> "chat", user |-> u, pc |-> "check",
           todo |-> candidates, asked |-> {}] \in RunType
      BY DEF RunType, Pcs
    <2>3. /\ run' \in [Runs -> RunType]
          /\ run'[s].op = "chat" /\ run'[s].user = u /\ run'[s].pc = "check"
          /\ \A c \in Runs \ {s} : run'[c] = run[c]
      BY <1>0, <2>1, <2>2
    <2>4. /\ known' \in [Runs -> SUBSET People] /\ known'[s] \subseteq Present
          /\ \A c \in Runs \ {s} : known'[c] = known[c]
      BY <1>1, <2>1 DEF StartSend, TypeInv, TypeOK
    <2>5. /\ run[s].pc = "unused" /\ run[s].op = "none"
          /\ \A v \in People : note[s][v] = "none" /\ <<s, v>> \notin inbox
          /\ s \notin holds \cup wrote \cup stored
      BY <1>1 DEF StartSend, TypeInv, RunInv, NoteInv, NoteOk
    <2> USE <1>1, <2>3, <2>4, <2>5 DEF StartSend, mirror, facts, rows, TypeInv
    <2>6. TypeOK'
      BY DEF TypeOK, RunType, Pcs, Present
    <2>7. RunInv'
      BY DEF RunInv, Ops
    <2>8. NoteInv'
      <3> SUFFICES ASSUME NEW c \in Runs, NEW v \in People
                   PROVE  NoteOk(c, v)'
        BY DEF NoteInv
      <3>1. NoteOk(c, v) /\ mentions' = mentions /\ inbox' = inbox /\ note' = note /\ wrote' = wrote
        BY DEF NoteInv
      <3> QED
        BY <3>1 DEF NoteOk, Addressed
    <2>9. MirrorInv'
      BY DEF MirrorInv, GhostOnlyIfReordered, Present
    <2> QED
      BY <2>6, <2>7, <2>8, <2>9
  <1>2. ASSUME NEW u \in People, MentionFile(s, u) \/ MentionShare(s, u)
        PROVE  TypeInv'
    <2>1. PICK todo \in SUBSET People, asked \in SUBSET People :
            run' = [run EXCEPT ![s] = [run[s] EXCEPT !.todo = todo, !.asked = asked]]
      <3>0. run[s].todo \in SUBSET People /\ run[s].asked \in SUBSET People /\ run[s] \in RunType
        BY <1>0 DEF RunType
      <3>1. CASE MentionFile(s, u)
        <4> DEFINE asked == IF file = "live" /\ ~FileGrants(u)
                            THEN run[s].asked \cup {u} ELSE run[s].asked
        <4>1. run' = [run EXCEPT ![s] = [run[s] EXCEPT !.todo = run[s].todo \ {u},
                                                       !.asked = asked]]
          BY <1>0, <3>0, <3>1 DEF MentionFile, RunType
        <4> HIDE DEF asked
        <4>2. asked \in SUBSET People
          BY <3>0 DEF asked
        <4> QED
          BY <3>0, <4>1, <4>2
      <3>2. CASE MentionShare(s, u)
        <4>1. run' = [run EXCEPT ![s] = [run[s] EXCEPT !.todo = run[s].todo,
                                                       !.asked = run[s].asked \ {u}]]
          BY <1>0, <3>0, <3>2 DEF MentionShare, RunType
        <4> QED
          BY <3>0, <4>1
      <3> QED
        BY <1>2, <3>1, <3>2
    <2>2. [run[s] EXCEPT !.todo = todo, !.asked = asked] \in RunType
      BY <1>0 DEF RunType
    <2>3. /\ run' \in [Runs -> RunType]
          /\ \A c \in Runs : /\ run'[c].op = run[c].op /\ run'[c].user = run[c].user
                             /\ run'[c].pc = run[c].pc
      BY <1>0, <2>1, <2>2 DEF RunType
    <2>4. /\ mentions' \in [Runs -> SUBSET People]
          /\ \A c \in Runs : mentions[c] \subseteq mentions'[c]
          /\ \A c \in Runs \ {s} : mentions'[c] = mentions[c]
      <3>1. mentions' = mentions \/ mentions' = [mentions EXCEPT ![s] = @ \cup {u}]
        BY <1>2 DEF MentionFile, MentionShare
      <3>2. mentions \in [Runs -> SUBSET People]
        BY <1>0 DEF TypeOK
      <3>3. CASE mentions' = [mentions EXCEPT ![s] = @ \cup {u}]
        <4>1. mentions[s] \cup {u} \in SUBSET People
          BY <3>2
        <4> QED
          BY <3>2, <3>3, <4>1
      <3> QED
        BY <3>1, <3>2, <3>3
    <2>5. run[s].pc = "check"
      BY <1>2 DEF MentionFile, MentionShare
    <2> USE <1>2, <2>3, <2>4, <2>5 DEF MentionFile, MentionShare, mirror, facts, ids, TypeInv
    <2>6. TypeOK'
      BY DEF TypeOK, RunType, Pcs, Present
    <2>7. RunInv'
      BY DEF RunInv, Ops
    <2>8. NoteInv'
      <3> SUFFICES ASSUME NEW c \in Runs, NEW v \in People
                   PROVE  NoteOk(c, v)'
        BY DEF NoteInv
      <3>1. NoteOk(c, v) /\ inbox' = inbox /\ note' = note /\ wrote' = wrote
        BY DEF NoteInv
      <3> QED
        BY <3>1 DEF NoteOk, Addressed
    <2>9. MirrorInv'
      BY DEF MirrorInv, GhostOnlyIfReordered, Present
    <2> QED
      BY <2>6, <2>7, <2>8, <2>9
  <1>3. CASE InsertMessage(s)
    <2>1. CASE ~(file # "gone" /\ run[s].user \in known[s])
      BY <1>0, <1>3, <2>1, GoesType DEF InsertMessage, TypeOK, rows
    <2>2. CASE file # "gone" /\ run[s].user \in known[s]
      <3>1. PICK pc \in {"reply", "file"} : Goes(s, pc)
        BY <1>3, <2>2 DEF InsertMessage
      <3>2. Moves(s, pc)
        BY <1>0, <3>1, GoesMoves DEF Pcs
      <3>3. run[s].op = "chat" /\ run[s].pc = "check" /\ stored' = stored \cup {s}
            /\ run[s].user \in Present
        BY <1>3, <2>2 DEF InsertMessage, TypeInv, RunInv, MirrorInv
      <3> USE <1>3, <3>2, <3>3 DEF InsertMessage, Moves, mirror, facts, ids, TypeInv
      <3>4. TypeOK'
        BY DEF TypeOK, RunType, Pcs, Present
      <3>5. RunInv'
        BY DEF RunInv, Ops
      <3>6. NoteInv'
        <4> SUFFICES ASSUME NEW c \in Runs, NEW v \in People
                     PROVE  NoteOk(c, v)'
          BY DEF NoteInv
        <4>1. /\ NoteOk(c, v) /\ mentions' = mentions /\ inbox' = inbox
              /\ note' = note /\ wrote' = wrote
          BY DEF NoteInv
        <4> QED
          BY <4>1 DEF NoteOk, Addressed
      <3>7. MirrorInv'
        BY DEF MirrorInv, GhostOnlyIfReordered, Present
      <3> QED
        BY <3>4, <3>5, <3>6, <3>7
    <2> QED
      BY <2>1, <2>2
  <1>4. CASE ReadFileName(s)
    <2>0. run[s].pc = "file" /\ run[s].op = "chat"
      BY <1>4 DEF ReadFileName, TypeInv, RunInv
    <2>1. CASE file = "gone"
      BY <1>0, <1>4, <2>0, <2>1, GoesType DEF ReadFileName, TypeOK
    <2>2. CASE file # "gone"
      <3>1. Moves(s, "notify")
        BY <1>0, <1>4, <2>2, GoesMoves DEF ReadFileName, Pcs
      <3>2. /\ note' \in [Runs -> [People -> Done]]
            /\ \A c \in Runs, v \in People :
                 note'[c][v] = IF c = s THEN IF v \in Addressed(s) THEN "pref" ELSE "none"
                               ELSE note[c][v]
        <4>1. note' = [note EXCEPT ![s] =
                         [u \in People |-> IF u \in Addressed(s) THEN "pref" ELSE "none"]]
          BY <1>4, <2>2 DEF ReadFileName
        <4>2. note \in [Runs -> [People -> Done]]
          BY <1>0 DEF TypeOK, Done
        <4>3. [u \in People |-> IF u \in Addressed(s) THEN "pref" ELSE "none"]
                \in [People -> Done]
          BY DEF Done
        <4> QED
          BY <4>1, <4>2, <4>3
      <3> USE <1>4, <2>0, <3>1, <3>2 DEF ReadFileName, Moves, mirror, facts, rows, ids, TypeInv
      <3>3. TypeOK'
        BY DEF TypeOK, RunType, Pcs, Done, Present
      <3>4. RunInv'
        BY DEF RunInv, Ops
      <3>5. NoteInv'
        <4> SUFFICES ASSUME NEW c \in Runs, NEW v \in People
                     PROVE  NoteOk(c, v)'
          BY DEF NoteInv
        <4>1. NoteOk(c, v) /\ mentions' = mentions /\ inbox' = inbox /\ wrote' = wrote
          BY DEF NoteInv
        <4>2. run'[c].op = run[c].op /\ run'[c].user = run[c].user
              /\ (c # s => run'[c].pc = run[c].pc) /\ run'[s].pc = "notify"
          OBVIOUS
        <4> QED
          BY <4>1, <4>2 DEF NoteOk, Addressed, Ops
      <3>6. MirrorInv'
        BY DEF MirrorInv, GhostOnlyIfReordered, Present
      <3> QED
        BY <3>3, <3>4, <3>5, <3>6
    <2> QED
      BY <2>1, <2>2
  <1>5. CASE SendError(s)
    <2>1. faults' \in 0..MaxFaults
      BY <1>5, <1>0, FaultType DEF SendError
    <2> QED
      BY <1>5, <2>1, GoesType DEF SendError
  <1>6. CASE Reply(s) \/ ReplyFailed(s)
    <2>1. PICK pc \in {"ok", "failed"} : Goes(s, pc) /\ run[s].pc \in {"reply", "notify"}
      BY <1>6 DEF Reply, ReplyFailed, At
    <2> QED
      BY <1>6, <1>0, <2>1, GoesType DEF Reply, ReplyFailed, TypeOK
  <1> QED
    BY <1>1, <1>2, <1>3, <1>4, <1>5, <1>6 DEF SendStep

LEMMA CrashType ==
  ASSUME TypeInv, Remember, Crash
  PROVE  TypeInv'
  <1> USE RememberType
  <1>0. TypeOK /\ run \in [Runs -> RunType] /\ note \in [Runs -> [People -> Done]]
    BY DEF TypeInv, TypeOK, RunType, Pcs, Done
  <1>1. /\ run' \in [Runs -> RunType]
        /\ \A c \in Runs : /\ run'[c].op = run[c].op /\ run'[c].user = run[c].user
                           /\ run'[c].pc = IF run[c].pc \in {"unused", "ok"} THEN run[c].pc
                                           ELSE "failed"
    <2>1. \A c \in Runs : [run[c] EXCEPT !.pc = "failed"] \in RunType
      BY <1>0 DEF RunType, Pcs
    <2>2. \A c \in Runs : run'[c] = IF run[c].pc \in {"unused", "ok"} THEN run[c]
                                    ELSE [run[c] EXCEPT !.pc = "failed"]
      BY DEF Crash
    <2> QED
      BY <1>0, <2>1, <2>2 DEF Crash, RunType
  <1>2. /\ note' \in [Runs -> [People -> Done]]
        /\ \A c \in Runs, u \in People :
             note'[c][u] = IF note[c][u] \in {"pref", "insert"} THEN "failed" ELSE note[c][u]
    BY <1>0 DEF Crash, Done
  <1>3. faults' \in 0..MaxFaults
    BY <1>0, FaultType DEF Crash
  <1> USE <1>1, <1>2, <1>3 DEF Crash, mirror, facts, rows, ids, TypeInv
  <1>4. TypeOK'
    BY DEF TypeOK, RunType, Pcs, Done, Present
  <1>5. RunInv'
    BY DEF RunInv, Ops
  <1>6. NoteInv'
    <2> SUFFICES ASSUME NEW c \in Runs, NEW u \in People
                 PROVE  NoteOk(c, u)'
      BY DEF NoteInv
    <2>1. NoteOk(c, u) /\ mentions' = mentions /\ inbox' = inbox /\ wrote' = wrote
      BY DEF NoteInv
    <2> QED
      BY <2>1 DEF NoteOk, Addressed
  <1>7. MirrorInv'
    BY DEF MirrorInv, GhostOnlyIfReordered, Present
  <1> QED
    BY <1>4, <1>5, <1>6, <1>7

LEMMA TypeStep ==
  ASSUME TypeInv, [Next]_vars
  PROVE  TypeInv'
  <1>1. CASE UNCHANGED vars
    BY <1>1 DEF vars, mirror, facts, rows, ids, history, TypeInv, TypeOK, RunInv, NoteInv,
       NoteOk, MirrorInv, GhostOnlyIfReordered, Present, Addressed
  <1>2. CASE Next
    BY <1>2, MirrorStepType, FactStepType, RequestStepType, SendStepType, NoteStepType, CrashType
    DEF Next, Step
  <1> QED
    BY <1>1, <1>2

(* The tables agree after any interleaving of requests, messages, deletions    *)
(* and crashes: nothing outlives the user it belongs to.                       *)
THEOREM TypeCorrect == Spec => []TypeOK
  <1>1. TypeInv => TypeOK
    BY DEF TypeInv
  <1> QED
    BY <1>1, TypeInit, TypeStep, PTL DEF Spec

(* A closed account's row stays only for a deletion that is still to come or   *)
(* for an update that overtook it.                                             *)
THEOREM GhostsAreReordered == Spec => []GhostOnlyIfReordered
  <1>1. TypeInv => GhostOnlyIfReordered
    BY DEF TypeInv, MirrorInv
  <1> QED
    BY <1>1, TypeInit, TypeStep, PTL DEF Spec

-------------------------------------------------------------------------------
(* What one step does to a run and to one of its notifications, whatever the   *)
(* step is.                                                                    *)

RunDelta(c) ==
  /\ run[c].pc # "unused" => run'[c].op = run[c].op /\ run'[c].user = run[c].user
  /\ run'[c].pc = "check" =>
       \/ run'[c].asked = {}
       \/ run[c].pc = "check" /\ (run'[c].asked \subseteq run[c].asked \/ file = "live")

(* What getAccess finds of a candidate of a send, in the File row or later in  *)
(* the Share row.                                                              *)
Found(c, u) ==
  /\ run[c].pc = "check"
  /\ FileGrants(u) \/ (u \in run[c].asked /\ u \in shared \cap known[c])

NoteDelta(c, u) ==
  \/ note'[c][u] = note[c][u]
  \/ note[c][u] = "none" /\ note'[c][u] = "pref"
  \/ note[c][u] \in {"pref", "insert"} /\ note'[c][u] = "failed"
  \/ /\ note[c][u] = "pref" /\ note'[c][u] = "skipped"
     /\ Kind[run[c].op] \in muted[u]
  \/ /\ note[c][u] = "pref" /\ note'[c][u] = "insert"
     /\ ~(u \in known[c] /\ Kind[run[c].op] \in muted[u])
  \/ /\ note[c][u] = "insert" /\ note'[c][u] = "stored"
     /\ <<c, u>> \in inbox' /\ u \in known[c] /\ known' = known

RowDelta(c, u) ==
  /\ u \in mentions'[c] => (u \in mentions[c]) \/ Found(c, u)
  /\ u \in known'[c] => (u \in known[c]) \/ run[c].pc = "unused"
  /\ <<c, u>> \in inbox' => (<<c, u>> \in inbox /\ (u \in known[c] => u \in known'[c]))
                            \/ (note[c][u] = "insert" /\ u \in known[c] /\ known' = known)
  /\ <<c, u>> \in inbox => (<<c, u>> \in inbox') \/ (u \notin known'[c])

LEMMA RequestDelta ==
  ASSUME TypeInv, NEW q \in Runs, RequestStep(q), NEW c \in Runs, NEW u \in People
  PROVE  RunDelta(c) /\ NoteDelta(c, u) /\ RowDelta(c, u)
  <1>0. TypeOK /\ run \in [Runs -> RunType] /\ known \in [Runs -> SUBSET People]
    BY DEF TypeInv, TypeOK, RunType, Pcs
  <1>1. ASSUME NEW v \in Users, StartRequest(q, v)
        PROVE  RunDelta(c) /\ NoteDelta(c, u) /\ RowDelta(c, u)
    <2>1. run[q].pc = "unused" /\ (c # q => run'[c] = run[c])
          /\ (c # q => known'[c] = known[c]) /\ <<q, u>> \notin inbox
      BY <1>0, <1>1 DEF StartRequest, TypeInv, NoteInv, NoteOk
    <2> QED
      BY <1>1, <2>1 DEF StartRequest, RunDelta, NoteDelta, RowDelta, rows
  <1>2. ASSUME NEW pc \in Pcs \ {"check"}, Goes(q, pc)
        PROVE  RunDelta(c)
    BY <1>0, <1>2, GoesMoves DEF Moves, RunDelta
  <1>3. CASE FindRow(q) \/ WriteFails(q) \/ RequestError(q) \/ AnswerRequest(q)
    <2>1. PICK pc \in Pcs \ {"check"} : Goes(q, pc)
      BY <1>3 DEF FindRow, WriteFails, RequestError, AnswerRequest, Pcs
    <2>2. UNCHANGED <<note, rows, ids>>
      BY <1>3 DEF FindRow, WriteFails, RequestError, AnswerRequest
    <2> QED
      BY <1>2, <2>1, <2>2 DEF NoteDelta, RowDelta, rows, ids
  <1>4. CASE Invite(q) \/ UpdateRole(q) \/ Remove(q)
    <2>1. Wrote(q) /\ run[q].user \in People
      BY <1>0, <1>4 DEF Invite, UpdateRole, Remove, RunType
    <2>2. NoteMoves(q, run[q].user, "pref")
      BY <1>0, <2>1, NotesMoves DEF Wrote, Notes, Done
    <2>3. UNCHANGED <<rows, known>> /\ Goes(q, "notify")
      BY <2>1 DEF Wrote
    <2>4. note[q][u] = "none"
      BY <1>4 DEF Invite, UpdateRole, Remove, At, TypeInv, NoteInv, NoteOk
    <2> QED
      BY <1>2, <2>2, <2>3, <2>4 DEF NoteMoves, NoteDelta, RowDelta, rows, Pcs
  <1> QED
    BY <1>1, <1>3, <1>4 DEF RequestStep

LEMMA SendDelta ==
  ASSUME TypeInv, NEW s \in Runs, SendStep(s), NEW c \in Runs, NEW u \in People
  PROVE  RunDelta(c) /\ NoteDelta(c, u) /\ RowDelta(c, u)
  <1>0. TypeOK /\ run \in [Runs -> RunType] /\ known \in [Runs -> SUBSET People]
        /\ note \in [Runs -> [People -> Done]] /\ mentions \in [Runs -> SUBSET People]
    BY DEF TypeInv, TypeOK, RunType, Pcs, Done
  <1>1. ASSUME NEW v \in People, StartSend(s, v)
        PROVE  RunDelta(c) /\ NoteDelta(c, u) /\ RowDelta(c, u)
    <2>1. run[s].pc = "unused" /\ (c # s => run'[c] = run[c])
          /\ (c # s => known'[c] = known[c]) /\ <<s, u>> \notin inbox
      BY <1>0, <1>1 DEF StartSend, TypeInv, NoteInv, NoteOk
    <2> QED
      BY <1>1, <2>1 DEF StartSend, RunDelta, NoteDelta, RowDelta, rows
  <1>2. ASSUME NEW v \in People, MentionFile(s, v) \/ MentionShare(s, v)
        PROVE  RunDelta(c) /\ NoteDelta(c, u) /\ RowDelta(c, u)
    <2>1. RunDelta(c)
      <3>1. CASE c # s
        <4>1. run'[c] = run[c]
          BY <1>0, <1>2, <3>1 DEF MentionFile, MentionShare
        <4> QED
          BY <4>1 DEF RunDelta
      <3>2. CASE c = s
        <4>0. run[s] \in RunType /\ run[s].pc = "check"
          BY <1>0, <1>2 DEF MentionFile, MentionShare
        <4>1. CASE MentionFile(s, v)
          BY <1>0, <3>2, <4>0, <4>1 DEF MentionFile, RunDelta, RunType
        <4>2. CASE MentionShare(s, v)
          <5>1. /\ run'[s].op = run[s].op /\ run'[s].user = run[s].user
                /\ run'[s].asked = run[s].asked \ {v}
            BY <1>0, <4>0, <4>2 DEF MentionShare, RunType
          <5> QED
            BY <3>2, <4>0, <5>1 DEF RunDelta
        <4> QED
          BY <1>2, <4>1, <4>2
      <3> QED
        BY <3>1, <3>2
    <2>2. u \in mentions'[c] => (u \in mentions[c]) \/ Found(c, u)
      BY <1>0, <1>2 DEF MentionFile, MentionShare, Found
    <2> QED
      BY <1>2, <2>1, <2>2 DEF MentionFile, MentionShare, NoteDelta, RowDelta, ids
  <1>3. ASSUME NEW pc \in Pcs \ {"check"}, Goes(s, pc)
        PROVE  RunDelta(c)
    BY <1>0, <1>3, GoesMoves DEF Moves, RunDelta
  <1>4. CASE InsertMessage(s) \/ SendError(s) \/ Reply(s) \/ ReplyFailed(s)
    <2>1. PICK pc \in Pcs \ {"check"} : Goes(s, pc)
      BY <1>4 DEF InsertMessage, SendError, Reply, ReplyFailed, Pcs
    <2>2. UNCHANGED <<note, mentions, inbox, ids>>
      BY <1>4 DEF InsertMessage, SendError, Reply, ReplyFailed, rows
    <2> QED
      BY <1>3, <2>1, <2>2 DEF NoteDelta, RowDelta, ids
  <1>5. CASE ReadFileName(s)
    <2>1. PICK pc \in Pcs \ {"check"} : Goes(s, pc)
      BY <1>5 DEF ReadFileName, Pcs
    <2>3. note[s][u] = "none"
      BY <1>5 DEF ReadFileName, TypeInv, NoteInv, NoteOk
    <2>2. IF c = s THEN note'[s][u] \in {"none", "pref"} ELSE note'[c] = note[c]
      <3>1. CASE file = "gone"
        BY <1>5, <2>3, <3>1 DEF ReadFileName
      <3>2. CASE file # "gone"
        <4>1. note' = [note EXCEPT ![s] =
                         [v \in People |-> IF v \in Addressed(s) THEN "pref" ELSE "none"]]
          BY <1>5, <3>2 DEF ReadFileName
        <4> QED
          BY <1>0, <4>1
      <3> QED
        BY <3>1, <3>2
    <2>4. UNCHANGED <<rows, ids>>
      BY <1>5 DEF ReadFileName
    <2> QED
      BY <1>3, <2>1, <2>2, <2>3, <2>4 DEF NoteDelta, RowDelta, rows, ids
  <1> QED
    BY <1>1, <1>2, <1>4, <1>5 DEF SendStep

LEMMA OtherDelta ==
  ASSUME TypeInv, NEW c \in Runs, NEW u \in People,
         \/ \E v \in Users : ClerkDeletes(v) \/ UpsertUser(v) \/ DeleteUser(v)
         \/ \E v \in People : SetPreferences(v)
         \/ UpdateGeneralAccess \/ MoveTrash \/ PermanentDelete \/ Crash
         \/ \E d \in Runs, v \in People :
              NotePreference(d, v) \/ NoteInsert(d, v) \/ NoteError(d, v)
  PROVE  RunDelta(c) /\ NoteDelta(c, u) /\ RowDelta(c, u)
  <1>0. TypeOK /\ run \in [Runs -> RunType] /\ known \in [Runs -> SUBSET People]
        /\ note \in [Runs -> [People -> Done]]
    BY DEF TypeInv, TypeOK, RunType, Pcs, Done
  <1>1. ASSUME NEW v \in Users, DeleteUser(v)
        PROVE  RunDelta(c) /\ NoteDelta(c, u) /\ RowDelta(c, u)
    BY <1>0, <1>1 DEF DeleteUser, RunDelta, NoteDelta, RowDelta
  <1>2. CASE \/ \E v \in Users : ClerkDeletes(v) \/ UpsertUser(v)
             \/ \E v \in People : SetPreferences(v)
             \/ UpdateGeneralAccess \/ MoveTrash \/ PermanentDelete
    <2>1. UNCHANGED <<run, note, mentions, inbox, known>>
      BY <1>2 DEF ClerkDeletes, UpsertUser, SetPreferences, UpdateGeneralAccess, MoveTrash,
         PermanentDelete, rows, ids
    <2> QED
      BY <2>1 DEF RunDelta, NoteDelta, RowDelta
  <1>3. CASE Crash
    <2>1. run'[c] = run[c] \/ run'[c] = [run[c] EXCEPT !.pc = "failed"]
      BY <1>3 DEF Crash
    <2>2. \/ note'[c][u] = note[c][u]
          \/ note[c][u] \in {"pref", "insert"} /\ note'[c][u] = "failed"
      BY <1>3 DEF Crash
    <2>3. UNCHANGED <<rows, ids>>
      BY <1>3 DEF Crash
    <2>4. run[c] \in RunType
      BY <1>0
    <2>5. RunDelta(c)
      BY <2>1, <2>4 DEF RunDelta, RunType
    <2> QED
      BY <2>2, <2>3, <2>5 DEF NoteDelta, RowDelta, rows, ids
  <1>4. ASSUME NEW d \in Runs, NEW v \in People, NotePreference(d, v) \/ NoteError(d, v)
        PROVE  RunDelta(c) /\ NoteDelta(c, u) /\ RowDelta(c, u)
    <2>1. UNCHANGED <<run, rows, ids>>
      BY <1>4 DEF NotePreference, NoteError
    <2>2. PICK pc \in Done : /\ NoteMoves(d, v, pc) /\ note[d][v] \in {"pref", "insert"}
                             /\ \/ pc = "failed"
                                \/ /\ pc = "skipped" /\ note[d][v] = "pref"
                                   /\ Kind[run[d].op] \in muted[v]
                                \/ /\ pc = "insert" /\ note[d][v] = "pref"
                                   /\ ~(v \in known[d] /\ Kind[run[d].op] \in muted[v])
      BY <1>0, <1>4, NotesMoves DEF NotePreference, NoteError, Done
    <2> QED
      BY <2>1, <2>2 DEF NoteMoves, RunDelta, NoteDelta, RowDelta, rows, ids
  <1>5. ASSUME NEW d \in Runs, NEW v \in People, NoteInsert(d, v)
        PROVE  RunDelta(c) /\ NoteDelta(c, u) /\ RowDelta(c, u)
    <2>1. UNCHANGED <<run, mentions, known>> /\ note[d][v] = "insert"
      BY <1>5 DEF NoteInsert, ids
    <2>2. \/ NoteMoves(d, v, "failed") /\ inbox' = inbox
          \/ NoteMoves(d, v, "stored") /\ inbox' = inbox \cup {<<d, v>>} /\ v \in known[d]
      BY <1>0, <1>5, NotesMoves DEF NoteInsert, Done
    <2> QED
      BY <2>1, <2>2 DEF NoteMoves, RunDelta, NoteDelta, RowDelta
  <1> QED
    BY <1>1, <1>2, <1>3, <1>4, <1>5

LEMMA StepDelta ==
  ASSUME TypeInv, Step, NEW c \in Runs, NEW u \in People
  PROVE  RunDelta(c) /\ NoteDelta(c, u) /\ RowDelta(c, u)
  BY RequestDelta, SendDelta, OtherDelta DEF Step

-------------------------------------------------------------------------------
(* Who was asked: what a run and a notification did is backed by the access    *)
(* and the preferences there were while they did it.                           *)

AskOk(c, u) ==
  /\ Checks(c) => c \in opened
  /\ run[c].pc = "check" /\ u \in run[c].asked => c \in opened
  /\ Grants(c, u) => u \in granted[c]
  /\ u \in mentions[c] => u \in granted[c]
  /\ Asks(c, u, FALSE) => u \in wanted[c]
  /\ Asks(c, u, TRUE) => u \in spurned[c]
  /\ note[c][u] = "insert" => (u \in wanted[c]) \/ (u \notin known[c])
  /\ note[c][u] = "skipped" => u \in spurned[c]
  /\ note[c][u] = "stored" => (<<c, u>> \in inbox) \/ (u \notin known[c])
  /\ <<c, u>> \in inbox => u \in wanted[c] \cap known[c]

AskInv == \A c \in Runs, u \in People : AskOk(c, u)

LEMMA AskInit == Init => AskInv
  <1> SUFFICES ASSUME Init, NEW c \in Runs, NEW u \in People
               PROVE  AskOk(c, u)
    BY DEF AskInv
  <1>1. /\ run[c].pc = "unused" /\ note[c][u] = "none" /\ mentions[c] = {}
        /\ <<c, u>> \notin inbox
    BY DEF Init, Unused
  <1> QED
    BY <1>1 DEF AskOk, Asks, Checks, Grants

LEMMA RememberAsk ==
  ASSUME Remember, NEW c \in Runs, NEW u \in People
  PROVE  /\ Checks(c)' => c \in opened'
         /\ Grants(c, u)' => u \in granted'[c]
         /\ Asks(c, u, FALSE)' => u \in wanted'[c]
         /\ Asks(c, u, TRUE)' => u \in spurned'[c]
         /\ c \in opened => c \in opened'
         /\ u \in granted[c] => u \in granted'[c]
         /\ u \in wanted[c] => u \in wanted'[c]
         /\ u \in spurned[c] => u \in spurned'[c]
  <1>1. granted'[c] = granted[c] \cup {v \in People : Grants(c, v)}'
    BY DEF Remember
  <1>0. opened' = opened \cup {d \in Runs : Checks(d)}'
    BY DEF Remember
  <1>2. wanted'[c] = wanted[c] \cup {v \in People : Asks(c, v, FALSE)}'
    BY DEF Remember
  <1>3. spurned'[c] = spurned[c] \cup {v \in People : Asks(c, v, TRUE)}'
    BY DEF Remember
  <1> QED
    BY <1>0, <1>1, <1>2, <1>3

LEMMA AskStep ==
  ASSUME TypeInv, AskInv, [Next]_vars
  PROVE  AskInv'
  <1>1. CASE UNCHANGED vars
    <2>1. UNCHANGED <<muted, shared, anyone, file, mentions, inbox, run, note, known,
                      opened, granted, wanted, spurned>>
      BY <1>1 DEF vars, facts, rows, ids, history
    <2> SUFFICES ASSUME NEW c \in Runs, NEW u \in People
                 PROVE  AskOk(c, u)'
      BY DEF AskInv
    <2>2. AskOk(c, u)
      BY DEF AskInv
    <2>3. /\ Checks(c)' = Checks(c) /\ Grants(c, u)' = Grants(c, u)
          /\ Asks(c, u, FALSE)' = Asks(c, u, FALSE) /\ Asks(c, u, TRUE)' = Asks(c, u, TRUE)
      BY <2>1 DEF Checks, Grants, FileGrants, Asks
    <2> QED
      BY <2>1, <2>2, <2>3 DEF AskOk
  <1>2. CASE Next
    <2> SUFFICES ASSUME NEW c \in Runs, NEW u \in People
                 PROVE  AskOk(c, u)'
      BY DEF AskInv
    <2>1. RunDelta(c) /\ NoteDelta(c, u) /\ RowDelta(c, u)
      BY <1>2, StepDelta DEF Next
    <2>2. AskOk(c, u) /\ NoteOk(c, u)
      BY DEF AskInv, TypeInv, NoteInv
    <2>3. /\ Checks(c)' => c \in opened'
          /\ Grants(c, u)' => u \in granted'[c]
          /\ Asks(c, u, FALSE)' => u \in wanted'[c]
          /\ Asks(c, u, TRUE)' => u \in spurned'[c]
          /\ c \in opened => c \in opened'
          /\ u \in granted[c] => u \in granted'[c]
          /\ u \in wanted[c] => u \in wanted'[c]
          /\ u \in spurned[c] => u \in spurned'[c]
      BY <1>2, RememberAsk DEF Next
    <2>4. u \in mentions'[c] => u \in granted'[c]
      <3>1. Found(c, u) => Grants(c, u)
        BY <2>2 DEF AskOk, Found, Grants
      <3> QED
        BY <2>1, <2>2, <2>3, <3>1 DEF RowDelta, AskOk
    <2>5. (run[c].pc = "check" /\ u \in run[c].asked)' => c \in opened'
      BY <2>1, <2>2, <2>3 DEF RunDelta, AskOk, Checks
    <2>6. /\ note'[c][u] = "insert" => (u \in wanted'[c]) \/ (u \notin known'[c])
          /\ note'[c][u] = "skipped" => u \in spurned'[c]
      BY <2>1, <2>2, <2>3 DEF NoteDelta, RowDelta, AskOk, NoteOk, Asks
    <2>7. note'[c][u] = "stored" => (<<c, u>> \in inbox') \/ (u \notin known'[c])
      BY <2>1, <2>2 DEF NoteDelta, RowDelta, AskOk, NoteOk
    <2>8. <<c, u>> \in inbox' => u \in wanted'[c] \cap known'[c]
      BY <2>1, <2>2, <2>3 DEF RowDelta, AskOk
    <2> QED
      BY <2>3, <2>4, <2>5, <2>6, <2>7, <2>8 DEF AskOk
  <1> QED
    BY <1>1, <1>2

(* Whatever list of mentions a client sends, a message mentions and tells only *)
(* users with a ground for access while the send checked it: a live file that  *)
(* was theirs or open to anyone, or a share held once the file had been live.  *)
THEOREM MentionsOnlyGranted == Spec => []MentionsWereGranted
  <1>1. TypeInv /\ AskInv => MentionsWereGranted
    <2> SUFFICES ASSUME TypeInv, AskInv
                 PROVE  MentionsWereGranted
      OBVIOUS
    <2>1. \A c \in Runs : mentions[c] \subseteq granted[c]
      BY DEF AskInv, AskOk, TypeInv, TypeOK
    <2>2. ASSUME NEW c \in Runs, NEW u \in People, <<c, u>> \in inbox, run[c].op = "chat"
          PROVE  u \in granted[c]
      BY <2>1, <2>2 DEF TypeInv, NoteInv, NoteOk, Addressed
    <2>3. inbox \subseteq Runs \X People /\ stored \subseteq Runs
      BY DEF TypeInv, TypeOK, Present, People
    <2> QED
      BY <2>1, <2>2, <2>3 DEF MentionsWereGranted
  <1> QED
    BY <1>1, TypeInit, TypeStep, AskInit, AskStep, PTL DEF Spec

(* A notification that is kept was wanted while its recipient was asked.       *)
THEOREM SilenceIsKept == Spec => []MutedIsSilent
  <1>1. TypeInv /\ AskInv => MutedIsSilent
    <2> SUFFICES ASSUME TypeInv, AskInv
                 PROVE  MutedIsSilent
      OBVIOUS
    <2>1. inbox \subseteq Runs \X People
      BY DEF TypeInv, TypeOK, Present, People
    <2>2. \A c \in Runs, u \in People : <<c, u>> \in inbox => u \in wanted[c] \cap known[c]
      BY DEF AskInv, AskOk
    <2> QED
      BY <2>1, <2>2 DEF MutedIsSilent
  <1> QED
    BY <1>1, TypeInit, TypeStep, AskInit, AskStep, PTL DEF Spec

-------------------------------------------------------------------------------
(* What an answer promises is true by the time it is given: the message is     *)
(* stored before its notifications start, and all of them end well before the  *)
(* answer says ok.                                                             *)

Well == {"stored", "skipped"}

AnswerOk(c) ==
  /\ run[c].op \in Ops /\ run[c].pc = "ok" => note[c][run[c].user] \in Well
  /\ run[c].op = "chat" /\ run[c].pc \in {"file", "notify", "reply", "ok"} =>
       c \in stored \/ file = "gone" \/ run[c].user \notin known[c]
  /\ run[c].pc = "reply" => mentions[c] = {} \/ file = "gone"
  /\ run[c].op = "chat" /\ run[c].pc = "notify" =>
       \A u \in Addressed(c) : note[c][u] # "none"
  /\ run[c].op = "chat" /\ run[c].pc = "ok" /\ file # "gone" =>
       \A u \in Addressed(c) : note[c][u] \in Well

AnswerInv == \A c \in Runs : AnswerOk(c)

LEMMA AnswerInit == Init => AnswerInv
  BY DEF Init, AnswerInv, AnswerOk, Unused, Ops

(* An answered notification keeps its answer. *)
LEMMA WellStays ==
  ASSUME TypeInv, Step, NEW c \in Runs, NEW u \in People
  PROVE  /\ note[c][u] \in Well => note'[c][u] \in Well
         /\ note[c][u] # "none" => note'[c][u] # "none"
  BY StepDelta DEF NoteDelta, Well

Same(c) == /\ run'[c].op = run[c].op /\ run'[c].user = run[c].user /\ run'[c].pc = run[c].pc
           /\ mentions'[c] = mentions[c]

Stays(c) == /\ file = "gone" => file' = "gone"
            /\ c \in stored => c \in stored' \/ file' = "gone" \/ run[c].user \notin known'[c]

LEMMA SameAnswer ==
  ASSUME TypeInv, Step, NEW c \in Runs, AnswerOk(c), Same(c), Stays(c)
  PROVE  AnswerOk(c)'
  <1>1. run[c].user \in People /\ mentions[c] \in SUBSET People
    BY DEF TypeInv, TypeOK
  <1>2. run[c].pc # "unused" /\ run[c].user \in known'[c] => run[c].user \in known[c]
    BY <1>1, StepDelta DEF RowDelta
  <1>3. Addressed(c)' = Addressed(c) /\ Addressed(c) \subseteq People
    BY <1>1 DEF Same, Addressed
  <1>4. \A u \in People : /\ note[c][u] \in Well => note'[c][u] \in Well
                          /\ note[c][u] # "none" => note'[c][u] # "none"
    BY WellStays
  <1> QED
    BY <1>1, <1>2, <1>3, <1>4 DEF AnswerOk, Same, Stays

LEMMA AnswerStep ==
  ASSUME TypeInv, AnswerInv, [Next]_vars
  PROVE  AnswerInv'
  <1>1. CASE UNCHANGED vars
    BY <1>1 DEF vars, mirror, facts, rows, ids, history, AnswerInv, AnswerOk, Addressed
  <1>2. CASE Next
    <2> SUFFICES ASSUME NEW c \in Runs
                 PROVE  AnswerOk(c)'
      BY DEF AnswerInv
    <2>0. AnswerOk(c) /\ Step /\ TypeOK /\ run \in [Runs -> RunType]
      BY <1>2 DEF AnswerInv, Next, TypeInv, TypeOK, RunType, Pcs
    <2>1. CASE Same(c) /\ Stays(c)
      BY <2>0, <2>1, SameAnswer
    <2>2. CASE run'[c].pc \in {"unused", "find", "write", "check", "failed"}
      BY <2>2 DEF AnswerOk
    <2>3. CASE RequestStep(c)
      <3>1. CASE \E u \in Users : StartRequest(c, u)
        <4>1. run'[c].pc = "find"
          BY <2>0, <3>1 DEF StartRequest, Unused
        <4> QED
          BY <4>1, <2>2
      <3>2. CASE FindRow(c) \/ WriteFails(c) \/ RequestError(c)
        <4>1. run'[c].pc \in {"write", "failed"}
          BY <2>0, <3>2 DEF FindRow, WriteFails, RequestError, Goes, RunType
        <4> QED
          BY <4>1, <2>2
      <3>3. CASE Invite(c) \/ UpdateRole(c) \/ Remove(c)
        <4>1. run[c].op \in Ops /\ Moves(c, "notify")
          BY <2>0, <3>3, GoesMoves DEF Invite, UpdateRole, Remove, Wrote, At, Ops, Pcs
        <4> QED
          BY <4>1 DEF AnswerOk, Moves, Ops
      <3>4. CASE AnswerRequest(c)
        <4>1. run[c].op \in Ops
          BY <2>0, <3>4, KindDomain DEF AnswerRequest, RunType, TypeInv, RunInv
        <4>2. CASE Goes(c, "failed")
          <5>1. Moves(c, "failed")
            BY <2>0, <4>2, GoesMoves DEF Pcs
          <5> QED
            BY <5>1, <2>2 DEF Moves
        <4>3. CASE Goes(c, "ok") /\ note[c][run[c].user] \in Well
          <5>1. Moves(c, "ok") /\ note' = note
            BY <2>0, <3>4, <4>3, GoesMoves DEF AnswerRequest, Pcs
          <5> QED
            BY <4>1, <4>3, <5>1 DEF AnswerOk, Moves, Ops
        <4> QED
          BY <3>4, <4>2, <4>3 DEF AnswerRequest, Well
      <3> QED
        BY <2>3, <3>1, <3>2, <3>3, <3>4 DEF RequestStep
    <2>4. CASE SendStep(c)
      <3>1. CASE \E u \in People : StartSend(c, u) \/ MentionFile(c, u) \/ MentionShare(c, u)
        <4>1. run'[c].pc = "check"
          BY <2>0, <3>1 DEF StartSend, MentionFile, MentionShare, RunType
        <4> QED
          BY <4>1, <2>2
      <3>2. CASE InsertMessage(c)
        <4>1. CASE Goes(c, "failed")
          <5>1. Moves(c, "failed")
            BY <2>0, <4>1, GoesMoves DEF Pcs
          <5> QED
            BY <5>1, <2>2 DEF Moves
        <4>2. CASE c \in stored' /\ Goes(c, IF mentions[c] = {} THEN "reply" ELSE "file")
          <5>1. run[c].op = "chat" /\ mentions' = mentions
            BY <3>2 DEF InsertMessage, TypeInv, RunInv
          <5>2. PICK pc \in {"reply", "file"} : Moves(c, pc) /\ (pc = "reply" => mentions[c] = {})
            BY <2>0, <4>2, GoesMoves DEF Pcs
          <5> QED
            BY <4>2, <5>1, <5>2 DEF AnswerOk, Moves, Ops
        <4> QED
          BY <3>2, <4>1, <4>2 DEF InsertMessage
      <3>3. CASE ReadFileName(c)
        <4>0. run[c].op = "chat" /\ run[c].pc = "file" /\ UNCHANGED <<file, stored, mentions, known>>
          BY <3>3 DEF ReadFileName, TypeInv, RunInv, facts, rows, ids
        <4>1. CASE file = "gone"
          <5>1. Moves(c, "reply")
            BY <2>0, <3>3, <4>1, GoesMoves DEF ReadFileName, Pcs
          <5> QED
            BY <4>0, <4>1, <5>1 DEF AnswerOk, Moves, Ops
        <4>2. CASE file # "gone"
          <5>1. Moves(c, "notify")
            BY <2>0, <3>3, <4>2, GoesMoves DEF ReadFileName, Pcs
          <5>2. \A u \in People : u \in Addressed(c) => note'[c][u] = "pref"
            BY <2>0, <3>3, <4>2 DEF ReadFileName, TypeOK
          <5>3. Addressed(c)' = Addressed(c) /\ Addressed(c) \subseteq People
            BY <2>0, <4>0, <5>1 DEF Moves, Addressed, TypeOK
          <5> QED
            BY <2>0, <4>0, <5>1, <5>2, <5>3 DEF AnswerOk, Moves, Ops
        <4> QED
          BY <4>1, <4>2
      <3>4. CASE SendError(c) \/ ReplyFailed(c)
        <4>1. Moves(c, "failed")
          BY <2>0, <3>4, GoesMoves DEF SendError, ReplyFailed, Pcs
        <4> QED
          BY <4>1, <2>2 DEF Moves
      <3>5. CASE Reply(c)
        <4>0. UNCHANGED <<file, stored, mentions, known, note>> /\ run[c].op = "chat"
          BY <3>5 DEF Reply, facts, rows, ids, At, TypeInv, RunInv
        <4>1. Moves(c, "ok")
          BY <2>0, <3>5, GoesMoves DEF Reply, Pcs
        <4>2. Addressed(c)' = Addressed(c) /\ Addressed(c) \subseteq People
          BY <2>0, <4>0, <4>1 DEF Moves, Addressed, TypeOK
        <4>3. CASE run[c].pc = "reply"
          BY <2>0, <4>0, <4>1, <4>2, <4>3 DEF AnswerOk, Moves, Ops, Addressed
        <4>4. CASE run[c].pc = "notify"
          <5>1. \A u \in People : note[c][u] \in {"none", "stored", "skipped"}
            BY <3>5, <4>4 DEF Reply
          <5>2. file # "gone" => \A u \in Addressed(c) : note[c][u] \in Well
            BY <2>0, <4>0, <4>2, <4>4, <5>1 DEF AnswerOk, Well
          <5> QED
            BY <2>0, <4>0, <4>1, <4>2, <4>4, <5>2 DEF AnswerOk, Moves, Ops
        <4> QED
          BY <3>5, <4>3, <4>4 DEF Reply, At
      <3> QED
        BY <2>4, <3>1, <3>2, <3>3, <3>4, <3>5 DEF SendStep
    <2>5. ASSUME NEW q \in Runs, q # c, RequestStep(q)
          PROVE  Same(c) /\ Stays(c)
      <3>1. run'[c] = run[c]
        BY <2>0, <2>5 DEF RequestStep, StartRequest, FindRow, WriteFails, Invite, UpdateRole,
           Remove, Wrote, RequestError, AnswerRequest, Goes
      <3>2. UNCHANGED <<file, mentions, stored>>
        BY <2>5 DEF RequestStep, StartRequest, FindRow, WriteFails, Invite, UpdateRole,
           Remove, Wrote, RequestError, AnswerRequest, facts, rows
      <3> QED
        BY <3>1, <3>2 DEF Same, Stays
    <2>6. ASSUME NEW s \in Runs, s # c, SendStep(s)
          PROVE  Same(c) /\ Stays(c)
      <3>1. run'[c] = run[c]
        BY <2>0, <2>6 DEF SendStep, StartSend, MentionFile, MentionShare, InsertMessage,
           ReadFileName, SendError, Reply, ReplyFailed, Goes
      <3>2. mentions'[c] = mentions[c] /\ file' = file /\ stored \subseteq stored'
        BY <2>0, <2>6 DEF SendStep, StartSend, MentionFile, MentionShare, InsertMessage,
           ReadFileName, SendError, Reply, ReplyFailed, facts, rows, TypeOK
      <3> QED
        BY <3>1, <3>2 DEF Same, Stays
    <2>7. CASE Crash
      <3>1. CASE run[c].pc \in {"unused", "ok"}
        <4>1. Same(c) /\ Stays(c)
          BY <2>7, <3>1 DEF Crash, Same, Stays, facts, rows
        <4> QED
          BY <4>1, <2>1
      <3>2. CASE run[c].pc \notin {"unused", "ok"}
        <4>1. run'[c].pc = "failed"
          BY <2>0, <2>7, <3>2 DEF Crash, RunType
        <4> QED
          BY <4>1, <2>2
      <3> QED
        BY <3>1, <3>2
    <2>8. CASE \/ \E u \in Users : ClerkDeletes(u) \/ UpsertUser(u) \/ DeleteUser(u)
               \/ \E u \in People : SetPreferences(u)
               \/ UpdateGeneralAccess \/ MoveTrash \/ PermanentDelete
               \/ \E d \in Runs, u \in People :
                    NotePreference(d, u) \/ NoteInsert(d, u) \/ NoteError(d, u)
      <3>1. UNCHANGED <<run, mentions>>
        BY <2>8 DEF ClerkDeletes, UpsertUser, DeleteUser, SetPreferences, UpdateGeneralAccess,
           MoveTrash, PermanentDelete, NotePreference, NoteInsert, NoteError, rows
      <3>2. ASSUME NEW u \in Users, DeleteUser(u)
            PROVE  Stays(c)
        BY <3>2 DEF DeleteUser, Stays
      <3>3. ASSUME MoveTrash \/ PermanentDelete
            PROVE  Stays(c)
        BY <3>3 DEF MoveTrash, PermanentDelete, Stays, rows
      <3>4. ASSUME \/ \E u \in Users : ClerkDeletes(u) \/ UpsertUser(u)
                   \/ \E u \in People : SetPreferences(u)
                   \/ UpdateGeneralAccess
                   \/ \E d \in Runs, u \in People :
                        NotePreference(d, u) \/ NoteInsert(d, u) \/ NoteError(d, u)
            PROVE  Stays(c)
        <4>1. UNCHANGED <<file, stored>>
          BY <3>4 DEF ClerkDeletes, UpsertUser, SetPreferences, UpdateGeneralAccess,
             NotePreference, NoteInsert, NoteError, facts, rows
        <4> QED
          BY <4>1 DEF Stays
      <3>5. Same(c)
        BY <3>1 DEF Same
      <3>6. Stays(c)
        BY <2>8, <3>2, <3>3, <3>4
      <3> QED
        BY <3>5, <3>6, <2>1
    <2> QED
      BY <2>0, <2>1, <2>3, <2>4, <2>5, <2>6, <2>7, <2>8 DEF Step
  <1> QED
    BY <1>1, <1>2

(* An answer that says ok means what it says: everyone concerned has been told *)
(* by then, and a message is stored.                                           *)
THEOREM AnswersAreTrue == Spec => []OkMeansTold
  <1>1. TypeInv /\ AskInv /\ AnswerInv => OkMeansTold
    <2> SUFFICES ASSUME TypeInv, AskInv, AnswerInv, NEW c \in Runs, run[c].pc = "ok"
                 PROVE  /\ run[c].op # "chat" => Told(c, run[c].user)
                        /\ run[c].op = "chat" /\ file # "gone" /\ run[c].user \in known[c] =>
                             c \in stored /\ \A u \in Addressed(c) : Told(c, u)
      BY DEF OkMeansTold
    <2>1. \A u \in People : note[c][u] \in Well => Told(c, u)
      BY DEF AskInv, AskOk, Told, Well
    <2>2. run[c].op # "chat" => run[c].op \in Ops /\ run[c].user \in People
      BY KindDomain DEF TypeInv, TypeOK, RunInv
    <2>3. Addressed(c) \subseteq People
      BY DEF Addressed, TypeInv, TypeOK
    <2>4. AnswerOk(c)
      BY DEF AnswerInv
    <2> QED
      BY <2>1, <2>2, <2>3, <2>4 DEF AnswerOk
  <1> QED
    BY <1>1, TypeInit, TypeStep, AskInit, AskStep, AnswerInit, AnswerStep, PTL DEF Spec

-------------------------------------------------------------------------------
(* Removals: a request that wrote one leaves no share to remove until the user *)
(* has been invited again.                                                     *)

Invited(u) == \E r \in wrote : run[r].op = "invite" /\ run[r].user = u

Removed(u) == {q \in wrote : run[q].op = "remove" /\ run[q].user = u}

RemovalInv ==
  \A u \in Users : \/ Invited(u)
                   \/ Removed(u) = {}
                   \/ u \notin shared /\ \A p, q \in Removed(u) : p = q

LEMMA RemovalInit == Init => RemovalInv
  BY DEF Init, RemovalInv, Removed

(* A run that wrote stays what it is. *)
LEMMA WroteStays ==
  ASSUME TypeInv, Step
  PROVE  \A q \in wrote : run'[q].op = run[q].op /\ run'[q].user = run[q].user
  <1> SUFFICES ASSUME NEW q \in wrote
               PROVE  run'[q].op = run[q].op /\ run'[q].user = run[q].user
    OBVIOUS
  <1>1. q \in Runs /\ run[q].pc # "unused" /\ Owner \in People
    BY DEF TypeInv, TypeOK, RunInv, People
  <1> QED
    BY <1>1, StepDelta DEF RunDelta

LEMMA RemovalStep ==
  ASSUME TypeInv, RemovalInv, [Next]_vars
  PROVE  RemovalInv'
  <1>1. CASE UNCHANGED vars
    BY <1>1 DEF vars, facts, history, RemovalInv, Invited, Removed
  <1>2. CASE Next
    <2>0. Step /\ \A q \in wrote : run'[q].op = run[q].op /\ run'[q].user = run[q].user
      BY <1>2, WroteStays DEF Next
    <2> SUFFICES ASSUME NEW u \in Users
                 PROVE  \/ Invited(u)'
                        \/ Removed(u)' = {}
                        \/ (u \notin shared /\ \A p, q \in Removed(u) : p = q)'
      BY DEF RemovalInv
    <2>1. \/ Invited(u)
          \/ Removed(u) = {}
          \/ u \notin shared /\ \A p, q \in Removed(u) : p = q
      BY DEF RemovalInv
    <2>2. CASE wrote' = wrote /\ shared' \subseteq shared
      <3>1. Removed(u)' = Removed(u) /\ (Invited(u) => Invited(u)')
        BY <2>0, <2>2 DEF Removed, Invited
      <3> QED
        BY <2>1, <2>2, <3>1
    <2>3. ASSUME NEW q \in Runs, Invite(q) \/ UpdateRole(q) \/ Remove(q)
          PROVE  \/ Invited(u)'
                 \/ Removed(u)' = {}
                 \/ (u \notin shared /\ \A p, r \in Removed(u) : p = r)'
      <3>1. wrote' = wrote \cup {q} /\ Moves(q, "notify")
        BY <2>3, GoesMoves DEF Invite, UpdateRole, Remove, Wrote, TypeInv, Pcs
      <3>2. Invited(u) => Invited(u)'
        BY <2>0, <3>1 DEF Invited
      <3>3. CASE Invite(q)
        <4>1. CASE run[q].user = u
          BY <3>1, <3>3, <4>1 DEF Invite, At, Invited, Moves
        <4>2. CASE run[q].user # u
          <5>1. Removed(u)' = Removed(u) /\ (u \in shared' => u \in shared)
            BY <2>0, <3>1, <3>3, <4>2 DEF Invite, At, Removed, Moves
          <5> QED
            BY <2>1, <3>2, <5>1
        <4> QED
          BY <4>1, <4>2
      <3>4. CASE UpdateRole(q)
        <4>1. Removed(u)' = Removed(u) /\ shared' = shared
          BY <2>0, <3>1, <3>4 DEF UpdateRole, At, Removed, Moves
        <4> QED
          BY <2>1, <3>2, <4>1
      <3>5. CASE Remove(q)
        <4>1. CASE run[q].user = u
          <5>1. u \in shared
            BY <3>5, <4>1 DEF Remove, At, Writable, Finds, TypeInv, RunInv
          <5>2. Invited(u) \/ Removed(u) = {}
            BY <2>1, <5>1
          <5>3. Removed(u) = {} => Removed(u)' = {q}
            BY <2>0, <3>1, <3>5, <4>1 DEF Remove, At, Removed, Moves
          <5>4. u \notin shared'
            BY <3>5, <4>1 DEF Remove
          <5> QED
            BY <3>2, <5>2, <5>3, <5>4
        <4>2. CASE run[q].user # u
          <5>1. Removed(u)' = Removed(u) /\ (u \in shared' => u \in shared)
            BY <2>0, <3>1, <3>5, <4>2 DEF Remove, At, Removed, Moves
          <5> QED
            BY <2>1, <3>2, <5>1
        <4> QED
          BY <4>1, <4>2
      <3> QED
        BY <2>3, <3>3, <3>4, <3>5
    <2>4. (wrote' = wrote /\ shared' \subseteq shared)
          \/ \E q \in Runs : Invite(q) \/ UpdateRole(q) \/ Remove(q)
      <3>1. ASSUME NEW q \in Runs, RequestStep(q)
            PROVE  (wrote' = wrote /\ shared' \subseteq shared)
                   \/ Invite(q) \/ UpdateRole(q) \/ Remove(q)
        BY <3>1 DEF RequestStep, StartRequest, FindRow, WriteFails, RequestError,
           AnswerRequest, facts
      <3>2. ASSUME NEW s \in Runs, SendStep(s)
            PROVE  wrote' = wrote /\ shared' = shared
        BY <3>2 DEF SendStep, StartSend, MentionFile, MentionShare, InsertMessage,
           ReadFileName, SendError, Reply, ReplyFailed, facts
      <3>3. ASSUME NEW v \in Users, ClerkDeletes(v) \/ UpsertUser(v) \/ DeleteUser(v)
            PROVE  wrote' = wrote /\ shared' \subseteq shared
        BY <3>3 DEF ClerkDeletes, UpsertUser, DeleteUser, facts
      <3>4. CASE (\E v \in People : SetPreferences(v)) \/ UpdateGeneralAccess \/ MoveTrash
                 \/ PermanentDelete \/ Crash
        BY <3>4 DEF SetPreferences, UpdateGeneralAccess, MoveTrash, PermanentDelete, Crash, facts
      <3>5. ASSUME NEW d \in Runs, NEW v \in People,
                   NotePreference(d, v) \/ NoteInsert(d, v) \/ NoteError(d, v)
            PROVE  wrote' = wrote /\ shared' = shared
        BY <3>5 DEF NotePreference, NoteInsert, NoteError, facts
      <3> QED
        BY <2>0, <3>1, <3>2, <3>3, <3>4, <3>5 DEF Step
    <2> QED
      BY <2>2, <2>3, <2>4
  <1> QED
    BY <1>1, <1>2

(* Of requests that race to remove a share, one tells its user.                *)
THEOREM RemovalIsToldOnce == Spec => []RemovalToldOnce
  <1>1. TypeInv /\ RemovalInv => RemovalToldOnce
    <2> SUFFICES ASSUME TypeInv, RemovalInv, NEW u \in Users,
                        NEW p \in Removals(u), NEW q \in Removals(u), p # q
                 PROVE  Invited(u)
      BY DEF RemovalToldOnce, Invited
    <2>1. \A r \in Removals(u) : r \in Removed(u)
      <3> SUFFICES ASSUME NEW r \in Removals(u)
                   PROVE  r \in Removed(u)
        OBVIOUS
      <3>1. r \in Runs /\ u \in People /\ run[r].op = "remove" /\ <<r, u>> \in inbox
        BY DEF Removals, People
      <3>2. NoteOk(r, u)
        BY <3>1 DEF TypeInv, NoteInv
      <3> QED
        BY <3>1, <3>2 DEF NoteOk, Ops, Removed
    <2> QED
      BY <2>1 DEF RemovalInv
  <1> QED
    BY <1>1, TypeInit, TypeStep, RemovalInit, RemovalStep, PTL DEF Spec
===============================================================================
