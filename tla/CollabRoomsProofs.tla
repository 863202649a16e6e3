--------------------------- MODULE CollabRoomsProofs --------------------------
(* What CollabRooms guarantees for any number of files, tabs, connections and  *)
(* handler runs, and any cap on a call.                                        *)
EXTENDS CollabRooms, FiniteSetTheorems, TLAPS

(* The steps that are a connection's, a join's and a call's. *)
SocketStep(s) == \/ Connect(s) \/ Disconnect(s) \/ EvictionArrives(s) \/ CleanupFails(s)
                 \/ \E f \in Files : Cleanup(s, f) \/ LeaveVoice(s, f)
JoinStep(j)   == \/ \E s \in Sockets, f \in Files : StartJoin(j, s, f)
                 \/ JoinDenied(j) \/ JoinLeaveOther(j) \/ JoinEnter(j)
                 \/ JoinSession(j)
VoiceStep(v)  == \/ \E s \in Sockets, f \in Files : StartVoice(v, s, f)
                 \/ VoiceDenied(v) \/ VoiceEnter(v)

LEMMA StepsOfNext ==
  Next <=> \/ \E s \in Sockets : SocketStep(s)
           \/ \E j \in Joins : JoinStep(j)
           \/ \E v \in Voices : VoiceStep(v)
  BY DEF Next, SocketStep, JoinStep, VoiceStep

-------------------------------------------------------------------------------
(* Type correctness.  A run that is under way has a socket and a file.         *)

Under(run) == run.sock \in Sockets /\ run.file \in Files

RunsInv ==
  /\ \A j \in Joins : join[j].pc \in {"access", "loop", "joined"} => Under(join[j])
  /\ \A v \in Voices : voice[v].pc = "floor" => Under(voice[v])

TypeInv == TypeOK /\ RunsInv

LEMMA TypeInit == Init => TypeInv
  BY RoomsAssumption DEF Init, TypeInv, TypeOK, RunsInv, Runs, NoRun, Open

LEMMA CloseType ==
  ASSUME TypeOK, NEW s \in Sockets, Close(s)
  PROVE  /\ conn' \in [Sockets -> {"unborn", "open", "closed"}]
         /\ rooms' \in [Sockets -> SUBSET Files]
         /\ leaving' \in [Sockets -> SUBSET Files]
         /\ \A q \in Sockets : /\ leaving'[q] # {} => conn'[q] = "closed"
                               /\ rooms'[q] # {} => conn'[q] = "open"
  BY DEF Close, TypeOK, Open

LEMMA SocketStepType ==
  ASSUME TypeInv, NEW s \in Sockets, SocketStep(s)
  PROVE  TypeInv'
  <1>1. CASE Connect(s)
    <2>1. 1 + Cardinality({q \in Sockets : conn[q] # "unborn"}) \in Nat
      <3>1. IsFiniteSet({q \in Sockets : conn[q] # "unborn"})
        BY RoomsAssumption, FS_Subset
      <3> QED
        BY <3>1, FS_CardinalityType
    <2> QED
      BY <1>1, <2>1 DEF Connect, TypeInv, TypeOK, RunsInv, Open
  <1>2. CASE Disconnect(s)
    <2>1. Close(s)
      BY <1>2 DEF Disconnect
    <2> QED
      BY <1>2, <2>1, CloseType DEF Disconnect, Close, TypeInv, TypeOK, RunsInv, Open
  <1>3. CASE EvictionArrives(s)
    <2>1. CASE Open(s)
      <3>1. Close(s)
        BY <1>3, <2>1 DEF EvictionArrives
      <3> QED
        BY <1>3, <3>1, CloseType DEF EvictionArrives, Close, TypeInv, TypeOK, RunsInv, Open
    <2>2. CASE ~Open(s)
      BY <1>3, <2>2 DEF EvictionArrives, TypeInv, TypeOK, RunsInv, Open
    <2> QED
      BY <2>1, <2>2
  <1>4. CASE CleanupFails(s)
    BY <1>4, RoomsAssumption DEF CleanupFails, TypeInv, TypeOK, RunsInv, Open
  <1>5. ASSUME NEW f \in Files, Cleanup(s, f)
        PROVE  TypeInv'
    <2>1. session' \in [Files -> [Tabs -> Sockets \cup {NoSocket}]]
      BY <1>5 DEF Cleanup, TypeInv, TypeOK
    <2> QED
      BY <1>5, <2>1 DEF Cleanup, TypeInv, TypeOK, RunsInv, Open
  <1>6. ASSUME NEW f \in Files, LeaveVoice(s, f)
        PROVE  TypeInv'
    BY <1>6 DEF LeaveVoice, TypeInv, TypeOK, RunsInv, Open
  <1> QED
    BY <1>1, <1>2, <1>3, <1>4, <1>5, <1>6 DEF SocketStep

LEMMA JoinStepType ==
  ASSUME TypeInv, NEW j \in Joins, JoinStep(j)
  PROVE  TypeInv'
  <1>1. ASSUME NEW s \in Sockets, NEW f \in Files, StartJoin(j, s, f)
        PROVE  TypeInv'
    BY <1>1 DEF StartJoin, TypeInv, TypeOK, RunsInv, Runs, Under, Open
  <1>2. CASE JoinDenied(j)
    BY <1>2 DEF JoinDenied, TypeInv, TypeOK, RunsInv, Runs, Under, Finished, Open
  <1>3. CASE JoinLeaveOther(j)
    <2>1. Under(join[j])
      BY <1>3 DEF JoinLeaveOther, TypeInv, RunsInv
    <2>2. /\ rooms' \in [Sockets -> SUBSET Files]
          /\ \A s \in Sockets : rooms'[s] # {} => Open(s)
      BY <1>3, <2>1 DEF JoinLeaveOther, TypeInv, TypeOK, Under
    <2>3. /\ join' \in [Joins -> Runs]
          /\ \A i \in Joins : /\ join'[i].sock = join[i].sock /\ join'[i].file = join[i].file
                              /\ i # j => join'[i] = join[i]
      BY <1>3 DEF JoinLeaveOther, TypeInv, TypeOK, Runs
    <2> QED
      BY <1>3, <2>1, <2>2, <2>3 DEF JoinLeaveOther, TypeInv, TypeOK, RunsInv, Under, Open
  <1>4. CASE JoinEnter(j)
    <2>1. Under(join[j])
      BY <1>4 DEF JoinEnter, TypeInv, RunsInv
    <2>2. /\ rooms' \in [Sockets -> SUBSET Files]
          /\ \A s \in Sockets : rooms'[s] # {} => Open(s)
      BY <1>4, <2>1 DEF JoinEnter, TypeInv, TypeOK, Under
    <2>3. /\ join' \in [Joins -> Runs]
          /\ \A i \in Joins : /\ join'[i].sock = join[i].sock /\ join'[i].file = join[i].file
                              /\ i # j => join'[i] = join[i]
      BY <1>4 DEF JoinEnter, TypeInv, TypeOK, Runs
    <2> QED
      BY <1>4, <2>1, <2>2, <2>3 DEF JoinEnter, TypeInv, TypeOK, RunsInv, Under, Open
  <1>5. CASE JoinSession(j)
    <2>1. Under(join[j]) /\ TabOf[join[j].sock] \in Tabs \cup {NoTab}
      BY <1>5, RoomsAssumption DEF JoinSession, TypeInv, RunsInv, Under
    <2>2. session' \in [Files -> [Tabs -> Sockets \cup {NoSocket}]]
      BY <1>5, <2>1 DEF JoinSession, TypeInv, TypeOK, Under
    <2>3. evicting' \subseteq Sockets
      BY <1>5, <2>1 DEF JoinSession, Evicted, TypeInv, TypeOK, Under
    <2>4. /\ join' \in [Joins -> Runs] /\ join'[j].pc \notin {"access", "loop", "joined"}
          /\ \A i \in Joins : i # j => join'[i] = join[i]
      BY <1>5 DEF JoinSession, TypeInv, TypeOK, Runs, Finished
    <2> QED
      BY <1>5, <2>2, <2>3, <2>4 DEF JoinSession, TypeInv, TypeOK, RunsInv, Open
  <1> QED
    BY <1>1, <1>2, <1>3, <1>4, <1>5 DEF JoinStep

LEMMA VoiceStepType ==
  ASSUME TypeInv, NEW v \in Voices, VoiceStep(v)
  PROVE  TypeInv'
  <1>1. ASSUME NEW s \in Sockets, NEW f \in Files, StartVoice(v, s, f)
        PROVE  TypeInv'
    BY <1>1 DEF StartVoice, TypeInv, TypeOK, RunsInv, Runs, Under, Open
  <1>2. CASE VoiceDenied(v)
    BY <1>2 DEF VoiceDenied, TypeInv, TypeOK, RunsInv, Runs, Under, Finished, Open
  <1>3. CASE VoiceEnter(v)
    BY <1>3 DEF VoiceEnter, TypeInv, TypeOK, RunsInv, Runs, Under, Finished, Open
  <1> QED
    BY <1>1, <1>2, <1>3 DEF VoiceStep

LEMMA TypeStep == TypeInv /\ [Next]_vars => TypeInv'
  <1>1. TypeInv /\ UNCHANGED vars => TypeInv'
    BY DEF vars, TypeInv, TypeOK, RunsInv, Open
  <1> QED
    BY <1>1, StepsOfNext, SocketStepType, JoinStepType, VoiceStepType

(* Every reachable state is well typed, no departure is toured for a socket    *)
(* that is connected, and no closed socket is in a room, joins in flight or not.*)
THEOREM TypeCorrect == Spec => []TypeOK
  <1>1. TypeInv => TypeOK
    BY DEF TypeInv
  <1> QED
    BY <1>1, TypeInit, TypeStep, PTL DEF Spec

-------------------------------------------------------------------------------
(* The cap of a call: only VoiceEnter adds to a roster, one socket to one that *)
(* has room, with nothing between the check and the addition.                  *)

LEMMA RosterStep ==
  ASSUME TypeInv, [Next]_vars, NEW f \in Files
  PROVE  \/ roster'[f] \subseteq roster[f]
         \/ /\ ~(Cardinality(roster[f]) >= MaxVoice)
            /\ \E s \in Sockets : roster'[f] = roster[f] \cup {s}
  <1>1. ASSUME NEW v \in Voices, VoiceEnter(v)
        PROVE  \/ roster'[f] \subseteq roster[f]
               \/ /\ ~(Cardinality(roster[f]) >= MaxVoice)
                  /\ \E s \in Sockets : roster'[f] = roster[f] \cup {s}
    <2>1. Under(voice[v])
      BY <1>1 DEF VoiceEnter, TypeInv, RunsInv
    <2> QED
      BY <1>1, <2>1 DEF VoiceEnter, Under, TypeInv, TypeOK
  <1>2. ASSUME NEW s \in Sockets, SocketStep(s)
        PROVE  roster'[f] \subseteq roster[f]
    BY <1>2 DEF SocketStep, Connect, Disconnect, EvictionArrives, Close, CleanupFails, Cleanup,
                LeaveVoice, TypeInv, TypeOK
  <1>3. ASSUME NEW j \in Joins, JoinStep(j)
        PROVE  roster'[f] \subseteq roster[f]
    BY <1>3 DEF JoinStep, StartJoin, JoinDenied, JoinLeaveOther, JoinEnter, JoinSession
  <1>4. ASSUME NEW v \in Voices, VoiceStep(v), ~VoiceEnter(v)
        PROVE  roster'[f] \subseteq roster[f]
    BY <1>4 DEF VoiceStep, StartVoice, VoiceDenied
  <1>5. UNCHANGED vars => roster'[f] \subseteq roster[f]
    BY DEF vars
  <1> QED
    BY <1>1, <1>2, <1>3, <1>4, <1>5, StepsOfNext

LEMMA VoiceCapStep == TypeInv /\ VoiceCap /\ [Next]_vars => VoiceCap'
  <1> SUFFICES ASSUME TypeInv, VoiceCap, [Next]_vars, NEW f \in Files
               PROVE  Cardinality(roster'[f]) <= MaxVoice
    BY DEF VoiceCap
  <1>1. IsFiniteSet(roster[f]) /\ Cardinality(roster[f]) \in Nat
    BY RoomsAssumption, FS_Subset, FS_CardinalityType DEF TypeInv, TypeOK
  <1>2. MaxVoice \in Nat /\ Cardinality(roster[f]) <= MaxVoice
    BY RoomsAssumption DEF VoiceCap
  <1>3. CASE roster'[f] \subseteq roster[f]
    <2>1. IsFiniteSet(roster'[f]) /\ Cardinality(roster'[f]) <= Cardinality(roster[f])
      BY <1>1, <1>3, FS_Subset
    <2>2. Cardinality(roster'[f]) \in Nat
      BY <2>1, FS_CardinalityType
    <2> QED
      BY <1>1, <1>2, <2>1, <2>2
  <1>4. CASE /\ ~(Cardinality(roster[f]) >= MaxVoice)
             /\ \E s \in Sockets : roster'[f] = roster[f] \cup {s}
    <2>1. PICK s \in Sockets : roster'[f] = roster[f] \cup {s}
      BY <1>4
    <2>2. Cardinality(roster'[f]) \in {Cardinality(roster[f]), Cardinality(roster[f]) + 1}
      BY <1>1, <2>1, FS_AddElement
    <2> QED
      BY <1>1, <1>2, <1>4, <2>2
  <1> QED
    BY <1>3, <1>4, RosterStep

(* No interleaving of join-voice runs takes a call over its cap.               *)
THEOREM CallsKeepTheirCap == Spec => []VoiceCap
  <1>1. Init => VoiceCap
    <2> SUFFICES ASSUME Init, NEW f \in Files
                 PROVE  Cardinality(roster[f]) <= MaxVoice
      BY DEF VoiceCap
    <2> QED
      BY RoomsAssumption, FS_EmptySet DEF Init
  <1> QED
    BY <1>1, TypeInit, TypeStep, VoiceCapStep, PTL DEF Spec

-------------------------------------------------------------------------------
(* One room: two rooms of a socket are the same, since a run joins only when   *)
(* its look at the live set finds no other room.                               *)

SameRoom == \A s \in Sockets : \A f, g \in rooms[s] : f = g

LEMMA RoomsStep ==
  ASSUME TypeInv, [Next]_vars, NEW s \in Sockets
  PROVE  \/ rooms'[s] \subseteq rooms[s]
         \/ \E j \in Joins : /\ join[j].sock = s /\ join'[j].pc = "joined"
                             /\ join'[j].sock = s /\ join'[j].file = join[j].file
                             /\ rooms'[s] = {join[j].file}
  <1>1. ASSUME NEW j \in Joins, JoinEnter(j), join[j].sock = s, Open(s)
        PROVE  /\ join'[j].pc = "joined" /\ join'[j].sock = s /\ join'[j].file = join[j].file
               /\ rooms'[s] = {join[j].file}
    BY <1>1 DEF JoinEnter, ToLeave, TypeInv, TypeOK, Runs
  <1>2. ASSUME NEW j \in Joins, JoinEnter(j), join[j].sock # s \/ ~Open(s)
        PROVE  rooms'[s] \subseteq rooms[s]
    BY <1>2 DEF JoinEnter, TypeInv, TypeOK
  <1>3. ASSUME NEW j \in Joins, JoinStep(j), ~JoinEnter(j)
        PROVE  rooms'[s] \subseteq rooms[s]
    BY <1>3 DEF JoinStep, StartJoin, JoinDenied, JoinLeaveOther, JoinSession, TypeInv, TypeOK
  <1>4. ASSUME NEW q \in Sockets, SocketStep(q)
        PROVE  rooms'[s] \subseteq rooms[s]
    BY <1>4 DEF SocketStep, Connect, Disconnect, EvictionArrives, Close, CleanupFails, Cleanup,
                LeaveVoice, TypeInv, TypeOK
  <1>5. ASSUME NEW v \in Voices, VoiceStep(v)
        PROVE  rooms'[s] \subseteq rooms[s]
    BY <1>5 DEF VoiceStep, StartVoice, VoiceDenied, VoiceEnter
  <1>6. UNCHANGED vars => rooms'[s] \subseteq rooms[s]
    BY DEF vars
  <1> QED
    BY <1>1, <1>2, <1>3, <1>4, <1>5, <1>6, StepsOfNext DEF JoinStep

LEMMA SameRoomStep == TypeInv /\ SameRoom /\ [Next]_vars => SameRoom'
  BY RoomsStep DEF SameRoom

(* A socket is in one file room at most, however many of its join-room runs    *)
(* for different files leave and join around one another.                      *)
THEOREM OneRoomPerSocket == Spec => []OneRoom
  <1>1. Init => SameRoom
    BY DEF Init, SameRoom
  <1>2. SameRoom => OneRoom
    <2> SUFFICES ASSUME SameRoom, NEW s \in Sockets
                 PROVE  Cardinality(rooms[s]) <= 1
      BY DEF OneRoom
    <2>1. CASE rooms[s] = {}
      BY <2>1, FS_EmptySet
    <2>2. CASE \E f : rooms[s] = {f}
      <3>1. PICK f : rooms[s] = {f}
        BY <2>2
      <3>2. Cardinality({f}) = 1
        BY FS_Singleton
      <3> QED
        BY <3>1, <3>2
    <2> QED
      BY <2>1, <2>2 DEF SameRoom
  <1> QED
    BY <1>1, <1>2, TypeInit, TypeStep, SameRoomStep, PTL DEF Spec

-------------------------------------------------------------------------------
(* One presence per tab.  A socket in a room is about to enter itself in the   *)
(* session map, is the one its tab's entry names, or is being evicted.         *)

Entering(s, f) == \E j \in Joins : join[j].pc = "joined" /\ join[j].sock = s /\ join[j].file = f

Accounted(s, f) == Entering(s, f) \/ session[f][TabOf[s]] = s \/ s \in evicting

PresenceInv ==
  \A s \in Sockets : \A f \in rooms[s] : TabOf[s] # NoTab => Accounted(s, f)

(* A step by which s stays in f keeps s accounted for, whoever takes it. *)
LEMMA StaysAccounted ==
  ASSUME TypeInv, TypeInv', NEW s \in Sockets, NEW f \in Files, f \in rooms[s], f \in rooms'[s],
         TabOf[s] # NoTab, Accounted(s, f), [Next]_vars
  PROVE  Accounted(s, f)'
  <1>t. /\ TabOf[s] \in Tabs /\ s # NoSocket /\ Open(s) /\ leaving[s] = {}
        /\ session \in [Files -> [Tabs -> Sockets \cup {NoSocket}]]
        /\ join \in [Joins -> Runs]
    BY RoomsAssumption DEF TypeInv, TypeOK, Open
  <1>1. ASSUME NEW i \in Joins, JoinSession(i), TabOf[join[i].sock] # NoTab
        PROVE  Accounted(s, f)'
    <2> DEFINE q == join[i].sock
               g == join[i].file
    <2>1. /\ q \in Sockets /\ g \in Files /\ TabOf[q] \in Tabs
      BY <1>1, RoomsAssumption DEF JoinSession, TypeInv, RunsInv, Under
    <2>2. /\ session' = [session EXCEPT ![g][TabOf[q]] = q]
          /\ evicting' = evicting \cup ({session[g][TabOf[q]]} \ {NoSocket, q})
          /\ \A j \in Joins \ {i} : join'[j] = join[j]
      BY <1>1, <1>t DEF JoinSession, Evicted
    <2>3. CASE Entering(s, f)
      <3>1. PICK j \in Joins : join[j].pc = "joined" /\ join[j].sock = s /\ join[j].file = f
        BY <2>3 DEF Entering
      <3>2. CASE j = i
        BY <1>t, <2>1, <2>2, <3>1, <3>2 DEF Accounted
      <3>3. CASE j # i
        BY <2>2, <3>1, <3>3 DEF Accounted, Entering
      <3> QED
        BY <3>2, <3>3
    <2>4. CASE session[f][TabOf[s]] = s
      <3>1. CASE g = f /\ TabOf[q] = TabOf[s] /\ q # s
        BY <1>t, <2>2, <2>4, <3>1 DEF Accounted
      <3>2. CASE ~(g = f /\ TabOf[q] = TabOf[s] /\ q # s)
        <4> HIDE DEF q, g
        <4>1. session'[f][TabOf[s]] = s
          BY <1>t, <2>1, <2>2, <2>4, <3>2
        <4> QED
          BY <4>1 DEF Accounted
      <3> QED
        BY <3>1, <3>2
    <2>5. CASE s \in evicting
      BY <2>2, <2>5 DEF Accounted
    <2> QED
      BY <2>3, <2>4, <2>5 DEF Accounted
  <1>2. ASSUME NEW i \in Joins, JoinStep(i), ~JoinSession(i)
        PROVE  Accounted(s, f)'
    <2>1. UNCHANGED <<session, evicting>>
      BY <1>2 DEF JoinStep, StartJoin, JoinDenied, JoinLeaveOther, JoinEnter
    <2>2. ASSUME NEW j \in Joins, join[j].pc = "joined", join[j].sock = s
          PROVE  join'[j] = join[j]
      BY <1>2, <1>t, <2>2 DEF JoinStep, StartJoin, JoinDenied, JoinLeaveOther, JoinEnter
    <2> QED
      BY <2>1, <2>2 DEF Accounted, Entering
  <1>3. ASSUME NEW q \in Sockets, SocketStep(q)
        PROVE  Accounted(s, f)'
    <2>1. UNCHANGED join
      BY <1>3 DEF SocketStep, Connect, Disconnect, EvictionArrives, Close, CleanupFails,
                  Cleanup, LeaveVoice
    <2>2. CASE EvictionArrives(q)
      <3>1. q # s
        BY <1>t, <2>2 DEF EvictionArrives, Close, TypeInv, TypeOK
      <3>2. UNCHANGED session /\ (s \in evicting => s \in evicting')
        BY <2>2, <3>1 DEF EvictionArrives, Close
      <3> QED
        BY <2>1, <3>2 DEF Accounted, Entering
    <2>3. ASSUME NEW g \in Files, Cleanup(q, g)
          PROVE  Accounted(s, f)'
      <3>1. q # s /\ UNCHANGED evicting
        BY <1>t, <2>3 DEF Cleanup
      <3>2. session[f][TabOf[s]] = s => session'[f][TabOf[s]] = s
        BY <1>t, <2>3, <3>1 DEF Cleanup
      <3> QED
        BY <2>1, <3>1, <3>2 DEF Accounted, Entering
    <2>4. CASE \/ Connect(q) \/ Disconnect(q) \/ CleanupFails(q)
               \/ \E g \in Files : LeaveVoice(q, g)
      <3>1. UNCHANGED <<session, evicting>>
        BY <2>4 DEF Connect, Disconnect, Close, CleanupFails, LeaveVoice
      <3> QED
        BY <2>1, <3>1 DEF Accounted, Entering
    <2> QED
      BY <1>3, <2>2, <2>3, <2>4 DEF SocketStep
  <1>4. ASSUME (\E v \in Voices : VoiceStep(v)) \/ UNCHANGED vars
        PROVE  Accounted(s, f)'
    <2>1. UNCHANGED <<join, session, evicting>>
      BY <1>4 DEF VoiceStep, StartVoice, VoiceDenied, VoiceEnter, vars
    <2> QED
      BY <2>1 DEF Accounted, Entering
  <1>5. ASSUME NEW i \in Joins, JoinSession(i), TabOf[join[i].sock] = NoTab
        PROVE  Accounted(s, f)'
    <2>1. /\ UNCHANGED <<session, evicting>>
          /\ join[i].sock # s
          /\ \A j \in Joins \ {i} : join'[j] = join[j]
      BY <1>5, <1>t DEF JoinSession, Evicted
    <2> QED
      BY <2>1 DEF Accounted, Entering
  <1> QED
    BY <1>1, <1>2, <1>3, <1>4, <1>5, StepsOfNext

LEMMA PresenceStep == TypeInv /\ TypeInv' /\ PresenceInv /\ [Next]_vars => PresenceInv'
  <1> SUFFICES ASSUME TypeInv, TypeInv', PresenceInv, [Next]_vars,
                      NEW s \in Sockets, NEW f \in rooms'[s], TabOf[s] # NoTab
               PROVE  Accounted(s, f)'
    BY DEF PresenceInv
  <1>1. CASE rooms'[s] \subseteq rooms[s]
    <2>1. f \in Files /\ f \in rooms[s] /\ Accounted(s, f)
      BY <1>1 DEF PresenceInv, TypeInv, TypeOK
    <2> QED
      BY <2>1, StaysAccounted
  <1>2. CASE \E j \in Joins : /\ join[j].sock = s /\ join'[j].pc = "joined"
                             /\ join'[j].sock = s /\ join'[j].file = join[j].file
                             /\ rooms'[s] = {join[j].file}
    BY <1>2 DEF Accounted, Entering
  <1> QED
    BY <1>1, <1>2, RoomsStep

(* However a tab reconnects, and however late the cleanups of its old sockets  *)
(* run or fail, two sockets of it are not both left standing in one room.      *)
THEOREM TabsArePresentOnce == Spec => []OnePresencePerTab
  <1>1. Init => PresenceInv
    BY DEF Init, PresenceInv
  <1>2. TypeInv /\ PresenceInv => OnePresencePerTab
    <2> SUFFICES ASSUME TypeInv, PresenceInv, NEW s \in Sockets, NEW q \in Sockets,
                        s # q, TabOf[s] = TabOf[q], TabOf[s] # NoTab,
                        rooms[s] \cap rooms[q] # {}
                 PROVE  JoinPending(s) \/ JoinPending(q) \/ evicting \cap {s, q} # {}
      BY DEF OnePresencePerTab
    <2>1. PICK f : f \in rooms[s] /\ f \in rooms[q]
      OBVIOUS
    <2>2. Accounted(s, f) /\ Accounted(q, f)
      BY <2>1 DEF PresenceInv
    <2> QED
      BY <2>2 DEF Accounted, Entering, JoinPending
  <1> QED
    BY <1>1, <1>2, TypeInit, TypeStep, PresenceStep, PTL DEF Spec
===============================================================================
