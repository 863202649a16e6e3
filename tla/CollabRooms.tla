------------------------------ MODULE CollabRooms -----------------------------
(* CollabGateway on one node: which sockets are in which file room, which are  *)
(* in a file's voice call, and which socket a browser tab currently speaks     *)
(* through.  Handlers are asynchronous: each is cut where it awaits, and the   *)
(* cuts of all handlers interleave, those of one socket included, also after   *)
(* that socket has disconnected.                                               *)
EXTENDS Integers, FiniteSets

CONSTANTS Files,
          Tabs,       \* clientSessionId values, one per browser tab
          Sockets,    \* socket.io connections, used once each
          TabOf,      \* the tab a connection says it belongs to, or NoTab
          NoTab,
          Joins,      \* runs of handleJoinRoom
          Voices,     \* runs of handleJoinVoice
          NoSocket,   \* no entry in the session map
          NoFile,
          MaxVoice,   \* MAX_VOICE_PARTICIPANTS
          MaxFaults,  \* bound on failing fetchSockets calls
          FromRoom    \* clients only call from a room they are in

ASSUME RoomsAssumption ==
  /\ IsFiniteSet(Sockets)
  /\ NoSocket \notin Sockets /\ NoFile \notin Files
  /\ NoTab \notin Tabs /\ TabOf \in [Sockets -> Tabs \cup {NoTab}]
  /\ MaxVoice \in Nat \ {0}
  /\ MaxFaults \in Nat
  /\ FromRoom \in BOOLEAN

VARIABLES conn,      \* a connection is unborn, open or closed
          born,      \* the rank of a connection in the order they were opened
          rooms,     \* the file:* rooms the adapter lists for a socket
          roster,    \* voiceRosters: the sockets in a file's call
          session,   \* activeSessionsByFile: file -> tab -> socket
          evicting,  \* sockets a disconnectSockets request is on its way to
          leaving,   \* rooms notifyRoomsOnLeave still has to visit for a socket
          join,      \* the state of each join-room run
          voice,     \* the state of each join-voice run
          faults

vars == <<conn, born, rooms, roster, session, evicting, leaving, join, voice, faults>>

Members(f) == {s \in Sockets : f \in rooms[s]}
Open(s)    == conn[s] = "open"

(* A handler run: where it is, for which socket, on which file.                *)
NoRun    == [pc |-> "unused", sock |-> NoSocket, file |-> NoFile]
Finished == [pc |-> "done", sock |-> NoSocket, file |-> NoFile]

Init == /\ conn = [s \in Sockets |-> "unborn"]
        /\ born = [s \in Sockets |-> 0]
        /\ rooms = [s \in Sockets |-> {}]
        /\ roster = [f \in Files |-> {}]
        /\ session = [f \in Files |-> [t \in Tabs |-> NoSocket]]
        /\ evicting = {}
        /\ leaving = [s \in Sockets |-> {}]
        /\ join = [j \in Joins |-> NoRun]
        /\ voice = [v \in Voices |-> NoRun]
        /\ faults = 0

-------------------------------------------------------------------------------
(* Connections *)

Connect(s) ==
  /\ conn[s] = "unborn"
  /\ conn' = [conn EXCEPT ![s] = "open"]
  /\ born' = [born EXCEPT ![s] = 1 + Cardinality({q \in Sockets : conn[q] # "unborn"})]
  /\ UNCHANGED <<rooms, roster, session, evicting, leaving, join, voice, faults>>

(* A closing socket fires "disconnecting", on which notifyRoomsOnLeave begins  *)
(* its tour of the rooms it is in; then socket.io takes it out of all of them. *)
MutClose(s) ==
  /\ leaving' = [leaving EXCEPT ![s] = rooms[s]]
  /\ rooms' = [rooms EXCEPT ![s] = {}]
  /\ UNCHANGED <<conn, born, roster, session, join, voice, faults>>
Close(s) ==
  /\ conn' = [conn EXCEPT ![s] = "closed"]
  /\ leaving' = [leaving EXCEPT ![s] = rooms[s]]
  /\ rooms' = [rooms EXCEPT ![s] = {}]
  /\ UNCHANGED <<born, roster, session, join, voice, faults>>

(* The client goes away, or its transport times out. *)
Disconnect(s) == Open(s) /\ Close(s) /\ UNCHANGED evicting

(* The request of an eviction arrives, by way of Redis, at the socket's node.  *)
EvictionArrives(s) ==
  /\ s \in evicting
  /\ evicting' = evicting \ {s}
  /\ IF Open(s) THEN Close(s)
     ELSE UNCHANGED <<conn, born, rooms, roster, session, leaving, join, voice, faults>>

(* notifyRoomsOnLeave for one room, once its fetchSockets has answered: the    *)
(* voice entry goes, and so does the tab's entry if it still names this socket.*)
MutCleanup(s, f) ==
  /\ f \in leaving[s]
  /\ leaving' = [leaving EXCEPT ![s] = @ \ {f}]
  /\ roster' = [roster EXCEPT ![f] = @ \ {s}]
  /\ session' = [session EXCEPT ![f][TabOf[s]] = NoSocket]
  /\ UNCHANGED <<conn, born, rooms, evicting, join, voice, faults>>
Cleanup(s, f) ==
  /\ f \in leaving[s]
  /\ leaving' = [leaving EXCEPT ![s] = @ \ {f}]
  /\ roster' = [roster EXCEPT ![f] = @ \ {s}]
  /\ session' = [session EXCEPT ![f] = [t \in Tabs |-> IF @[t] = s THEN NoSocket ELSE @[t]]]
  /\ UNCHANGED <<conn, born, rooms, evicting, join, voice, faults>>

(* fetchSockets rejects: the tour ends there, and its error is swallowed. *)
CleanupFails(s) ==
  /\ leaving[s] # {}
  /\ faults < MaxFaults
  /\ faults' = faults + 1
  /\ leaving' = [leaving EXCEPT ![s] = {}]
  /\ UNCHANGED <<conn, born, rooms, roster, session, evicting, join, voice>>

-------------------------------------------------------------------------------
(* join-room *)

StartJoin(j, s, f) ==
  /\ Open(s)
  /\ join[j].pc = "unused"
  /\ join' = [join EXCEPT ![j] = [pc |-> "access", sock |-> s, file |-> f]]
  /\ UNCHANGED <<conn, born, rooms, roster, session, evicting, leaving, voice, faults>>

(* getAccess answers null. *)
JoinDenied(j) ==
  /\ join[j].pc = "access"
  /\ join' = [join EXCEPT ![j] = Finished]
  /\ UNCHANGED <<conn, born, rooms, roster, session, evicting, leaving, voice, faults>>

(* The loop over client.rooms awaits after every room it leaves and looks at   *)
(* the live set again; finding nothing to leave, it joins without awaiting.    *)
ToLeave(j) == rooms[join[j].sock] \ {join[j].file}

JoinLeaveOther(j) ==
  /\ join[j].pc \in {"access", "loop"}
  /\ \E g \in ToLeave(j) : rooms' = [rooms EXCEPT ![join[j].sock] = @ \ {g}]
  /\ join' = [join EXCEPT ![j].pc = "loop"]
  /\ UNCHANGED <<conn, born, roster, session, evicting, leaving, voice, faults>>

(* Joining adds nothing to a socket that has closed meanwhile, and goes on.    *)
MutJoinEnter(j) ==
  LET s == join[j].sock IN
  /\ \/ join[j].pc = "access" /\ ToLeave(j) = {}
     \/ join[j].pc = "loop"
  /\ rooms' = IF Open(s) THEN [rooms EXCEPT ![s] = @ \cup {join[j].file}] ELSE rooms
  /\ join' = [join EXCEPT ![j].pc = "joined"]
  /\ UNCHANGED <<conn, born, roster, session, evicting, leaving, voice, faults>>
JoinEnter(j) ==
  LET s == join[j].sock IN
  /\ join[j].pc \in {"access", "loop"}
  /\ ToLeave(j) = {}
  /\ rooms' = IF Open(s) THEN [rooms EXCEPT ![s] = @ \cup {join[j].file}] ELSE rooms
  /\ join' = [join EXCEPT ![j].pc = "joined"]
  /\ UNCHANGED <<conn, born, roster, session, evicting, leaving, voice, faults>>

(* The tab's bookkeeping, unless the handshake named no tab: the socket the    *)
(* map names is told to close, unless it is this one, and the map names this   *)
(* one, closed or not.                                                         *)
Evicted(j) ==
  IF TabOf[join[j].sock] = NoTab THEN {}
  ELSE {session[join[j].file][TabOf[join[j].sock]]} \ {NoSocket, join[j].sock}

JoinSession(j) ==
  LET s == join[j].sock IN
  /\ join[j].pc = "joined"
  /\ evicting' = evicting \cup Evicted(j)
  /\ session' = IF TabOf[s] = NoTab THEN session
                ELSE [session EXCEPT ![join[j].file][TabOf[s]] = s]
  /\ join' = [join EXCEPT ![j] = Finished]
  /\ UNCHANGED <<conn, born, rooms, roster, leaving, voice, faults>>

-------------------------------------------------------------------------------
(* join-voice and leave-voice *)

StartVoice(v, s, f) ==
  /\ Open(s)
  /\ FromRoom => f \in rooms[s]
  /\ voice[v].pc = "unused"
  /\ voice' = [voice EXCEPT ![v] = [pc |-> "floor", sock |-> s, file |-> f]]
  /\ UNCHANGED <<conn, born, rooms, roster, session, evicting, leaving, join, faults>>

(* hasFloor is false. *)
VoiceDenied(v) ==
  /\ voice[v].pc = "floor"
  /\ voice' = [voice EXCEPT ![v] = Finished]
  /\ UNCHANGED <<conn, born, rooms, roster, session, evicting, leaving, join, faults>>

(* hasFloor is true: the size check and the add have no await between them,    *)
(* and neither asks whether the socket is in the room, or still connected.     *)
MutVoiceEnter(v) ==
  LET f == voice[v].file IN
  /\ voice[v].pc = "floor"
  /\ roster' = IF Cardinality(roster[f]) > MaxVoice THEN roster
               ELSE [roster EXCEPT ![f] = @ \cup {voice[v].sock}]
  /\ voice' = [voice EXCEPT ![v] = Finished]
  /\ UNCHANGED <<conn, born, rooms, session, evicting, leaving, join, faults>>
VoiceEnter(v) ==
  LET f == voice[v].file IN
  /\ voice[v].pc = "floor"
  /\ roster' = IF Cardinality(roster[f]) >= MaxVoice THEN roster
               ELSE [roster EXCEPT ![f] = @ \cup {voice[v].sock}]
  /\ voice' = [voice EXCEPT ![v] = Finished]
  /\ UNCHANGED <<conn, born, rooms, session, evicting, leaving, join, faults>>

LeaveVoice(s, f) ==
  /\ Open(s)
  /\ s \in roster[f]
  /\ roster' = [roster EXCEPT ![f] = @ \ {s}]
  /\ UNCHANGED <<conn, born, rooms, session, evicting, leaving, join, voice, faults>>

Next ==
  \/ \E s \in Sockets : \/ Connect(s) \/ Disconnect(s) \/ EvictionArrives(s)
                        \/ CleanupFails(s)
                        \/ \E f \in Files : Cleanup(s, f) \/ LeaveVoice(s, f)
  \/ \E j \in Joins : \/ \E s \in Sockets, f \in Files : StartJoin(j, s, f)
                      \/ JoinDenied(j) \/ JoinLeaveOther(j) \/ JoinEnter(j)
                      \/ JoinSession(j)
  \/ \E v \in Voices : \/ \E s \in Sockets, f \in Files : StartVoice(v, s, f)
                       \/ VoiceDenied(v) \/ VoiceEnter(v)

Spec == Init /\ [][Next]_vars

-------------------------------------------------------------------------------
(* Properties *)

Runs == [pc   : {"unused", "access", "loop", "joined", "floor", "done"},
         sock : Sockets \cup {NoSocket},
         file : Files \cup {NoFile}]

(* The types, and: only a socket that has closed is toured for its departure,  *)
(* and only a connected one is in a room.                                      *)
TypeOK ==
  /\ conn \in [Sockets -> {"unborn", "open", "closed"}]
  /\ born \in [Sockets -> Nat]
  /\ rooms \in [Sockets -> SUBSET Files]
  /\ roster \in [Files -> SUBSET Sockets]
  /\ session \in [Files -> [Tabs -> Sockets \cup {NoSocket}]]
  /\ evicting \in SUBSET Sockets
  /\ leaving \in [Sockets -> SUBSET Files]
  /\ \A s \in Sockets : /\ leaving[s] # {} => conn[s] = "closed"
                        /\ rooms[s] # {} => Open(s)
  /\ join \in [Joins -> Runs] /\ voice \in [Voices -> Runs]
  /\ faults \in 0..MaxFaults

(* No interleaving of join-voice runs takes a call over its cap.               *)
VoiceCap == \A f \in Files : Cardinality(roster[f]) <= MaxVoice

(* A connected socket is in one file room at most, however many join-room runs *)
(* for different files it has in flight at once.                               *)
OneRoom == \A s \in Sockets : Open(s) => Cardinality(rooms[s]) <= 1

JoinPending(s) == \E j \in Joins : join[j].sock = s /\ join[j].pc = "joined"

(* A file shows a tab once: of two connected sockets of one tab that are both  *)
(* through with joining a room, one is being evicted.  A cleanup that runs     *)
(* late must not have erased the entry the next eviction needs.                *)
OnePresencePerTab ==
  \A s, q \in Sockets :
    /\ s # q /\ TabOf[s] = TabOf[q] /\ TabOf[s] # NoTab /\ Open(s) /\ Open(q)
    /\ rooms[s] \cap rooms[q] # {}
    => JoinPending(s) \/ JoinPending(q) \/ evicting \cap {s, q} # {}

(* The comment on voiceRosters: a roster is always a subset of the membership  *)
(* of that file's room; a departure still being toured is let pass.            *)
RosterInRoom ==
  \A f \in Files : roster[f] \subseteq Members(f) \cup {s \in Sockets : f \in leaving[s]}

(* The comment in join-room: what an eviction closes is the tab's previous     *)
(* socket, never one that was opened after the socket that is joining.         *)
EvictsPreviousSocket ==
  [][\A j \in Joins :
       join[j].pc = "joined" /\ join'[j].pc = "done" =>
         \A q \in evicting' \ evicting : born[q] < born[join[j].sock]]_vars
===============================================================================
