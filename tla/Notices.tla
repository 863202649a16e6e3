-------------------------------- MODULE Notices -------------------------------
(* Who is told what about one file: SharesService and ChatService, and         *)
(* NotificationsService.create, which both call, over the users that Clerk's   *)
(* webhook mirrors.  Every await of these handlers is a cut: the recipient of  *)
(* a notification may lose her access, her preference or her row on the way.   *)
(*                                                                             *)
(* Ids are not kept: what a handler holds of a user, or of a share, is that    *)
(* user's row only as long as known, or holds, says so; a row deleted and      *)
(* inserted again has another id.  Roles are left to AccessFloor.              *)
EXTENDS Integers

CONSTANTS Users,    \* accounts other than the file's owner; they own nothing
          Owner,    \* owns the file, so cannot be deleted
          Runs,     \* requests on shares and runs of send-chat-message
          Switches, \* the switches, each a user's for a kind, that are used
          MaxFaults \* bound on database errors, lost acknowledgements, crashes

(* The kind of notification a handler's notifications have. *)
Kind == [invite |-> "FILE_SHARED", role |-> "ROLE_CHANGED",
         remove |-> "ACCESS_REMOVED", chat |-> "MENTIONED"]

Kinds  == {Kind[op] : op \in DOMAIN Kind}
People == Users \cup {Owner}

ASSUME NoticesAssumption ==
  /\ Owner \notin Users
  /\ Switches \subseteq People \X Kinds
  /\ MaxFaults \in Nat

VARIABLES live,     \* accounts with a User row
          closed,   \* accounts their users have deleted at Clerk
          pending,  \* events of an account that Clerk has yet to see acknowledged
          muted,    \* the kinds of notification a user has switched off
          shared,   \* users with a Share row
          anyone,   \* generalAccess is ANYONE, with a role
          file,     \* the File row
          stored,   \* the runs with a Message row ...
          mentions, \* ... and its mentionedUserIds
          inbox,    \* Notification rows: what caused them, whom they are for
          run,      \* what a run does, for whom, how far it got, whom it has to check:
                    \* todo before, asked after the File row was read for them
          note,     \* how far NotificationsService.create got for a recipient
          known,    \* the users whose row a run holds the id of
          holds,    \* the runs that hold the id of a Share row
          faults,
          wrote,    \* history: requests whose write committed
          opened,   \* history: sends during whose check the file was live
          granted,  \* history: who had a ground for access then, see Grants
          wanted,   \* history: who had the kind of a notification for them on ...
          spurned,  \* history: ... or off while their preference was to be read
          late      \* history: rows an update brought back after their deletion

mirror  == <<live, closed, pending>>
facts   == <<muted, shared, anyone, file>>
rows    == <<mentions, stored, inbox>>
ids     == <<known, holds>>
history == <<wrote, opened, granted, wanted, spurned, late>>
vars    == <<mirror, facts, rows, run, note, ids, faults, history>>

Unused == [op |-> "none", user |-> Owner, pc |-> "unused", todo |-> {}, asked |-> {}]

Init == /\ live = Users /\ closed = {} /\ pending = [u \in Users |-> {}]
        /\ muted = [u \in People |-> {}]
        /\ shared \in SUBSET Users /\ anyone = FALSE /\ file = "live"
        /\ stored = {} /\ mentions = [c \in Runs |-> {}] /\ inbox = {}
        /\ run = [c \in Runs |-> Unused]
        /\ note = [c \in Runs |-> [u \in People |-> "none"]]
        /\ known = [c \in Runs |-> {}] /\ holds = {}
        /\ faults = 0
        /\ wrote = {} /\ late = {}
        /\ opened = {} /\ granted = [c \in Runs |-> {}]
        /\ wanted = [c \in Runs |-> {}] /\ spurned = [c \in Runs |-> {}]

Fault == faults < MaxFaults /\ faults' = faults + 1

-------------------------------------------------------------------------------
(* The users' mirror.  Clerk delivers an event until it is acknowledged, and   *)
(* in no particular order.                                                     *)

Present == live \cup {Owner}

(* An update of hers may still be on its way then; one that is delivered to an *)
(* open account changes nothing kept here.                                     *)
ClerkDeletes(u) ==
  /\ u \notin closed
  /\ closed' = closed \cup {u}
  /\ \E events \in {{"deleted"}, {"updated", "deleted"}} :
       pending' = [pending EXCEPT ![u] = events]
  /\ UNCHANGED <<live, facts, rows, run, note, ids, faults, wrote, late>>

(* The answer reaches Clerk, or is lost and the event comes again. *)
Acknowledge(u, event) ==
  \/ pending' = [pending EXCEPT ![u] = @ \ {event}] /\ UNCHANGED faults
  \/ Fault /\ UNCHANGED pending

(* user.created and user.updated upsert: a row that is not there is inserted,  *)
(* with the preferences of a new one.  An event without a primary email is     *)
(* skipped, and acknowledged all the same.                                     *)
UpsertUser(u) ==
  /\ "updated" \in pending[u]
  /\ live' \in {live, live \cup {u}}
  /\ muted' = IF live' = live THEN muted ELSE [muted EXCEPT ![u] = {}]
  /\ late' = IF live' = live THEN late ELSE late \cup {u}
  /\ Acknowledge(u, "updated")
  /\ UNCHANGED <<closed, shared, anyone, file, rows, run, note, ids, wrote>>

MutDeleteUser(u) == \* the event is acknowledged before the row is deleted
  \/ /\ "deleted" \in pending[u]
     /\ Fault
     /\ pending' = [pending EXCEPT ![u] = @ \ {"deleted"}]
     /\ UNCHANGED <<live, closed, facts, rows, run, note, ids, wrote, late>>
  \/ /\ "deleted" \in pending[u]
     /\ live' = live \ {u} /\ shared' = shared \ {u}
     /\ stored' = {s \in stored : run[s].user # u} /\ inbox' = {n \in inbox : n[2] # u}
     /\ known' = [c \in Runs |-> known[c] \ {u}] /\ holds' = {q \in holds : run[q].user # u}
     /\ pending' = [pending EXCEPT ![u] = @ \ {"deleted"}]
     /\ UNCHANGED <<closed, muted, anyone, file, mentions, run, note, faults, wrote, late>>

(* user.deleted: shares, messages and notifications go with the row, and the   *)
(* ids that were held of them lead nowhere from here on.                       *)
DeleteUser(u) ==
  /\ "deleted" \in pending[u]
  /\ live' = live \ {u}
  /\ late' = late \ {u}
  /\ shared' = shared \ {u}
  /\ stored' = {s \in stored : run[s].user # u}
  /\ inbox' = {n \in inbox : n[2] # u}
  /\ known' = [c \in Runs |-> known[c] \ {u}]
  /\ holds' = {q \in holds : run[q].user # u}
  /\ Acknowledge(u, "deleted")
  /\ UNCHANGED <<closed, muted, anyone, file, mentions, run, note, wrote>>

-------------------------------------------------------------------------------
(* What users and the owner do besides *)

(* PATCH /me/notification-preferences *)
SetPreferences(u) ==
  /\ u \in Present
  /\ \E k \in {k \in Kinds : <<u, k>> \in Switches} :
       muted' = [muted EXCEPT ![u] = IF k \in @ THEN @ \ {k} ELSE @ \cup {k}]
  /\ UNCHANGED <<mirror, shared, anyone, file, rows, run, note, ids, faults, wrote, late>>

(* updateGeneralAccess tells nobody. *)
UpdateGeneralAccess ==
  /\ file = "live"
  /\ anyone' = ~anyone
  /\ UNCHANGED <<mirror, muted, shared, file, rows, run, note, ids, faults, wrote, late>>

MoveTrash ==
  /\ \/ file = "live" /\ file' = "trashed"
     \/ file = "trashed" /\ file' = "live"
  /\ UNCHANGED <<mirror, muted, shared, anyone, rows, run, note, ids, faults, wrote, late>>

(* Shares and messages go with the file; notifications about it stay. *)
PermanentDelete ==
  /\ file = "trashed"
  /\ file' = "gone"
  /\ shared' = {} /\ holds' = {} /\ stored' = {}
  /\ UNCHANGED <<mirror, muted, anyone, mentions, inbox, run, note, known, faults,
                 wrote, late>>

-------------------------------------------------------------------------------
(* The owner's requests on shares.  FileAccessGuard has let them in.           *)

At(c, op, pc) == run[c].op = op /\ run[c].pc = pc
Goes(c, pc)   == run' = [run EXCEPT ![c].pc = pc]

StartRequest(q, u) ==
  /\ run[q].pc = "unused"
  /\ file = "live"
  /\ \E op \in {"invite", "role", "remove"} :
       /\ u \in IF op = "invite" THEN live ELSE shared
       /\ run' = [run EXCEPT ![q] = [Unused EXCEPT !.op = op, !.user = u, !.pc = "find"]]
       /\ holds' = IF op = "invite" THEN holds ELSE holds \cup {q}
  /\ known' = [known EXCEPT ![q] = {u}]
  /\ UNCHANGED <<mirror, facts, rows, note, faults, wrote, late>>

(* invite looks for the user, updateRole and remove for the share. *)
Finds(q) == IF run[q].op = "invite" THEN run[q].user \in known[q] ELSE q \in holds

FindRow(q) ==
  /\ run[q].pc = "find"
  /\ Goes(q, IF Finds(q) THEN "write" ELSE "failed")
  /\ UNCHANGED <<mirror, facts, rows, note, ids, faults, wrote, late>>

Writable(q) == Finds(q) /\ file # "gone"

(* What was found is gone: P2025 for an update or a delete, P2003 for an insert.*)
WriteFails(q) ==
  /\ run[q].pc = "write"
  /\ ~Writable(q)
  /\ Goes(q, "failed")
  /\ UNCHANGED <<mirror, facts, rows, note, ids, faults, wrote, late>>

Wrote(q) ==
  /\ Goes(q, "notify")
  /\ note' = [note EXCEPT ![q][run[q].user] = "pref"]
  /\ wrote' = wrote \cup {q}
  /\ UNCHANGED <<mirror, muted, anyone, file, rows, known, faults, late>>

Invite(q) ==
  /\ At(q, "invite", "write") /\ Writable(q)
  /\ shared' = shared \cup {run[q].user}
  /\ UNCHANGED holds
  /\ Wrote(q)

UpdateRole(q) ==
  /\ At(q, "role", "write") /\ Writable(q)
  /\ holds' = holds \ {q}
  /\ UNCHANGED shared
  /\ Wrote(q)

MutRemove(q) == \* deleteMany, which does not mind that the share is gone
  /\ At(q, "remove", "write")
  /\ shared' = shared \ {run[q].user}
  /\ holds' = {p \in holds : run[p].user # run[q].user}
  /\ Wrote(q)

Remove(q) ==
  /\ At(q, "remove", "write") /\ Writable(q)
  /\ shared' = shared \ {run[q].user}
  /\ holds' = {p \in holds : run[p].user # run[q].user}
  /\ Wrote(q)

RequestError(q) ==
  /\ run[q].pc \in {"find", "write"}
  /\ Fault
  /\ Goes(q, "failed")
  /\ UNCHANGED <<mirror, facts, rows, note, ids, wrote, late>>

(* The answer: an error from the notification fails the request, whose write   *)
(* stays.                                                                      *)
AnswerRequest(q) ==
  /\ run[q].pc = "notify" /\ run[q].op # "chat"
  /\ \/ note[q][run[q].user] \in {"stored", "skipped"} /\ Goes(q, "ok")
     \/ note[q][run[q].user] = "failed" /\ Goes(q, "failed")
  /\ UNCHANGED <<mirror, facts, rows, note, ids, faults, wrote, late>>

-------------------------------------------------------------------------------
(* NotificationsService.create.  What it emits to connected clients, and       *)
(* whether that fails, changes nothing.                                        *)

Notes(c, u, pc) == note' = [note EXCEPT ![c][u] = pc]

MutNotePreference(c, u) == \* the preference is not looked at
  /\ note[c][u] = "pref"
  /\ Notes(c, u, "insert")
  /\ UNCHANGED <<mirror, facts, rows, run, ids, faults, wrote, late>>

NotePreference(c, u) ==
  /\ note[c][u] = "pref"
  /\ Notes(c, u, IF u \in known[c] /\ Kind[run[c].op] \in muted[u] THEN "skipped" ELSE "insert")
  /\ UNCHANGED <<mirror, facts, rows, run, ids, faults, wrote, late>>

(* The actor: a message's author, or the owner. *)
ActorIsThere(c) == run[c].op = "chat" => run[c].user \in known[c]

MutNoteInsert(c, u) == \* no reference to the recipient
  /\ note[c][u] = "insert"
  /\ inbox' = inbox \cup {<<c, u>>} /\ Notes(c, u, "stored")
  /\ UNCHANGED <<mirror, facts, mentions, stored, run, ids, faults, wrote, late>>

(* The row refers to the recipient and to the actor. *)
NoteInsert(c, u) ==
  /\ note[c][u] = "insert"
  /\ IF u \in known[c] /\ ActorIsThere(c)
     THEN inbox' = inbox \cup {<<c, u>>} /\ Notes(c, u, "stored")
     ELSE Notes(c, u, "failed") /\ UNCHANGED inbox
  /\ UNCHANGED <<mirror, facts, mentions, stored, run, ids, faults, wrote, late>>

NoteError(c, u) ==
  /\ note[c][u] \in {"pref", "insert"}
  /\ Fault
  /\ Notes(c, u, "failed")
  /\ UNCHANGED <<mirror, facts, rows, run, ids, wrote, late>>

-------------------------------------------------------------------------------
(* send-chat-message, from where hasFloor let it in: on a verdict that may be  *)
(* as old as its cache, so that the author may have lost access, and the file  *)
(* may be in the trash or gone (AccessFloor bounds the age).                   *)
StartSend(s, u) ==
  /\ run[s].pc = "unused"
  /\ u \in Present
  /\ \E candidates \in SUBSET People :
       /\ run' = [run EXCEPT ![s] = [op |-> "chat", user |-> u, pc |-> "check",
                                     todo |-> candidates, asked |-> {}]]
       /\ known' = [known EXCEPT ![s] = {u} \cup (candidates \cap Present)]
  /\ UNCHANGED <<mirror, facts, rows, note, holds, faults, wrote, late>>

(* Every candidate is checked by a getAccess of her own, all at once.  Each    *)
(* reads the File row and then, if that leaves it open whether there is a role *)
(* for her, the Share row.                                                     *)
MutMentionFile(s, u) == \* the client's list is trusted
  /\ run[s].pc = "check" /\ u \in run[s].todo
  /\ run' = [run EXCEPT ![s].todo = @ \ {u}]
  /\ mentions' = [mentions EXCEPT ![s] = @ \cup {u}]
  /\ UNCHANGED <<mirror, facts, stored, inbox, note, ids, faults, wrote, late>>

FileGrants(u) == file = "live" /\ (u = Owner \/ anyone)

MentionFile(s, u) ==
  /\ run[s].pc = "check" /\ u \in run[s].todo
  /\ run' = [run EXCEPT ![s].todo  = @ \ {u},
                        ![s].asked = IF file = "live" /\ ~FileGrants(u) THEN @ \cup {u} ELSE @]
  /\ mentions' = IF FileGrants(u) THEN [mentions EXCEPT ![s] = @ \cup {u}] ELSE mentions
  /\ UNCHANGED <<mirror, facts, stored, inbox, note, ids, faults, wrote, late>>

MentionShare(s, u) ==
  /\ run[s].pc = "check" /\ u \in run[s].asked
  /\ run' = [run EXCEPT ![s].asked = @ \ {u}]
  /\ mentions' = IF u \in shared \cap known[s]
                 THEN [mentions EXCEPT ![s] = @ \cup {u}] ELSE mentions
  /\ UNCHANGED <<mirror, facts, stored, inbox, note, ids, faults, wrote, late>>

(* The Message row refers to the file and to the author. *)
InsertMessage(s) ==
  /\ run[s].pc = "check" /\ run[s].todo = {} /\ run[s].asked = {}
  /\ IF file # "gone" /\ run[s].user \in known[s]
     THEN stored' = stored \cup {s} /\ Goes(s, IF mentions[s] = {} THEN "reply" ELSE "file")
     ELSE Goes(s, "failed") /\ UNCHANGED stored
  /\ UNCHANGED <<mirror, facts, mentions, inbox, note, ids, faults, wrote, late>>

(* Whom a message tells: create returns at once for its author. *)
Addressed(s) == mentions[s] \ {run[s].user}

ReadFileName(s) ==
  /\ run[s].pc = "file"
  /\ IF file = "gone"
     THEN Goes(s, "reply") /\ UNCHANGED note
     ELSE /\ Goes(s, "notify")
          /\ note' = [note EXCEPT ![s] =
                        [u \in People |-> IF u \in Addressed(s) THEN "pref" ELSE "none"]]
  /\ UNCHANGED <<mirror, facts, rows, ids, faults, wrote, late>>

SendError(s) ==
  /\ run[s].pc \in {"check", "file"}
  /\ Fault
  /\ Goes(s, "failed")
  /\ UNCHANGED <<mirror, facts, rows, note, ids, wrote, late>>

MutReply(s) == \* the notifications are not awaited
  /\ run[s].pc = "reply" \/ At(s, "chat", "notify")
  /\ Goes(s, "ok")
  /\ UNCHANGED <<mirror, facts, rows, note, ids, faults, wrote, late>>

(* All notifications are there: the message is broadcast and acknowledged. *)
Reply(s) ==
  /\ \/ run[s].pc = "reply"
     \/ /\ At(s, "chat", "notify")
        /\ \A u \in People : note[s][u] \in {"none", "stored", "skipped"}
  /\ Goes(s, "ok")
  /\ UNCHANGED <<mirror, facts, rows, note, ids, faults, wrote, late>>

(* One of them failed: the answer is send-failed, and the others go on. *)
ReplyFailed(s) ==
  /\ At(s, "chat", "notify")
  /\ \E u \in People : note[s][u] = "failed"
  /\ Goes(s, "failed")
  /\ UNCHANGED <<mirror, facts, rows, note, ids, faults, wrote, late>>

-------------------------------------------------------------------------------

(* The process dies, and every handler with it: none answers ok any more. *)
Crash ==
  /\ Fault
  /\ run' = [c \in Runs |-> IF run[c].pc \in {"unused", "ok"} THEN run[c]
                            ELSE [run[c] EXCEPT !.pc = "failed"]]
  /\ note' = [c \in Runs |-> [u \in People |->
                IF note[c][u] \in {"pref", "insert"} THEN "failed" ELSE note[c][u]]]
  /\ UNCHANGED <<mirror, facts, rows, ids, wrote, late>>

RequestStep(q) ==
  \/ \E u \in Users : StartRequest(q, u)
  \/ FindRow(q) \/ WriteFails(q) \/ Invite(q) \/ UpdateRole(q) \/ Remove(q)
  \/ RequestError(q) \/ AnswerRequest(q)

SendStep(s) ==
  \/ \E u \in People : StartSend(s, u) \/ MentionFile(s, u) \/ MentionShare(s, u)
  \/ InsertMessage(s) \/ ReadFileName(s) \/ SendError(s) \/ Reply(s) \/ ReplyFailed(s)

Step ==
  \/ \E u \in Users : ClerkDeletes(u) \/ UpsertUser(u) \/ DeleteUser(u)
  \/ \E u \in People : SetPreferences(u)
  \/ UpdateGeneralAccess \/ MoveTrash \/ PermanentDelete
  \/ \E c \in Runs : RequestStep(c) \/ SendStep(c)
  \/ \E c \in Runs, u \in People : NotePreference(c, u) \/ NoteInsert(c, u) \/ NoteError(c, u)
  \/ Crash

(* What the properties look back on. *)
Asks(c, u, off) == note[c][u] = "pref" /\ ((Kind[run[c].op] \in muted[u]) = off)

Checks(c) == run[c].pc = "check" /\ file = "live"

Grants(c, u) ==
  /\ run[c].pc = "check"
  /\ FileGrants(u) \/ (c \in opened /\ u \in shared \cap known[c])

Remember ==
  /\ opened' = opened \cup {c \in Runs : Checks(c)}'
  /\ granted' = [c \in Runs |-> granted[c] \cup {u \in People : Grants(c, u)}']
  /\ wanted'  = [c \in Runs |-> wanted[c] \cup {u \in People : Asks(c, u, FALSE)}']
  /\ spurned' = [c \in Runs |-> spurned[c] \cup {u \in People : Asks(c, u, TRUE)}']

Next == Step /\ Remember

Spec == Init /\ [][Next]_vars

-------------------------------------------------------------------------------

(* The tables agree: no share, message or notification outlives the user it    *)
(* belongs to (schema.prisma's references).                                    *)
TypeOK ==
  /\ live \subseteq Users /\ closed \subseteq Users
  /\ pending \in [Users -> SUBSET {"updated", "deleted"}]
  /\ muted \in [People -> SUBSET Kinds]
  /\ shared \subseteq live
  /\ anyone \in BOOLEAN /\ file \in {"live", "trashed", "gone"}
  /\ stored \subseteq Runs /\ \A s \in stored : run[s].user \in Present
  /\ mentions \in [Runs -> SUBSET People]
  /\ inbox \subseteq Runs \X Present
  /\ run \in [Runs -> [op : DOMAIN Kind \cup {"none"}, user : People, todo : SUBSET People,
                       asked : SUBSET People,
                       pc : {"unused", "find", "write", "check", "file", "notify", "reply",
                             "ok", "failed"}]]
  /\ note \in [Runs -> [People -> {"none", "pref", "insert", "stored", "skipped", "failed"}]]
  /\ known \in [Runs -> SUBSET People] /\ holds \subseteq Runs
  /\ faults \in 0..MaxFaults
  /\ wrote \subseteq Runs /\ late \subseteq closed
  /\ opened \subseteq Runs /\ granted \in [Runs -> SUBSET People]
  /\ wanted \in [Runs -> SUBSET People] /\ spurned \in [Runs -> SUBSET People]

(* A message mentions, and its notifications tell, only users with a ground    *)
(* for access while the send checked it, whatever list the client sent: the    *)
(* file was live and theirs or open to anyone, or they had a share of it once  *)
(* the file had been live (ChatService.create's check of every candidate, with *)
(* getAccess's reads of the file and of the share apart).  A share taken away, *)
(* or a file trashed, before the send began is no ground.                      *)
MentionsWereGranted ==
  /\ \A s \in stored : mentions[s] \subseteq granted[s]
  /\ \A n \in inbox : run[n[1]].op = "chat" => n[2] \in granted[n[1]]

(* A user told twice that her access is gone had been given it again: of two   *)
(* requests that race to remove one share, only the one that deletes the row   *)
(* tells her (SharesService.remove).                                           *)
Removals(u) == {q \in Runs : run[q].op = "remove" /\ <<q, u>> \in inbox}

RemovalToldOnce ==
  \A u \in Users : \A p, q \in Removals(u) :
    p # q => \E r \in wrote : run[r].op = "invite" /\ run[r].user = u

(* A notification is kept only for a user who had its kind switched on at some *)
(* time while her preference was to be read, in the row it was addressed to    *)
(* (NotificationsService.create).                                              *)
MutedIsSilent == \A n \in inbox : n[2] \in wanted[n[1]] \cap known[n[1]]

(* Whoever a request or a message concerns has been told by the time the       *)
(* answer says ok: the notification is kept, unless she had that kind off or   *)
(* her row is gone; of a message it also says that it is stored.               *)
Told(c, u) == <<c, u>> \in inbox \/ u \in spurned[c] \/ u \notin known[c]

OkMeansTold ==
  \A c \in Runs :
    /\ run[c].pc = "ok" /\ run[c].op # "chat" => Told(c, run[c].user)
    /\ run[c].pc = "ok" /\ run[c].op = "chat" /\ file # "gone" /\ run[c].user \in known[c] =>
         c \in stored /\ \A u \in Addressed(c) : Told(c, u)

(* The row of an account closed at Clerk is there only until its deletion is   *)
(* delivered, or because an update overtook the deletion and brought it back   *)
(* (ClerkWebhookService.handleEvent, whose order Clerk does not promise).      *)
GhostOnlyIfReordered ==
  \A u \in closed \cap live : "deleted" \in pending[u] \/ u \in late
===============================================================================
