------------------------------ MODULE FileHistory -----------------------------
(* A file's row and its saved versions: FilesService, FileVersionsService and  *)
(* the sweep that versions idle files.  A request first passes FileAccessGuard,*)
(* which reads the file's row, and writes later; the row may change between.   *)
(*                                                                             *)
(* Time is kept as revisions: every file.update bumps updatedAt, so a version  *)
(* created at or after a file's last update is one inserted at its present     *)
(* revision.  (Two writes within one millisecond are not told apart.)  The     *)
(* versions of a file are ordered by createdAt, kept as how many were created. *)
EXTENDS Integers, FiniteSets

CONSTANTS Files,
          Requests,    \* HTTP requests on files
          Keys,        \* storage keys of uploaded thumbnails, used once each
          NoKey,       \* thumbnailUrl IS NULL
          NoFile,
          Cap,         \* AUTO_VERSION_CAP
          Limit,       \* LIMIT of the idle-files query
          IdleWindow,  \* IDLE_WINDOW_MS, in ticks
          MaxRev,      \* bound on the updates of one file
          MaxFaults    \* bound on crashes and failed transactions

ASSUME HistoryAssumption ==
  /\ NoKey \notin Keys /\ NoFile \notin Files
  /\ Cap \in Nat \ {0} /\ Limit \in Nat \ {0}
  /\ IdleWindow \in Nat /\ MaxRev \in Nat /\ MaxFaults \in Nat

VARIABLES file,      \* the File row: life, currentData, thumbnail, revision
          versions,  \* its FileVersion rows
          made,      \* how many FileVersion rows it has had
          idle,      \* ticks since a file's last update
          req,       \* what each request is and how far it got
          used,      \* thumbnail keys clients have uploaded and sent
          sweep,     \* the file-versioning worker
          faults

vars == <<file, versions, made, idle, req, used, sweep, faults>>

(* Content is named by the revision of the write that brought it in. *)
NewFile == [life |-> "live", data |-> 0, thumb |-> NoKey, rev |-> 0]
Content == [data : 0..MaxRev, thumb : Keys \cup {NoKey}]
NoContent == [data |-> 0, thumb |-> NoKey]

Unused  == [op |-> "none", pc |-> "unused", file |-> NoFile, key |-> NoKey,
            seen |-> NoContent]
Answered == [Unused EXCEPT !.pc = "done"]
Resting == [todo |-> {}, cur |-> NoFile, seen |-> NoContent]

Row(f) == [data |-> file[f].data, thumb |-> file[f].thumb]

Init == /\ file = [f \in Files |-> NewFile]
        /\ versions = [f \in Files |-> {}] /\ made = [f \in Files |-> 0]
        /\ idle = [f \in Files |-> 0]
        /\ req = [q \in Requests |-> Unused]
        /\ used = {}
        /\ sweep = Resting
        /\ faults = 0

-------------------------------------------------------------------------------
(* Writes *)

(* prisma.file.update: updatedAt moves with every one. *)
Write(f, life, content) ==
  /\ file[f].rev < MaxRev
  /\ file' = [file EXCEPT ![f] = [life |-> life, data |-> content.data,
                                  thumb |-> content.thumb, rev |-> @.rev + 1]]
  /\ idle' = [idle EXCEPT ![f] = 0]

Version(f, content, origin) ==
  [data |-> content.data, thumb |-> content.thumb, origin |-> origin,
   rev |-> file[f].rev, born |-> made[f] + 1]

(* createAutoVersion's retention: of the AUTO versions the newest Cap stay. *)
Autos(vs)    == {v \in vs : v.origin = "AUTO"}
Since(vs, v) == {w \in vs : w.born >= v.born}
Newest(vs)   == {v \in vs : Cardinality(Since(vs, v)) <= Cap}

MutPrune(vs)    == {v \in vs : v \in Autos(vs) => Cardinality(Since(Autos(vs), v)) <= Cap + 1}
MutPruneAny(vs) == Newest(vs)
MutPruneShort(vs) == {v \in vs : v \in Autos(vs) => Cardinality(Since(Autos(vs), v)) < Cap}
Prune(vs) == (vs \ Autos(vs)) \cup Newest(Autos(vs))

-------------------------------------------------------------------------------
(* Requests.  Each is admitted by FileAccessGuard, which sees the row of a     *)
(* file that is not in the trash, or in it where @AllowDeleted() says so.      *)

Sees(op, f) == file[f].life \in IF op \in {"untrash", "purge"} THEN {"live", "trashed"}
                                ELSE {"live"}

Fresh(k) == k = NoKey \/ k \in Keys \ used

Admit(q, op, f, k) ==
  /\ req[q].pc = "unused"
  /\ Sees(op, f)
  /\ Fresh(k) /\ (k # NoKey => op \in {"edit", "save"})
  /\ req' = [req EXCEPT ![q] = [op |-> op, pc |-> IF op = "restore" THEN "find" ELSE "write",
                                file |-> f, key |-> k, seen |-> Row(f)]]
  /\ used' = used \cup ({k} \ {NoKey})
  /\ UNCHANGED <<file, versions, made, idle, sweep, faults>>

At(q, op, pc) == req[q].op = op /\ req[q].pc = pc
Gone(q)       == file[req[q].file].life = "gone"
Finish(q)     == req' = [req EXCEPT ![q] = Answered]

(* The file was destroyed since the guard read it: Prisma finds no row to      *)
(* update (P2025), or none for a version to refer to (P2003).                  *)
RowIsGone(q) ==
  /\ req[q].pc \in {"write", "thumb"}
  /\ Gone(q)
  /\ Finish(q)
  /\ UNCHANGED <<file, versions, made, idle, used, sweep, faults>>

(* PATCH /files/:id: a drawing, a thumbnail, or both. *)
Edit(q) ==
  LET f == req[q].file
      k == req[q].key IN
  /\ At(q, "edit", "write") /\ ~Gone(q)
  /\ \/ Write(f, file[f].life, [data |-> file[f].rev + 1,
                                thumb |-> IF k = NoKey THEN file[f].thumb ELSE k])
     \/ k # NoKey /\ Write(f, file[f].life, [data |-> file[f].data, thumb |-> k])
  /\ Finish(q)
  /\ UNCHANGED <<versions, made, used, sweep, faults>>

(* POST versions: what is saved is the row the guard saw, with the thumbnail   *)
(* the caller sent if it sent one.                                             *)
SaveCreate(q) ==
  LET f == req[q].file
      k == req[q].key IN
  /\ At(q, "save", "write") /\ ~Gone(q)
  /\ versions' = [versions EXCEPT ![f] =
       @ \cup {Version(f, [req[q].seen EXCEPT !.thumb = IF k = NoKey THEN @ ELSE k],
                       "MANUAL")}]
  /\ made' = [made EXCEPT ![f] = @ + 1]
  /\ req' = [req EXCEPT ![q] = IF k = NoKey THEN Answered ELSE [@ EXCEPT !.pc = "thumb"]]
  /\ UNCHANGED <<file, idle, used, sweep, faults>>

SaveThumbnail(q) ==
  LET f == req[q].file IN
  /\ At(q, "save", "thumb") /\ ~Gone(q)
  /\ Write(f, file[f].life, [data |-> file[f].data, thumb |-> req[q].key])
  /\ Finish(q)
  /\ UNCHANGED <<versions, made, used, sweep, faults>>

(* POST versions/:id/restore: find the version, then copy it into the row. *)
RestoreFind(q) ==
  LET f == req[q].file IN
  /\ At(q, "restore", "find")
  /\ \/ \E v \in versions[f] :
          req' = [req EXCEPT ![q].pc = "write", ![q].seen = [data |-> v.data, thumb |-> v.thumb]]
     \/ Finish(q)                                  \* pruned, or never was
  /\ UNCHANGED <<file, versions, made, idle, used, sweep, faults>>

RestoreWrite(q) ==
  LET f == req[q].file IN
  /\ At(q, "restore", "write") /\ ~Gone(q)
  /\ Write(f, file[f].life, req[q].seen)
  /\ Finish(q)
  /\ UNCHANGED <<versions, made, used, sweep, faults>>

(* DELETE /files/:id and POST /files/:id/restore move a file in and out of the *)
(* trash, whichever side of it the file is on by now.                          *)
SoftDelete(q) ==
  /\ At(q, "trash", "write") /\ ~Gone(q)
  /\ Write(req[q].file, "trashed", Row(req[q].file))
  /\ Finish(q)
  /\ UNCHANGED <<versions, made, used, sweep, faults>>

Untrash(q) ==
  /\ At(q, "untrash", "write") /\ ~Gone(q)
  /\ Write(req[q].file, "live", Row(req[q].file))
  /\ Finish(q)
  /\ UNCHANGED <<versions, made, used, sweep, faults>>

(* DELETE /files/:id/permanent: deleteMany looks again that the file is in the *)
(* trash; the versions go with it.                                             *)
PermanentDelete(q) ==
  LET f == req[q].file IN
  /\ At(q, "purge", "write") /\ ~Gone(q)
  /\ IF file[f].life = "trashed"
     THEN /\ file' = [file EXCEPT ![f] = [NewFile EXCEPT !.life = "gone"]]
          /\ versions' = [versions EXCEPT ![f] = {}]
          /\ idle' = [idle EXCEPT ![f] = 0]
     ELSE UNCHANGED <<file, versions, idle>>
  /\ Finish(q)
  /\ UNCHANGED <<made, used, sweep, faults>>

-------------------------------------------------------------------------------
(* The sweep for idle files: one worker, one job at a time. *)

MutDue(f) == /\ file[f].life = "live"
             /\ idle[f] >= IdleWindow
             /\ versions[f] = {}
MutDueAgain(f) == /\ file[f].life = "live"
                  /\ idle[f] >= IdleWindow
Due(f) == /\ file[f].life = "live"
          /\ idle[f] >= IdleWindow
          /\ \A v \in versions[f] : v.rev < file[f].rev

(* The query takes Limit files at most; which of them is left open here. *)
SweepIdleFiles ==
  /\ sweep = Resting
  /\ \E batch \in SUBSET {f \in Files : Due(f)} :
       /\ batch # {}
       /\ Cardinality(batch) <= Limit
       /\ Cardinality(batch) < Limit => \A f \in Files : Due(f) => f \in batch
       /\ sweep' = [Resting EXCEPT !.todo = batch]
  /\ UNCHANGED <<file, versions, made, idle, req, used, faults>>

Without(f) == [Resting EXCEPT !.todo = sweep.todo \ {f}]

(* createAutoVersion reads the row; a file that is gone is passed over. *)
AutoRead(f) ==
  /\ f \in sweep.todo /\ sweep.cur = NoFile
  /\ sweep' = IF file[f].life = "gone" THEN Without(f)
              ELSE [sweep EXCEPT !.cur = f, !.seen = Row(f)]
  /\ UNCHANGED <<file, versions, made, idle, req, used, faults>>

(* The rest of its transaction: insert, look at the AUTO versions, prune.  The *)
(* insert fails if the file has gone since, and the sweep goes on.             *)
MutAutoWrite(f) ==
  /\ f = sweep.cur
  /\ versions' = [versions EXCEPT ![f] = Prune(@ \cup {Version(f, sweep.seen, "AUTO")})]
  /\ made' = [made EXCEPT ![f] = @ + 1]
  /\ sweep' = Without(f)
  /\ UNCHANGED <<file, idle, req, used, faults>>
AutoWrite(f) ==
  /\ f = sweep.cur
  /\ IF file[f].life = "gone"
     THEN UNCHANGED <<versions, made>>
     ELSE /\ versions' = [versions EXCEPT ![f] = Prune(@ \cup {Version(f, sweep.seen, "AUTO")})]
          /\ made' = [made EXCEPT ![f] = @ + 1]
  /\ sweep' = Without(f)
  /\ UNCHANGED <<file, idle, req, used, faults>>

(* The transaction fails for some other reason: logged, and the sweep goes on. *)
AutoFails(f) ==
  /\ f = sweep.cur
  /\ faults < MaxFaults
  /\ faults' = faults + 1
  /\ sweep' = Without(f)
  /\ UNCHANGED <<file, versions, made, idle, req, used>>

-------------------------------------------------------------------------------

(* The process dies: requests end where they are, the sweep with them. *)
Crash ==
  /\ faults < MaxFaults
  /\ faults' = faults + 1
  /\ req' = [q \in Requests |-> IF req[q].pc = "unused" THEN req[q] ELSE Answered]
  /\ sweep' = Resting
  /\ UNCHANGED <<file, versions, made, idle, used>>

(* Time passes over the files nobody updates. *)
Tick ==
  /\ \E f \in Files : idle[f] < IdleWindow
  /\ idle' = [f \in Files |-> IF idle[f] < IdleWindow THEN idle[f] + 1 ELSE idle[f]]
  /\ UNCHANGED <<file, versions, made, req, used, sweep, faults>>

Ops == {"edit", "save", "restore", "trash", "untrash", "purge"}

RequestStep(q) ==
  \/ \E op \in Ops, f \in Files, k \in Keys \cup {NoKey} : Admit(q, op, f, k)
  \/ RowIsGone(q) \/ Edit(q) \/ SaveCreate(q) \/ SaveThumbnail(q)
  \/ RestoreFind(q) \/ RestoreWrite(q) \/ SoftDelete(q) \/ Untrash(q) \/ PermanentDelete(q)

SweepStep ==
  \/ SweepIdleFiles
  \/ \E f \in Files : AutoRead(f) \/ AutoWrite(f) \/ AutoFails(f)

Next == (\E q \in Requests : RequestStep(q)) \/ SweepStep \/ Crash \/ Tick

Spec == Init /\ [][Next]_vars

-------------------------------------------------------------------------------
(* Properties *)

Rows == [life : {"live", "trashed", "gone"}, data : 0..MaxRev,
         thumb : Keys \cup {NoKey}, rev : 0..MaxRev]
VersionRows == [data : 0..MaxRev, thumb : Keys \cup {NoKey},
                origin : {"MANUAL", "AUTO"}, rev : 0..MaxRev, born : Nat]

(* The types, and: no version outlives its file, whatever was still being      *)
(* saved when the file was destroyed.                                          *)
TypeOK ==
  /\ file \in [Files -> Rows]
  /\ versions \in [Files -> SUBSET VersionRows] /\ made \in [Files -> Nat]
  /\ \A f \in Files : file[f].life = "gone" => versions[f] = {}
  /\ idle \in [Files -> 0..IdleWindow]
  /\ req \in [Requests -> [op : Ops \cup {"none"},
                           pc : {"unused", "find", "write", "thumb", "done"},
                           file : Files \cup {NoFile}, key : Keys \cup {NoKey},
                           seen : Content]]
  /\ used \subseteq Keys
  /\ sweep \in [todo : SUBSET Files, cur : Files \cup {NoFile}, seen : Content]
  /\ faults \in 0..MaxFaults

(* However sweeps and saves alternate, a file never keeps more automatic       *)
(* versions than the cap.                                                      *)
AutoCap == \A f \in Files : Cardinality(Autos(versions[f])) <= Cap

(* A sweep never versions the same state of a file twice: between two AUTO     *)
(* versions of a file there was an update.                                     *)
AutoOnlyAfterChange ==
  \A f \in Files : \A v, w \in Autos(versions[f]) : v.born < w.born => v.rev < w.rev

(* What a user saved is there until the file is destroyed: retention, restores *)
(* and trips to the trash take away no MANUAL version and alter none.          *)
ManualKept ==
  [][\A f \in Files :
       file'[f].life # "gone" => versions[f] \ Autos(versions[f]) \subseteq versions'[f]]_vars

(* Requests, the sweep and its retention keep the promise of VersionLog: what  *)
(* is saved stays, and a state is versioned once and dropped in its turn.      *)
Log == INSTANCE VersionLog WITH
         destroyed <- {f \in Files : file[f].life = "gone"},
         saved <- [f \in Files |-> versions[f] \ Autos(versions[f])],
         autos <- [f \in Files |-> Autos(versions[f])]

ImplementsLog == Log!Spec

(* Every file that lies idle without a version of its last update gets one,    *)
(* unless it is updated or trashed first; a failing transaction is made up for.*)
IdleIsVersioned ==
  \A f \in Files :
    /\ file[f].life = "live" /\ idle[f] >= IdleWindow
    /\ \A v \in versions[f] : v.rev < file[f].rev
    ~> \/ file[f].life # "live" \/ idle[f] < IdleWindow
       \/ \E v \in versions[f] : v.rev >= file[f].rev

(* The test "save snapshots currentData into a new FileVersion": a version     *)
(* made after a file's last update holds what the file holds.  The idle sweep  *)
(* relies on it: it passes over a file that has such a version.                *)
NewestVersionIsCurrent ==
  \A f \in Files : \A v \in versions[f] :
    v.rev = file[f].rev => v.data = file[f].data
===============================================================================
