----------------------------- MODULE ThumbnailSweep ---------------------------
(* ThumbnailSweepService over the files of FileHistory: an object in storage   *)
(* that no File and no FileVersion row points to is deleted.  The three reads  *)
(* of a sweep run side by side, and requests commit between them and between   *)
(* the deletions that follow.                                                  *)
EXTENDS FileHistory

VARIABLES old,      \* uploaded objects older than the grace period
          deleted,  \* objects deleted from storage
          gc,       \* the thumbnail-sweep worker
          pinned    \* history: what has pointed to a key since the sweep began

tvars == <<old, deleted, gc>>

Asleep == [unread |-> {}, listed |-> {}, referenced |-> {}]

(* Who points to a key: a file, or a version of it. *)
FileKeys    == {file[f].thumb : f \in {g \in Files : file[g].life # "gone"}}
VersionKeys == UNION {{v.thumb : v \in versions[f]} : f \in Files}
Pointers    == ({"file"} \X FileKeys) \cup ({"version"} \X VersionKeys)

TInit == /\ Init
         /\ old = {} /\ deleted = {}
         /\ gc = Asleep
         /\ pinned = {}

(* An object passes the grace period.  No request takes that long to write the *)
(* key it brought, and no sweep lasts that long.                               *)
GraceEnds(k) ==
  /\ gc = Asleep
  /\ k \in used \ old
  /\ \A q \in Requests : req[q].key # k
  /\ old' = old \cup {k}
  /\ UNCHANGED <<deleted, gc>>

StartThumbnailSweep ==
  /\ gc = Asleep
  /\ old \ deleted # {}
  /\ gc' = [Asleep EXCEPT !.unread = {"objects", "files", "versions"}]
  /\ UNCHANGED <<old, deleted>>

ReadObjects ==
  /\ "objects" \in gc.unread
  /\ gc' = [gc EXCEPT !.unread = @ \ {"objects"}, !.listed = old \ deleted]
  /\ UNCHANGED <<old, deleted>>

ReadFileKeys ==
  /\ "files" \in gc.unread
  /\ gc' = [gc EXCEPT !.unread = @ \ {"files"}, !.referenced = @ \cup FileKeys]
  /\ UNCHANGED <<old, deleted>>

MutReadVersionKeys ==
  /\ "versions" \in gc.unread
  /\ gc' = [gc EXCEPT !.unread = @ \ {"versions"}]
  /\ UNCHANGED <<old, deleted>>
ReadVersionKeys ==
  /\ "versions" \in gc.unread
  /\ gc' = [gc EXCEPT !.unread = @ \ {"versions"}, !.referenced = @ \cup VersionKeys]
  /\ UNCHANGED <<old, deleted>>

DeleteOrphan(k) ==
  /\ gc.unread = {}
  /\ k \in gc.listed \ gc.referenced
  /\ deleted' = deleted \cup {k}
  /\ gc' = [gc EXCEPT !.listed = @ \ {k}]
  /\ UNCHANGED old

(* All orphans are deleted, or one deletion failed and the job with it. *)
EndThumbnailSweep ==
  /\ gc # Asleep /\ gc.unread = {}
  /\ gc' = Asleep
  /\ UNCHANGED <<old, deleted>>

ThumbnailStep ==
  \/ \E k \in Keys : GraceEnds(k) \/ DeleteOrphan(k)
  \/ StartThumbnailSweep \/ ReadObjects \/ ReadFileKeys \/ ReadVersionKeys
  \/ EndThumbnailSweep

TNext == /\ \/ Next /\ UNCHANGED tvars
            \/ ThumbnailStep /\ UNCHANGED vars
         /\ pinned' = IF gc = Asleep THEN Pointers' ELSE pinned \cap Pointers'

TSpec == TInit /\ [][TNext]_<<vars, tvars, pinned>>

(* The clock moves, and the job scheduler keeps the worker sweeping idle files;*)
(* nothing is asked of the thumbnail sweep.                                    *)
FairTSpec == TSpec /\ WF_vars(Tick) /\ WF_vars(SweepStep)

-------------------------------------------------------------------------------
(* Properties *)

(* The test "never deletes a key still referenced by a FileVersion, even if    *)
(* the File moved on": a key that files, or versions, have pointed to ever     *)
(* since the sweep began is not deleted by it, in whatever order it reads.     *)
KeepsPinned ==
  \A k \in Keys : k \in deleted' \ deleted => pinned \cap {<<"file", k>>, <<"version", k>>} = {}

SweepKeepsPinned == [][KeepsPinned]_<<vars, tvars, pinned>>

(* The comment on sweep: an object no File or FileVersion row points to is     *)
(* safe to delete, that is, no row ever points to a deleted one.               *)
PointersAreLive == (FileKeys \cup VersionKeys) \cap deleted = {}
===============================================================================
