-------------------------- MODULE ThumbnailSweepProofs ------------------------
(* Why the three reads of a thumbnail sweep may run in any order: a pointer    *)
(* that lasts from the sweep's start is there when the table it stands in is   *)
(* read, and what is read once is not forgotten before the sweep ends.         *)
EXTENDS ThumbnailSweep, FileHistoryProofs

tall == <<vars, tvars, pinned>>

(* The record of a job: whatever is in it, it has three fields. *)
JobShape == gc = [unread |-> gc.unread, listed |-> gc.listed, referenced |-> gc.referenced]

Standing == pinned \subseteq Pointers

FilesFound ==
  gc # Asleep /\ "files" \notin gc.unread =>
    \A k : <<"file", k>> \in pinned => k \in gc.referenced
VersionsFound ==
  gc # Asleep /\ "versions" \notin gc.unread =>
    \A k : <<"version", k>> \in pinned => k \in gc.referenced

PinInv == JobShape /\ Standing /\ FilesFound /\ VersionsFound

LEMMA PinInit == TInit => PinInv
  BY DEF TInit, PinInv, JobShape, Standing, FilesFound, VersionsFound, Asleep

(* The files and their versions do not know of the sweep over their thumbnails.*)
LEMMA TStepIsStep == [TNext]_tall => [Next]_vars
  BY DEF TNext, tall, vars

LEMMA TSpecIsSpec == TSpec => Spec
  <1>1. TInit => Init
    BY DEF TInit
  <1> QED
    BY <1>1, TStepIsStep, PTL DEF TSpec, Spec, tall

(* While a sweep is on, pointers only leave what is pinned. *)
LEMMA PinnedShrinks ==
  ASSUME TNext PROVE pinned' \subseteq Pointers' /\ (gc # Asleep => pinned' \subseteq pinned)
  BY DEF TNext

(* A pinned pointer is in the table its kind says. *)
LEMMA PinnedIsRead ==
  ASSUME Standing
  PROVE  /\ \A k : <<"file", k>> \in pinned => k \in FileKeys
         /\ \A k : <<"version", k>> \in pinned => k \in VersionKeys
  BY DEF Standing, Pointers

LEMMA PinStep == ASSUME PinInv, [TNext]_tall PROVE PinInv'
  <1>1. CASE UNCHANGED tall
    <2>1. Pointers' = Pointers /\ gc' = gc /\ pinned' = pinned
      BY <1>1 DEF tall, tvars, vars, Pointers, FileKeys, VersionKeys
    <2> QED
      BY <2>1 DEF PinInv, JobShape, Standing, FilesFound, VersionsFound
  <1>2. CASE TNext
    <2>1. pinned' \subseteq Pointers' /\ (gc # Asleep => pinned' \subseteq pinned)
      BY <1>2, PinnedShrinks
    <2>2. Standing'
      BY <2>1 DEF Standing
    <2>3. CASE UNCHANGED gc
      BY <2>1, <2>2, <2>3 DEF PinInv, JobShape, FilesFound, VersionsFound
    <2>4. ASSUME NEW k \in Keys, DeleteOrphan(k)
          PROVE  JobShape' /\ FilesFound' /\ VersionsFound'
      <3>1. /\ gc # Asleep /\ gc.unread = {}
            /\ gc' = [unread |-> {}, listed |-> gc.listed \ {k}, referenced |-> gc.referenced]
        BY <2>4 DEF DeleteOrphan, PinInv, JobShape, Asleep
      <3> QED
        BY <2>1, <3>1 DEF PinInv, JobShape, FilesFound, VersionsFound
    <2>5. CASE StartThumbnailSweep
      <3>1. gc' = [unread |-> {"objects", "files", "versions"}, listed |-> {}, referenced |-> {}]
        BY <2>5 DEF StartThumbnailSweep, Asleep
      <3> QED
        BY <2>2, <3>1 DEF PinInv, JobShape, FilesFound, VersionsFound
    <2>6. CASE ReadObjects
      <3>1. /\ gc # Asleep
            /\ gc' = [unread |-> gc.unread \ {"objects"}, listed |-> old \ deleted,
                      referenced |-> gc.referenced]
        <4>1. gc # Asleep
          BY <2>6 DEF ReadObjects, Asleep
        <4> QED
          BY <4>1, <2>6 DEF ReadObjects, PinInv, JobShape
      <3> QED
        BY <2>1, <2>2, <3>1 DEF PinInv, JobShape, FilesFound, VersionsFound
    <2>7. CASE ReadFileKeys
      <3>1. /\ gc # Asleep
            /\ gc' = [unread |-> gc.unread \ {"files"}, listed |-> gc.listed,
                      referenced |-> gc.referenced \cup FileKeys]
        <4>1. gc # Asleep
          BY <2>7 DEF ReadFileKeys, Asleep
        <4> QED
          BY <4>1, <2>7 DEF ReadFileKeys, PinInv, JobShape
      <3> QED
        BY <2>1, <2>2, <3>1, PinnedIsRead DEF PinInv, JobShape, FilesFound, VersionsFound
    <2>8. CASE ReadVersionKeys
      <3>1. /\ gc # Asleep
            /\ gc' = [unread |-> gc.unread \ {"versions"}, listed |-> gc.listed,
                      referenced |-> gc.referenced \cup VersionKeys]
        <4>1. gc # Asleep
          BY <2>8 DEF ReadVersionKeys, Asleep
        <4> QED
          BY <4>1, <2>8 DEF ReadVersionKeys, PinInv, JobShape
      <3> QED
        BY <2>1, <2>2, <3>1, PinnedIsRead DEF PinInv, JobShape, FilesFound, VersionsFound
    <2>9. CASE EndThumbnailSweep
      BY <2>2, <2>9 DEF EndThumbnailSweep, Asleep, PinInv, JobShape, FilesFound, VersionsFound
    <2>10. ASSUME NEW k \in Keys, GraceEnds(k) PROVE UNCHANGED gc
      BY <2>10 DEF GraceEnds
    <2>11. CASE Next /\ UNCHANGED tvars
      BY <2>3, <2>11 DEF tvars
    <2> QED
      BY <1>2, <2>2, <2>3, <2>4, <2>5, <2>6, <2>7, <2>8, <2>9, <2>10, <2>11
      DEF TNext, ThumbnailStep, PinInv
  <1> QED
    BY <1>1, <1>2

LEMMA PinnedThroughout == TSpec => []PinInv
  BY PinInit, PinStep, PTL DEF TSpec, tall

(* A key that files, or versions, have pointed to ever since the sweep began   *)
(* is not deleted by it, whichever table it reads first and whatever is saved, *)
(* restored, pruned or destroyed meanwhile.                                    *)
THEOREM PinnedKeysStay == TSpec => SweepKeepsPinned
  <1>1. ASSUME PinInv, TNext PROVE KeepsPinned
    <2> SUFFICES ASSUME NEW k \in Keys, k \in deleted' \ deleted
                 PROVE  <<"file", k>> \notin pinned /\ <<"version", k>> \notin pinned
      BY DEF KeepsPinned
    <2>1. PICK j \in Keys : DeleteOrphan(j)
      BY <1>1 DEF TNext, tvars, ThumbnailStep, GraceEnds, StartThumbnailSweep, ReadObjects,
                  ReadFileKeys, ReadVersionKeys, EndThumbnailSweep
    <2>2. k \in gc.listed /\ k \notin gc.referenced /\ gc.unread = {}
      BY <2>1 DEF DeleteOrphan
    <2>3. gc # Asleep
      BY <2>2 DEF Asleep
    <2> QED
      BY <1>1, <2>2, <2>3 DEF PinInv, FilesFound, VersionsFound
  <1>2. PinInv /\ [TNext]_tall => [KeepsPinned]_tall
    BY <1>1 DEF tall
  <1> QED
    BY <1>2, PinnedThroughout, PTL DEF TSpec, SweepKeepsPinned, tall

(* The history's invariants hold beside the thumbnail sweep, too.              *)
COROLLARY HistoryHoldsBesideSweep == TSpec => [](TypeOK /\ AutoCap /\ AutoOnlyAfterChange)
  BY TSpecIsSpec, TypeCorrect, RetentionHolds, StatesVersionedOnce, PTL
===============================================================================
