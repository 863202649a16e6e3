--------------------------- MODULE FileHistoryProofs --------------------------
(* What FileHistory guarantees for any number of files, requests and keys, any *)
(* cap, limit and idle window, and any number of updates and faults.           *)
EXTENDS FileHistory, FiniteSetTheorems, WellFoundedInduction, TLAPS

Pcs    == {"unused", "find", "write", "thumb", "done"}
Runs   == [op : Ops \cup {"none"}, pc : Pcs, file : Files \cup {NoFile},
           key : Keys \cup {NoKey}, seen : Content]
Sweeps == [todo : SUBSET Files, cur : Files \cup {NoFile}, seen : Content]

(* A request under way is on a file, and the file the sweep has in hand is one *)
(* of its batch.                                                               *)
RunsInv ==
  /\ \A q \in Requests : req[q].pc \in {"find", "write", "thumb"} => req[q].file \in Files
  /\ sweep.cur # NoFile => sweep.cur \in sweep.todo

TypeInv == TypeOK /\ RunsInv

LEMMA Contents ==
  /\ NoContent \in Content
  /\ Unused \in Runs /\ Answered \in Runs /\ Resting \in Sweeps
  /\ Unused.pc = "unused" /\ Answered.pc = "done"
  /\ Resting.cur = NoFile /\ Resting.todo = {}
  <1>1. NoContent \in Content
    BY HistoryAssumption DEF NoContent, Content
  <1> QED
    BY <1>1 DEF Unused, Answered, Resting, Runs, Sweeps, Pcs

LEMMA RowType == ASSUME TypeOK, NEW f \in Files PROVE Row(f) \in Content
  BY DEF TypeOK, Row, Rows, Content

LEMMA TypeInit == Init => TypeInv
  <1> SUFFICES ASSUME Init PROVE TypeInv
    OBVIOUS
  <1>1. NewFile \in Rows
    BY HistoryAssumption DEF NewFile, Rows
  <1>2. TypeOK
    BY <1>1, Contents, HistoryAssumption DEF Init, TypeOK, NewFile, Runs, Sweeps, Pcs
  <1>3. RunsInv
    BY Contents DEF Init, RunsInv
  <1> QED
    BY <1>2, <1>3 DEF TypeInv

-------------------------------------------------------------------------------
(* What a step can do to a file and to the batch of the sweep. *)

Untouched(f) == /\ versions'[f] = versions[f] /\ made'[f] = made[f]
                /\ file'[f].life = file[f].life /\ file'[f].rev = file[f].rev

Updated(f) == /\ versions'[f] = versions[f] /\ made'[f] = made[f]
              /\ file[f].life # "gone" /\ file'[f].life # "gone"
              /\ file'[f].rev = file[f].rev + 1

Grows(f, v) == /\ v \in VersionRows
               /\ v.born = made[f] + 1 /\ made'[f] = made[f] + 1
               /\ v.rev = file[f].rev
               /\ file[f].life # "gone" /\ file'[f] = file[f]

Saved(f) == \E v : /\ Grows(f, v) /\ v.origin = "MANUAL"
                   /\ versions'[f] = versions[f] \cup {v}

Versioned(f) == \E v : /\ Grows(f, v) /\ v.origin = "AUTO"
                       /\ versions'[f] = Prune(versions[f] \cup {v})
                       /\ f \in sweep.todo /\ f \notin sweep'.todo

Destroyed(f) == /\ file'[f].life = "gone" /\ file'[f].rev = 0
                /\ versions'[f] = {} /\ made'[f] = made[f]

Touched(f) == Updated(f) \/ Saved(f) \/ Versioned(f) \/ Destroyed(f)

Delta ==
  /\ \/ \A f \in Files : Untouched(f)
     \/ \E f \in Files : Touched(f) /\ \A g \in Files \ {f} : Untouched(g)
  /\ \/ sweep'.todo \subseteq sweep.todo
     \/ (\A f \in sweep'.todo : Due(f)) /\ \A f \in Files : Untouched(f)

Good == TypeInv' /\ Delta

LEMMA WriteRow ==
  ASSUME TypeOK, NEW f \in Files, NEW life \in {"live", "trashed"}, NEW content \in Content,
         file[f].life # "gone", Write(f, life, content), UNCHANGED <<versions, made>>
  PROVE  /\ file' \in [Files -> Rows] /\ idle' \in [Files -> 0..IdleWindow]
         /\ Updated(f) /\ \A g \in Files \ {f} : Untouched(g)
         /\ \A g \in Files : file'[g].life = "gone" => versions'[g] = {}
  <1>1. [life |-> life, data |-> content.data, thumb |-> content.thumb,
         rev |-> file[f].rev + 1] \in Rows
    BY HistoryAssumption DEF Write, TypeOK, Rows, Content
  <1>2. file' \in [Files -> Rows] /\ idle' \in [Files -> 0..IdleWindow]
    BY <1>1, HistoryAssumption DEF Write, TypeOK
  <1>3. /\ file'[f].life = life /\ file'[f].rev = file[f].rev + 1
        /\ \A g \in Files \ {f} : file'[g] = file[g]
    BY DEF Write, TypeOK
  <1> QED
    BY <1>2, <1>3 DEF Updated, Untouched, TypeOK

LEMMA FinishType ==
  ASSUME TypeInv, NEW q \in Requests, Finish(q)
  PROVE  /\ req' \in [Requests -> Runs]
         /\ \A p \in Requests : req'[p].pc \in {"find", "write", "thumb"} => req'[p].file \in Files
  BY Contents DEF Finish, TypeInv, TypeOK, RunsInv, Runs, Pcs

LEMMA RequestGood == ASSUME TypeInv, NEW q \in Requests, RequestStep(q) PROVE Good
  <1> USE DEF TypeInv
  <1>0. TypeOK /\ RunsInv /\ req \in [Requests -> Runs] /\ sweep \in Sweeps
    BY DEF TypeOK, Runs, Sweeps, Pcs
  <1>1. ASSUME NEW op \in Ops, NEW f \in Files, NEW k \in Keys \cup {NoKey}, Admit(q, op, f, k)
        PROVE  Good
    <2>1. req'[q] = [op |-> op, pc |-> IF op = "restore" THEN "find" ELSE "write",
                     file |-> f, key |-> k, seen |-> Row(f)]
      BY <1>0, <1>1 DEF Admit
    <2>2. req'[q] \in Runs /\ req'[q].file = f
      BY <1>0, <2>1, RowType DEF Runs, Pcs
    <2>3. req' \in [Requests -> Runs] /\ \A p \in Requests \ {q} : req'[p] = req[p]
      BY <1>0, <1>1, <2>2 DEF Admit
    <2>4. used' \subseteq Keys
      BY <1>0, <1>1 DEF Admit, TypeOK
    <2> QED
      BY <1>0, <1>1, <2>2, <2>3, <2>4
      DEF Admit, Good, TypeOK, RunsInv, Runs, Pcs, Delta, Untouched
  <1>2. ASSUME UNCHANGED <<file, versions, made, idle, used, sweep, faults>>,
               req' \in [Requests -> Runs],
               \A p \in Requests : req'[p].pc \in {"find", "write", "thumb"} => req'[p].file \in Files
        PROVE  Good
    BY <1>0, <1>2 DEF Good, TypeOK, RunsInv, Runs, Pcs, Delta, Untouched
  <1>3. CASE RowIsGone(q)
    BY <1>2, <1>3, FinishType DEF RowIsGone
  <1>4. CASE RestoreFind(q)
    <2>1. CASE Finish(q)
      BY <1>2, <1>4, <2>1, FinishType DEF RestoreFind
    <2>2. CASE \E v \in versions[req[q].file] :
                 req' = [req EXCEPT ![q].pc = "write",
                                    ![q].seen = [data |-> v.data, thumb |-> v.thumb]]
      <3>1. req[q].file \in Files
        BY <1>0, <1>4 DEF RestoreFind, At, RunsInv
      <3>2. PICK v \in versions[req[q].file] :
              req' = [req EXCEPT ![q].pc = "write",
                                 ![q].seen = [data |-> v.data, thumb |-> v.thumb]]
        BY <2>2
      <3>3. [data |-> v.data, thumb |-> v.thumb] \in Content
        BY <1>0, <3>1, <3>2 DEF TypeOK, VersionRows, Content
      <3>4. req'[q] \in Runs /\ req'[q].file = req[q].file
        BY <1>0, <3>2, <3>3 DEF Runs, Pcs
      <3>5. req' \in [Requests -> Runs] /\ \A p \in Requests \ {q} : req'[p] = req[p]
        BY <1>0, <3>2, <3>4
      <3> QED
        BY <1>0, <1>2, <1>4, <3>1, <3>4, <3>5 DEF RestoreFind, RunsInv
    <2> QED
      BY <1>4, <2>1, <2>2 DEF RestoreFind
  <1> DEFINE f == req[q].file
  <1>5. ASSUME req[q].pc \in {"find", "write", "thumb"}, ~Gone(q)
        PROVE  f \in Files /\ file[f].life \in {"live", "trashed"}
    BY <1>0, <1>5 DEF RunsInv, Gone, TypeOK, Rows
  <1>6. ASSUME NEW life \in {"live", "trashed"}, NEW content \in Content,
               req[q].pc \in {"find", "write", "thumb"}, ~Gone(q),
               Write(f, life, content), Finish(q), UNCHANGED <<versions, made, used, sweep, faults>>
        PROVE  Good
    <2>1. /\ file' \in [Files -> Rows] /\ idle' \in [Files -> 0..IdleWindow]
          /\ Updated(f) /\ \A g \in Files \ {f} : Untouched(g)
          /\ \A g \in Files : file'[g].life = "gone" => versions'[g] = {}
      BY <1>0, <1>5, <1>6, WriteRow
    <2>2. TypeInv'
      BY <1>0, <1>6, <2>1, FinishType DEF TypeOK, RunsInv, Runs, Pcs
    <2> QED
      BY <1>5, <1>6, <2>1, <2>2 DEF Good, Delta, Touched
  <1>7. CASE Edit(q)
    <2>1. /\ req[q].pc = "write" /\ ~Gone(q) /\ Finish(q)
          /\ UNCHANGED <<versions, made, used, sweep, faults>>
      BY <1>7 DEF Edit, At
    <2>2. f \in Files /\ file[f].life \in {"live", "trashed"} /\ file[f] \in Rows
          /\ req[q].key \in Keys \cup {NoKey}
      BY <1>0, <1>5, <2>1 DEF TypeOK, Runs
    <2>3. CASE Write(f, file[f].life, [data |-> file[f].rev + 1,
                            thumb |-> IF req[q].key = NoKey THEN file[f].thumb ELSE req[q].key])
      <3>1. [data |-> file[f].rev + 1,
             thumb |-> IF req[q].key = NoKey THEN file[f].thumb ELSE req[q].key] \in Content
        BY <2>2, <2>3, HistoryAssumption DEF Write, Rows, Content
      <3> QED
        BY <1>6, <2>1, <2>2, <2>3, <3>1
    <2>4. CASE Write(f, file[f].life, [data |-> file[f].data, thumb |-> req[q].key])
      <3>1. [data |-> file[f].data, thumb |-> req[q].key] \in Content
        BY <2>2 DEF Rows, Content
      <3> QED
        BY <1>6, <2>1, <2>2, <2>4, <3>1
    <2> QED
      BY <1>7, <2>3, <2>4 DEF Edit
  <1>8. CASE SaveThumbnail(q)
    <2>1. /\ req[q].pc = "thumb" /\ ~Gone(q) /\ Finish(q)
          /\ UNCHANGED <<versions, made, used, sweep, faults>>
          /\ Write(f, file[f].life, [data |-> file[f].data, thumb |-> req[q].key])
      BY <1>8 DEF SaveThumbnail, At
    <2>2. f \in Files /\ file[f].life \in {"live", "trashed"}
      BY <1>5, <2>1
    <2>3. [data |-> file[f].data, thumb |-> req[q].key] \in Content
      BY <1>0, <2>2 DEF TypeOK, Rows, Content, Runs
    <2> QED
      BY <1>6, <2>1, <2>2, <2>3
  <1>9. CASE RestoreWrite(q)
    <2>1. /\ req[q].pc = "write" /\ ~Gone(q) /\ Finish(q) /\ req[q].seen \in Content
          /\ UNCHANGED <<versions, made, used, sweep, faults>>
          /\ Write(f, file[f].life, req[q].seen)
      BY <1>0, <1>9 DEF RestoreWrite, At, Runs
    <2> QED
      BY <1>5, <1>6, <2>1
  <1>10. CASE SoftDelete(q) \/ Untrash(q)
    <2>1. /\ req[q].pc = "write" /\ ~Gone(q) /\ Finish(q)
          /\ UNCHANGED <<versions, made, used, sweep, faults>>
          /\ \E life \in {"live", "trashed"} : Write(f, life, Row(f))
      BY <1>10 DEF SoftDelete, Untrash, At
    <2>2. Row(f) \in Content
      BY <1>0, <1>5, <2>1, RowType
    <2> QED
      BY <1>6, <2>1, <2>2
  <1>11. CASE SaveCreate(q)
    <2> DEFINE c == [req[q].seen EXCEPT !.thumb = IF req[q].key = NoKey THEN @ ELSE req[q].key]
               v == Version(f, c, "MANUAL")
    <2>1. f \in Files /\ file[f].life \in {"live", "trashed"} /\ file[f] \in Rows
          /\ req[q] \in Runs
      BY <1>0, <1>5, <1>11 DEF SaveCreate, At, TypeOK
    <2>2. c \in Content
      BY <2>1 DEF Runs, Content
    <2>3. /\ versions' = [versions EXCEPT ![f] = @ \cup {v}]
          /\ made' = [made EXCEPT ![f] = @ + 1]
          /\ req' = [req EXCEPT ![q] = IF req[q].key = NoKey THEN Answered
                                                 ELSE [req[q] EXCEPT !.pc = "thumb"]]
          /\ UNCHANGED <<file, idle, used, sweep, faults>>
      BY <1>11 DEF SaveCreate
    <2>4. v \in VersionRows /\ v.born = made[f] + 1 /\ v.rev = file[f].rev /\ v.origin = "MANUAL"
      BY <1>0, <2>1, <2>2 DEF Version, VersionRows, Rows, Content, TypeOK
    <2>5. req' \in [Requests -> Runs] /\ \A p \in Requests : req'[p].file \in {req[p].file, NoFile}
      <3>1. Answered.file = NoFile
        BY DEF Answered, Unused
      <3> QED
        BY <1>0, <2>1, <2>3, <3>1, Contents DEF Runs, Pcs
    <2>6. \A p \in Requests : req'[p].pc \in {"find", "write", "thumb"} => req'[p].file \in Files
      BY <1>0, <2>1, <2>3, Contents DEF RunsInv, Runs
    <2>7. versions' \in [Files -> SUBSET VersionRows] /\ made' \in [Files -> Nat]
      BY <1>0, <2>1, <2>3, <2>4 DEF TypeOK
    <2>8. Saved(f) /\ \A g \in Files \ {f} : Untouched(g)
      BY <1>0, <2>1, <2>3, <2>4 DEF Saved, Grows, Untouched, TypeOK
    <2>9. TypeInv'
      BY <1>0, <2>1, <2>3, <2>5, <2>6, <2>7 DEF TypeOK, RunsInv, Runs, Pcs
    <2> QED
      BY <2>1, <2>3, <2>8, <2>9 DEF Good, Delta, Touched
  <1>12. CASE PermanentDelete(q)
    <2>1. /\ req[q].pc = "write" /\ ~Gone(q) /\ Finish(q)
          /\ UNCHANGED <<made, used, sweep, faults>>
      BY <1>12 DEF PermanentDelete, At
    <2>2. f \in Files
      BY <1>5, <2>1
    <2>3. CASE UNCHANGED <<file, versions, idle>>
      BY <1>2, <2>1, <2>3, FinishType
    <2>4. CASE /\ file' = [file EXCEPT ![f] = [NewFile EXCEPT !.life = "gone"]]
               /\ versions' = [versions EXCEPT ![f] = {}]
               /\ idle' = [idle EXCEPT ![f] = 0]
      <3>1. [NewFile EXCEPT !.life = "gone"] \in Rows
        BY HistoryAssumption DEF NewFile, Rows
      <3>2. /\ file' \in [Files -> Rows] /\ idle' \in [Files -> 0..IdleWindow]
            /\ versions' \in [Files -> SUBSET VersionRows]
        <4>1. file \in [Files -> Rows] /\ idle \in [Files -> 0..IdleWindow]
              /\ versions \in [Files -> SUBSET VersionRows] /\ 0 \in 0..IdleWindow
          BY <1>0, HistoryAssumption DEF TypeOK
        <4>2. file' \in [Files -> Rows]
          BY <2>4, <3>1, <4>1
        <4>3. idle' \in [Files -> 0..IdleWindow]
          BY <2>4, <4>1
        <4> QED
          BY <2>4, <4>1, <4>2, <4>3
      <3>3. Destroyed(f) /\ \A g \in Files \ {f} : Untouched(g)
        BY <1>0, <2>1, <2>2, <2>4 DEF Destroyed, Untouched, NewFile, TypeOK
      <3>4. TypeInv'
        BY <1>0, <2>1, <2>2, <2>4, <3>2, FinishType DEF TypeOK, RunsInv, Runs, Pcs
      <3> QED
        BY <2>1, <2>2, <3>3, <3>4 DEF Good, Delta, Touched
    <2> QED
      BY <1>12, <2>3, <2>4 DEF PermanentDelete
  <1> QED
    BY <1>1, <1>3, <1>4, <1>7, <1>8, <1>9, <1>10, <1>11, <1>12 DEF RequestStep

LEMMA SweepGood == ASSUME TypeInv, SweepStep PROVE Good
  <1> USE DEF TypeInv
  <1>0. TypeOK /\ RunsInv /\ sweep \in Sweeps
    BY DEF TypeOK, Sweeps
  <1>1. ASSUME NEW f \in Files
        PROVE  /\ Without(f) \in Sweeps /\ Without(f).cur = NoFile
               /\ Without(f).todo = sweep.todo \ {f}
    BY <1>0, Contents DEF Without, Sweeps, Resting
  <1>2. ASSUME UNCHANGED <<file, versions, made, idle, req, used>>, faults' \in 0..MaxFaults,
               sweep' \in Sweeps, sweep'.cur # NoFile => sweep'.cur \in sweep'.todo,
               sweep'.todo \subseteq sweep.todo \/ \A f \in sweep'.todo : Due(f)
        PROVE  Good
    BY <1>0, <1>2 DEF Good, TypeOK, RunsInv, Sweeps, Delta, Untouched
  <1>3. CASE SweepIdleFiles
    <2>1. PICK batch \in SUBSET {f \in Files : Due(f)} : sweep' = [Resting EXCEPT !.todo = batch]
      BY <1>3 DEF SweepIdleFiles
    <2>2. sweep' \in Sweeps /\ sweep'.cur = NoFile /\ sweep'.todo = batch
      BY <2>1, Contents DEF Sweeps, Resting
    <2> QED
      BY <1>0, <1>2, <1>3, <2>1, <2>2 DEF SweepIdleFiles, TypeOK
  <1>4. ASSUME NEW f \in Files, AutoRead(f) PROVE Good
    <2>1. CASE sweep' = Without(f)
      BY <1>0, <1>1, <1>2, <1>4, <2>1 DEF AutoRead, TypeOK
    <2>2. CASE sweep' = [sweep EXCEPT !.cur = f, !.seen = Row(f)]
      <3>1. sweep' \in Sweeps /\ sweep'.cur = f /\ sweep'.todo = sweep.todo
        BY <1>0, <2>2, RowType DEF Sweeps
      <3> QED
        BY <1>0, <1>2, <1>4, <3>1 DEF AutoRead, TypeOK
    <2> QED
      BY <1>4, <2>1, <2>2 DEF AutoRead
  <1>5. ASSUME NEW f \in Files, AutoFails(f) PROVE Good
    BY <1>0, <1>1, <1>2, <1>5, HistoryAssumption DEF AutoFails, TypeOK
  <1>6. ASSUME NEW f \in Files, AutoWrite(f) PROVE Good
    <2>1. sweep' = Without(f) /\ UNCHANGED <<file, idle, req, used, faults>> /\ f \in sweep.todo
      BY <1>0, <1>6, HistoryAssumption DEF AutoWrite, RunsInv
    <2>2. CASE UNCHANGED <<versions, made>>
      BY <1>0, <1>1, <1>2, <2>1, <2>2 DEF TypeOK
    <2> DEFINE v == Version(f, sweep.seen, "AUTO")
    <2>3. CASE /\ file[f].life # "gone"
               /\ versions' = [versions EXCEPT ![f] = Prune(@ \cup {v})]
               /\ made' = [made EXCEPT ![f] = @ + 1]
      <3>1. v \in VersionRows /\ v.born = made[f] + 1 /\ v.rev = file[f].rev /\ v.origin = "AUTO"
        BY <1>0 DEF Version, VersionRows, Rows, Content, TypeOK, Sweeps
      <3>2. \A vs : Prune(vs) \subseteq vs
        BY DEF Prune, Newest, Autos
      <3>3. versions' \in [Files -> SUBSET VersionRows] /\ made' \in [Files -> Nat]
        <4>1. Prune(versions[f] \cup {v}) \in SUBSET VersionRows
          BY <1>0, <3>1, <3>2 DEF TypeOK
        <4>2. versions \in [Files -> SUBSET VersionRows] /\ made \in [Files -> Nat]
          BY <1>0 DEF TypeOK
        <4> QED
          BY <2>3, <4>1, <4>2
      <3>4. Versioned(f) /\ \A g \in Files \ {f} : Untouched(g)
        BY <1>0, <1>1, <2>1, <2>3, <3>1 DEF Versioned, Grows, Untouched, TypeOK
      <3>5. TypeInv'
        BY <1>0, <1>1, <2>1, <2>3, <3>3 DEF TypeOK, RunsInv, Sweeps
      <3> QED
        BY <1>1, <2>1, <3>4, <3>5 DEF Good, Delta, Touched
    <2> QED
      BY <1>6, <2>2, <2>3 DEF AutoWrite
  <1> QED
    BY <1>3, <1>4, <1>5, <1>6 DEF SweepStep

LEMMA StepGood == ASSUME TypeInv, [Next]_vars PROVE Good
  <1> USE DEF TypeInv
  <1>0. TypeOK /\ RunsInv /\ req \in [Requests -> Runs]
    BY DEF TypeOK, Runs, Pcs
  <1>1. CASE \E q \in Requests : RequestStep(q)
    BY <1>1, RequestGood
  <1>2. CASE SweepStep
    BY <1>2, SweepGood
  <1>3. CASE Crash
    <2>1. /\ req' \in [Requests -> Runs]
          /\ \A p \in Requests : req'[p].pc \notin {"find", "write", "thumb"}
      BY <1>0, <1>3, Contents DEF Crash, Runs, Pcs
    <2>2. sweep' \in Sweeps /\ sweep'.cur = NoFile /\ sweep'.todo = {}
      BY <1>3, Contents DEF Crash
    <2> QED
      BY <1>0, <1>3, <2>1, <2>2, HistoryAssumption
      DEF Crash, Good, TypeOK, RunsInv, Runs, Sweeps, Pcs, Delta, Untouched
  <1>4. CASE Tick
    <2>1. idle' \in [Files -> 0..IdleWindow]
      BY <1>0, <1>4, HistoryAssumption DEF Tick, TypeOK
    <2> QED
      BY <1>0, <1>4, <2>1 DEF Tick, Good, TypeOK, RunsInv, Delta, Untouched
  <1>5. CASE UNCHANGED vars
    BY <1>0, <1>5 DEF vars, Good, TypeOK, RunsInv, Delta, Untouched
  <1> QED
    BY <1>1, <1>2, <1>3, <1>4, <1>5 DEF Next

(* Every row is well-formed, and a destroyed file has no versions.             *)
THEOREM TypeCorrect == Spec => []TypeOK
  <1>1. TypeInv /\ [Next]_vars => TypeInv'
    BY StepGood DEF Good
  <1>2. TypeInv => TypeOK
    BY DEF TypeInv
  <1> QED
    BY TypeInit, <1>1, <1>2, PTL DEF Spec

-------------------------------------------------------------------------------
(* Retention.  Of a set of versions, those with Cap at most since them are Cap *)
(* at most: all of them are since the oldest of them.                          *)

LEMMA Least ==
  ASSUME NEW S, S \subseteq Nat, S # {}
  PROVE  \E n \in S : \A m \in S : m >= n
  <1> DEFINE Less == OpToRel(<, Nat)
  <1>1. \A k, m \in Nat : k < m => <<k, m>> \in Less
    BY DEF OpToRel
  <1>2. PICK n \in S : \A m \in S : ~ (<<m, n>> \in Less)
    BY NatLessThanWellFounded, WFMin
  <1> HIDE DEF Less
  <1>3. \A m \in S : ~ (m < n)
    BY <1>1, <1>2, Zenon
  <1> QED
    BY <1>3

LEMMA Oldest ==
  ASSUME NEW vs, vs # {}, \A v \in vs : v.born \in Nat
  PROVE  \E v \in vs : \A w \in vs : w.born >= v.born
  <1>1. {v.born : v \in vs} \subseteq Nat /\ {v.born : v \in vs} # {}
    OBVIOUS
  <1>2. PICK n \in {v.born : v \in vs} : \A m \in {v.born : v \in vs} : m >= n
    BY <1>1, Least
  <1> QED
    BY <1>2

LEMMA NewestAreFew ==
  ASSUME NEW vs, IsFiniteSet(vs), \A v \in vs : v.born \in Nat
  PROVE  Cardinality(Newest(vs)) <= Cap
  <1>1. CASE Newest(vs) = {}
    BY <1>1, FS_EmptySet, HistoryAssumption
  <1>2. CASE Newest(vs) # {}
    <2>1. PICK v \in Newest(vs) : \A w \in Newest(vs) : w.born >= v.born
      BY <1>2, Oldest DEF Newest
    <2>2. Newest(vs) \subseteq Since(vs, v) /\ Since(vs, v) \subseteq vs
      BY <2>1 DEF Newest, Since
    <2>3. IsFiniteSet(Since(vs, v)) /\ IsFiniteSet(Newest(vs))
      BY <2>2, FS_Subset
    <2>4. Cardinality(Newest(vs)) <= Cardinality(Since(vs, v))
      BY <2>2, <2>3, FS_Subset
    <2>5. Cardinality(Since(vs, v)) <= Cap
      BY <2>1 DEF Newest
    <2> QED
      BY <2>3, <2>4, <2>5, FS_CardinalityType, HistoryAssumption
  <1> QED
    BY <1>1, <1>2

(* What retention leaves of the versions of a file. *)
LEMMA Pruned ==
  ASSUME NEW vs
  PROVE  /\ Prune(vs) \subseteq vs
         /\ vs \ Autos(vs) \subseteq Prune(vs)
         /\ Prune(vs) \ Autos(Prune(vs)) = vs \ Autos(vs)
         /\ Autos(Prune(vs)) = Newest(Autos(vs))
  BY DEF Prune, Autos, Newest

-------------------------------------------------------------------------------
(* The invariant: createdAt tells the versions of a file apart; no version has *)
(* seen more updates than its file; and a file in the batch of the sweep has   *)
(* been updated since its last AUTO version, if only because nobody else makes *)
(* AUTO versions.                                                              *)

RowsInv(f) ==
  /\ IsFiniteSet(versions[f])
  /\ \A v \in versions[f] : v.born <= made[f] /\ v.rev <= file[f].rev
  /\ \A v, w \in versions[f] : v.born = w.born => v = w

DueInv(f) == f \in sweep.todo => \A v \in Autos(versions[f]) : v.rev < file[f].rev

OrderInv(f) == \A v, w \in Autos(versions[f]) : v.born < w.born => v.rev < w.rev

CapInv(f) == Cardinality(Autos(versions[f])) <= Cap

FileInv == \A f \in Files : RowsInv(f) /\ DueInv(f) /\ OrderInv(f) /\ CapInv(f)

LEMMA FileInit == Init => FileInv
  BY FS_EmptySet, Contents, HistoryAssumption
  DEF Init, FileInv, RowsInv, DueInv, OrderInv, CapInv, Autos

LEMMA FileStep == ASSUME TypeInv, FileInv, [Next]_vars PROVE FileInv'
  <1> SUFFICES ASSUME NEW f \in Files PROVE (RowsInv(f) /\ DueInv(f) /\ OrderInv(f) /\ CapInv(f))'
    BY DEF FileInv
  <1>0. /\ RowsInv(f) /\ DueInv(f) /\ OrderInv(f) /\ CapInv(f) /\ Delta
        /\ versions[f] \subseteq VersionRows /\ made[f] \in Nat /\ file[f].rev \in Nat
    BY StepGood, HistoryAssumption DEF FileInv, Good, TypeInv, TypeOK, Rows
  <1>1. ASSUME sweep'.todo \subseteq sweep.todo \/ Due(f), Untouched(f)
        PROVE  (RowsInv(f) /\ DueInv(f) /\ OrderInv(f) /\ CapInv(f))'
    BY <1>0, <1>1 DEF Untouched, RowsInv, DueInv, OrderInv, CapInv, Due, Autos
  <1>2. ASSUME sweep'.todo \subseteq sweep.todo, Updated(f)
        PROVE  (RowsInv(f) /\ DueInv(f) /\ OrderInv(f) /\ CapInv(f))'
    BY <1>0, <1>2 DEF Updated, RowsInv, DueInv, OrderInv, CapInv, Autos, VersionRows
  <1>3. ASSUME sweep'.todo \subseteq sweep.todo, Saved(f)
        PROVE  (RowsInv(f) /\ DueInv(f) /\ OrderInv(f) /\ CapInv(f))'
    <2>1. PICK v : /\ Grows(f, v) /\ v.origin = "MANUAL"
                   /\ versions'[f] = versions[f] \cup {v}
      BY <1>3 DEF Saved
    <2>2. Autos(versions'[f]) = Autos(versions[f])
      BY <2>1 DEF Autos
    <2>3. RowsInv(f)'
      <3>1. IsFiniteSet(versions'[f])
        BY <1>0, <2>1, FS_AddElement DEF RowsInv
      <3> QED
        BY <1>0, <2>1, <3>1 DEF RowsInv, Grows, VersionRows
    <2> QED
      BY <1>0, <1>3, <2>1, <2>2, <2>3 DEF Grows, DueInv, OrderInv, CapInv
  <1>4. ASSUME Versioned(f)
        PROVE  (RowsInv(f) /\ DueInv(f) /\ OrderInv(f) /\ CapInv(f))'
    <2>1. PICK v : /\ Grows(f, v) /\ v.origin = "AUTO"
                   /\ versions'[f] = Prune(versions[f] \cup {v})
                   /\ f \in sweep.todo /\ f \notin sweep'.todo
      BY <1>4 DEF Versioned
    <2> DEFINE vs == versions[f] \cup {v}
    <2>2. IsFiniteSet(vs)
      BY <1>0, FS_AddElement DEF RowsInv
    <2>3. versions'[f] \subseteq vs /\ Autos(versions'[f]) = Newest(Autos(vs))
      BY <2>1, Pruned
    <2>4. RowsInv(f)'
      <3>1. IsFiniteSet(versions'[f])
        BY <2>2, <2>3, FS_Subset
      <3>2. /\ v.born \in Nat /\ v.born = made'[f] /\ v.rev = file'[f].rev
            /\ \A w \in versions[f] : /\ w.born \in Nat /\ w.born < v.born
                                      /\ w.rev <= v.rev
        BY <1>0, <2>1 DEF RowsInv, Grows, VersionRows
      <3>3. \A w, x \in vs : w.born = x.born => w = x
        BY <1>0, <3>2 DEF RowsInv
      <3>4. \A w \in vs : w.born <= made'[f] /\ w.rev <= file'[f].rev
        BY <1>0, <2>1, <3>2 DEF Grows, VersionRows
      <3> QED
        BY <2>3, <3>1, <3>3, <3>4 DEF RowsInv
    <2>5. OrderInv(f)'
      <3>1. Autos(versions'[f]) \subseteq Autos(versions[f]) \cup {v}
        BY <2>3 DEF Newest, Autos
      <3>2. \A w \in Autos(versions[f]) : /\ w.rev < v.rev /\ w.born < v.born
                                          /\ w.born \in Nat
        BY <1>0, <2>1 DEF DueInv, RowsInv, Grows, Autos, VersionRows
      <3>3. v.born \in Nat
        BY <2>1 DEF Grows, VersionRows
      <3> QED
        BY <1>0, <3>1, <3>2, <3>3 DEF OrderInv
    <2>6. CapInv(f)'
      <3>1. IsFiniteSet(Autos(vs)) /\ \A w \in Autos(vs) : w.born \in Nat
        <4>1. Autos(vs) \subseteq vs /\ vs \subseteq VersionRows
          BY <1>0, <2>1 DEF Autos, Grows
        <4> QED
          BY <2>2, <4>1, FS_Subset DEF VersionRows
      <3> QED
        BY <2>3, <3>1, NewestAreFew DEF CapInv
    <2> QED
      BY <2>1, <2>4, <2>5, <2>6 DEF DueInv
  <1>5. ASSUME Destroyed(f)
        PROVE  (RowsInv(f) /\ DueInv(f) /\ OrderInv(f) /\ CapInv(f))'
    BY <1>5, FS_EmptySet, HistoryAssumption
    DEF Destroyed, RowsInv, DueInv, OrderInv, CapInv, Autos
  <1>6. CASE sweep'.todo \subseteq sweep.todo
    BY <1>0, <1>1, <1>2, <1>3, <1>4, <1>5, <1>6 DEF Delta, Touched
  <1>7. CASE ~(sweep'.todo \subseteq sweep.todo)
    <2>1. Untouched(f) /\ (f \in sweep'.todo => Due(f))
      BY <1>0, <1>7 DEF Delta
    <2> QED
      BY <1>0, <2>1 DEF Untouched, RowsInv, DueInv, OrderInv, CapInv, Due, Autos
  <1> QED
    BY <1>6, <1>7

LEMMA Invariant == Spec => [](TypeInv /\ FileInv)
  <1>1. TypeInv /\ FileInv /\ [Next]_vars => TypeInv' /\ FileInv'
    BY StepGood, FileStep DEF Good
  <1> QED
    BY TypeInit, FileInit, <1>1, PTL DEF Spec

(* A file never keeps more automatic versions than the cap: at any time, also  *)
(* between the insert of one and the pruning, which commit together.           *)
THEOREM RetentionHolds == Spec => []AutoCap
  <1>1. FileInv => AutoCap
    BY DEF FileInv, CapInv, AutoCap
  <1> QED
    BY Invariant, <1>1, PTL

(* No two automatic versions of a file are of one state, in whatever way edits *)
(* come between the query, the read and the insert of a sweep.                 *)
THEOREM StatesVersionedOnce == Spec => []AutoOnlyAfterChange
  <1>1. FileInv => AutoOnlyAfterChange
    BY DEF FileInv, OrderInv, AutoOnlyAfterChange
  <1> QED
    BY Invariant, <1>1, PTL

(* No step but the destruction of its file takes a saved version away.         *)
THEOREM SavedVersionsStay == Spec => ManualKept
  <1> DEFINE Stay(f) == file'[f].life # "gone" => versions[f] \ Autos(versions[f]) \subseteq versions'[f]
  <1>1. ASSUME TypeInv, [Next]_vars, NEW f \in Files
        PROVE  Stay(f)
    <2>1. Untouched(f) \/ Touched(f)
      BY <1>1, StepGood DEF Good, Delta
    <2>2. CASE Versioned(f)
      <3>1. PICK v : v.origin = "AUTO" /\ versions'[f] = Prune(versions[f] \cup {v})
        BY <2>2 DEF Versioned
      <3>2. versions[f] \ Autos(versions[f]) \subseteq (versions[f] \cup {v}) \ Autos(versions[f] \cup {v})
        BY <3>1 DEF Autos
      <3> QED
        BY <3>1, <3>2, Pruned
    <2> QED
      BY <1>1, <2>1, <2>2 DEF Touched, Untouched, Updated, Saved, Destroyed
  <1>2. TypeInv /\ [Next]_vars => [\A f \in Files : Stay(f)]_vars
    BY <1>1
  <1>3. Spec => []TypeInv
    BY Invariant, PTL
  <1> HIDE DEF Stay
  <1>4. Spec => [][\A f \in Files : Stay(f)]_vars
    BY <1>2, <1>3, PTL DEF Spec
  <1> QED
    BY <1>4 DEF Stay, ManualKept

-------------------------------------------------------------------------------
(* The refinement.  MappedX names what the log sees of the model. *)

MappedDestroyed == {f \in Files : file[f].life = "gone"}
MappedSaved     == [f \in Files |-> versions[f] \ Autos(versions[f])]
MappedAutos     == [f \in Files |-> Autos(versions[f])]

LEMMA InitMaps == Init => Log!Init
  BY DEF Init, Log!Init, NewFile, Autos

(* The log counts as the model does. *)
LEMMA SameCount == \A S : Log!Cardinality(S) = Cardinality(S)
  BY DEF Log!Cardinality, Cardinality

(* Among AUTO versions, the newer by createdAt is the one of the later state.  *)
LEMMA NewestIsLatest ==
  ASSUME NEW vs, vs \subseteq VersionRows,
         \A v, w \in vs : v.born < w.born => v.rev < w.rev,
         \A v, w \in vs : v.born = w.born => v = w
  PROVE  Newest(vs) = Log!Latest(vs)
  <1> DEFINE Later(v) == {w \in vs : w.rev >= v.rev}
  <1>1. \A v \in vs : Since(vs, v) = Later(v)
    BY HistoryAssumption DEF Since, VersionRows
  <1>2. Log!Latest(vs) = {v \in vs : Cardinality(Later(v)) <= Cap}
    BY SameCount DEF Log!Latest
  <1> HIDE DEF Later
  <1>3. \A v \in vs : v \in Newest(vs) <=> v \in Log!Latest(vs)
    BY <1>1, <1>2 DEF Newest
  <1>4. Newest(vs) \subseteq vs /\ Log!Latest(vs) \subseteq vs
    BY <1>2 DEF Newest
  <1> QED
    BY <1>3, <1>4

LEMMA StepMaps == ASSUME TypeInv, FileInv, [Next]_vars PROVE [Log!Next]_(Log!vars)
  <1>0. Delta
    BY StepGood DEF Good
  <1> DEFINE Same(f) == /\ versions'[f] = versions[f]
                        /\ (file'[f].life = "gone") <=> (file[f].life = "gone")
  <1>1. \A f \in Files : Untouched(f) \/ Updated(f) => Same(f)
    BY DEF Untouched, Updated
  <1>2. CASE \A f \in Files : Same(f)
    <2>1. /\ MappedDestroyed' = MappedDestroyed
          /\ MappedSaved' = MappedSaved /\ MappedAutos' = MappedAutos
      BY <1>2 DEF MappedDestroyed, MappedSaved, MappedAutos
    <2> QED
      BY <2>1 DEF Log!vars, MappedDestroyed, MappedSaved, MappedAutos
  <1>3. ASSUME NEW f \in Files, \A g \in Files \ {f} : Same(g), Saved(f)
        PROVE  Log!Save(f)
    <2>1. PICK v : /\ Grows(f, v) /\ v.origin = "MANUAL"
                   /\ versions'[f] = versions[f] \cup {v}
      BY <1>3 DEF Saved
    <2>2. v \notin versions[f]
      BY <2>1, HistoryAssumption DEF FileInv, RowsInv, Grows, TypeInv, TypeOK
    <2>3. MappedSaved'[f] = MappedSaved[f] \cup {v} /\ v \notin MappedSaved[f]
      BY <2>1, <2>2 DEF MappedSaved, Autos
    <2>4. MappedSaved' = [MappedSaved EXCEPT ![f] = @ \cup {v}]
      BY <1>3, <2>3 DEF MappedSaved
    <2>5. MappedAutos' = MappedAutos /\ MappedDestroyed' = MappedDestroyed /\ f \notin MappedDestroyed
      BY <1>3, <2>1 DEF MappedAutos, MappedDestroyed, Grows, Autos
    <2> QED
      BY <2>3, <2>4, <2>5 DEF Log!Save, MappedDestroyed, MappedSaved, MappedAutos
  <1>4. ASSUME NEW f \in Files, \A g \in Files \ {f} : Same(g), Versioned(f)
        PROVE  Log!Snapshot(f)
    <2>1. PICK v : /\ Grows(f, v) /\ v.origin = "AUTO"
                   /\ versions'[f] = Prune(versions[f] \cup {v}) /\ f \in sweep.todo
      BY <1>4 DEF Versioned
    <2> DEFINE vs == versions[f] \cup {v}
    <2>2. Autos(vs) = Autos(versions[f]) \cup {v}
      BY <2>1 DEF Autos
    <2>3. /\ Autos(vs) \subseteq VersionRows
          /\ \A w \in Autos(versions[f]) : w.rev < v.rev /\ w.born < v.born /\ w.born \in Nat
          /\ v.born \in Nat
      BY <2>1 DEF FileInv, RowsInv, DueInv, Grows, TypeInv, TypeOK, Autos, VersionRows
    <2>4. Newest(Autos(vs)) = Log!Latest(Autos(vs))
      <3>1. \A w, x \in Autos(versions[f]) :
              /\ w.born < x.born => w.rev < x.rev
              /\ w.born = x.born => w = x
        BY DEF FileInv, RowsInv, OrderInv, Autos
      <3>2. ASSUME NEW w \in Autos(vs), NEW x \in Autos(vs)
            PROVE  /\ w.born < x.born => w.rev < x.rev
                   /\ w.born = x.born => w = x
        <4>1. CASE w = v /\ x = v
          BY <2>3, <4>1
        <4>2. CASE w = v /\ x \in Autos(versions[f])
          BY <2>3, <4>2
        <4>3. CASE w \in Autos(versions[f]) /\ x = v
          BY <2>3, <4>3
        <4>4. CASE w \in Autos(versions[f]) /\ x \in Autos(versions[f])
          BY <3>1, <4>4
        <4>5. w \in Autos(versions[f]) \cup {v} /\ x \in Autos(versions[f]) \cup {v}
          BY <2>2
        <4> QED
          BY <4>5, <4>1, <4>2, <4>3, <4>4
      <3> QED
        BY <2>3, <3>2, NewestIsLatest
    <2>5. v \in Newest(Autos(vs)) /\ v \notin Autos(versions[f])
      <3>1. Since(Autos(vs), v) = {v}
        BY <2>2, <2>3 DEF Since
      <3>2. Cardinality(Since(Autos(vs), v)) <= Cap
        BY <3>1, FS_Singleton, HistoryAssumption
      <3>3. ~(v.born < v.born)
        BY <2>3
      <3> QED
        BY <2>2, <2>3, <3>2, <3>3 DEF Newest
    <2>6. MappedAutos'[f] = Log!Latest(MappedAutos[f] \cup {v})
      BY <2>1, <2>2, <2>4, Pruned DEF MappedAutos
    <2>7. MappedAutos' = [MappedAutos EXCEPT ![f] = Log!Latest(@ \cup {v})]
      BY <1>4, <2>6 DEF MappedAutos
    <2>8. v \in MappedAutos'[f] \ MappedAutos[f]
      BY <2>1, <2>5, Pruned DEF MappedAutos
    <2>9. /\ MappedSaved' = MappedSaved /\ MappedDestroyed' = MappedDestroyed
          /\ f \notin MappedDestroyed
      <3>1. versions'[f] \ Autos(versions'[f]) = versions[f] \ Autos(versions[f])
        BY <2>1, Pruned DEF Autos
      <3> QED
        BY <1>4, <2>1, <3>1 DEF MappedSaved, MappedDestroyed, Grows
    <2>10. \A w \in MappedAutos[f] : w.rev < v.rev
      BY <2>3 DEF MappedAutos
    <2> QED
      BY <2>7, <2>8, <2>9, <2>10 DEF Log!Snapshot, MappedDestroyed, MappedSaved, MappedAutos
  <1>5. ASSUME NEW f \in Files, \A g \in Files \ {f} : Same(g), Destroyed(f)
        PROVE  Log!Destroy(f)
    <2>1. /\ MappedDestroyed' = MappedDestroyed \cup {f}
          /\ MappedSaved' = [MappedSaved EXCEPT ![f] = {}]
          /\ MappedAutos' = [MappedAutos EXCEPT ![f] = {}]
      BY <1>5 DEF Destroyed, MappedDestroyed, MappedSaved, MappedAutos, Autos
    <2> QED
      BY <2>1 DEF Log!Destroy, MappedDestroyed, MappedSaved, MappedAutos
  <1> HIDE DEF Same
  <1> QED
    BY <1>0, <1>1, <1>2, <1>3, <1>4, <1>5 DEF Delta, Touched, Log!Next

(* The whole of the requests and of the sweep, with their overlaps, failures   *)
(* and crashes, is one log per file that saves, snapshots and destroys.        *)
THEOREM HistoryImplementsLog == Spec => ImplementsLog
  BY Invariant, InitMaps, StepMaps, PTL DEF Spec, ImplementsLog, Log!Spec
===============================================================================
