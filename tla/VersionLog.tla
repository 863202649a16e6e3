------------------------------ MODULE VersionLog ------------------------------
(* What a file's history promises, without saying how: what users save stays   *)
(* until the file is destroyed, and of the states the file was left in, the    *)
(* last Cap are kept, each once.  Requests that overlap, the guard, the batch  *)
(* of the sweep, transactions and crashes do not appear here.                  *)
EXTENDS Integers, FiniteSets

CONSTANTS Files,
          Cap        \* AUTO_VERSION_CAP

VARIABLES destroyed, \* files deleted permanently
          saved,     \* the MANUAL versions of a file
          autos      \* its AUTO versions

vars == <<destroyed, saved, autos>>

Init == /\ destroyed = {}
        /\ saved = [f \in Files |-> {}]
        /\ autos = [f \in Files |-> {}]

(* A user saves a version, which replaces none. *)
Save(f) == \E v \in saved'[f] \ saved[f] :
  /\ f \notin destroyed
  /\ saved' = [saved EXCEPT ![f] = @ \cup {v}]
  /\ UNCHANGED <<destroyed, autos>>

(* Of states, the newest Cap: a state is newer if it has seen more updates. *)
Latest(vs) == {v \in vs : Cardinality({w \in vs : w.rev >= v.rev}) <= Cap}

(* An idle file is versioned: a state that came after all that are kept. *)
Snapshot(f) == \E v \in autos'[f] \ autos[f] :
  /\ f \notin destroyed
  /\ \A w \in autos[f] : w.rev < v.rev
  /\ autos' = [autos EXCEPT ![f] = Latest(@ \cup {v})]
  /\ UNCHANGED <<destroyed, saved>>

Destroy(f) ==
  /\ destroyed' = destroyed \cup {f}
  /\ saved' = [saved EXCEPT ![f] = {}]
  /\ autos' = [autos EXCEPT ![f] = {}]

Next == \E f \in Files : Save(f) \/ Snapshot(f) \/ Destroy(f)

Spec == Init /\ [][Next]_vars
===============================================================================
