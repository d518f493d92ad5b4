----------------------------- MODULE FlushStore -----------------------------
(***************************************************************************)
(* What the write path promises about the table, without saying how.       *)
(*                                                                         *)
(* A request collects units of work: ids to remove and rows to put in      *)
(* their place.  A unit reaches the table in at most two atomic steps: the *)
(* ids are removed, all of them, and then the rows are put, all of them,   *)
(* and only if none of those ids has come back in between.  Nothing else   *)
(* ever changes the table, the unit is the same in both steps, and a       *)
(* request that has ended, after whichever step, changes it no more.       *)
(*                                                                         *)
(* MysqlWriterStore shows that MysqlWriter keeps this promise although the *)
(* code sends a transaction of its own in each of the two texts, runs the  *)
(* INSERTs one by one beside those of other requests, and may lose the     *)
(* connection before or after each COMMIT.                                 *)
(***************************************************************************)
CONSTANTS
  Writer,   \* the requests
  Id,       \* what identifies a row
  Content,  \* what a row may hold
  Absent    \* no row

VARIABLES
  store,    \* id -> the content of its row
  stage,    \* of each request: open, cleared (removed, not yet put) or ended
  remove,   \* of each request: the ids of its unit
  put       \* of each request: the rows of its unit

vars == <<store, stage, remove, put>>

NoRows == [i \in Id |-> Absent]

(* The unit of w becomes another one; those of the others stay. *)
NewUnit(w) ==
  /\ remove'[w] \in SUBSET Id
  /\ put'[w] \in [Id -> Content \cup {Absent}]
  /\ remove' = [remove EXCEPT ![w] = remove'[w]]
  /\ put' = [put EXCEPT ![w] = put'[w]]

Collect(w) ==
  /\ stage[w] = "open"
  /\ NewUnit(w)
  /\ UNCHANGED <<store, stage>>

(* All ids of the unit are removed.  The request goes on with the rows, or  *)
(* with another unit if there are none, or ends here.                       *)
Clear(w) ==
  /\ stage[w] = "open"
  /\ store' = [i \in Id |-> IF i \in remove[w] THEN Absent ELSE store[i]]
  /\ \/ /\ stage' = [stage EXCEPT ![w] = "cleared"]
        /\ UNCHANGED <<remove, put>>
     \/ /\ put[w] = NoRows
        /\ NewUnit(w)
        /\ UNCHANGED stage
     \/ /\ stage' = [stage EXCEPT ![w] = "ended"]
        /\ NewUnit(w)

(* All rows of the unit are put, next to those of other ids. *)
Fill(w) ==
  /\ stage[w] = "cleared"
  /\ \A i \in Id : put[w][i] # Absent => store[i] = Absent
  /\ store' = [i \in Id |-> IF put[w][i] # Absent THEN put[w][i] ELSE store[i]]
  /\ stage' \in {[stage EXCEPT ![w] = "open"], [stage EXCEPT ![w] = "ended"]}
  /\ NewUnit(w)

(* The request ends: it was closed, it failed or it was given up. *)
End(w) ==
  /\ stage' = [stage EXCEPT ![w] = "ended"]
  /\ NewUnit(w)
  /\ UNCHANGED store

Init ==
  /\ store = NoRows
  /\ stage = [w \in Writer |-> "open"]
  /\ remove = [w \in Writer |-> {}]
  /\ put = [w \in Writer |-> NoRows]

Next == \E w \in Writer : Collect(w) \/ Clear(w) \/ Fill(w) \/ End(w)

Spec == Init /\ [][Next]_vars
=============================================================================
