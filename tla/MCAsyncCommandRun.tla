-------------------------- MODULE MCAsyncCommandRun --------------------------
(* Instances of AsyncCommandRun for TLC. *)
EXTENDS AsyncCommandRun, TLC
CONSTANTS c1, c2, w, g

MCCall == {c1, c2}
MCProc == {w, g}
MCHost == c1 :> w @@ c2 :> g

\* c1 runs in a worker and its child succeeds, c2 in the gateway and fails.
Plain == [heavy |-> {}, deduped |-> {}, good |-> {c1}, limit |-> 1,
          stopped |-> {}, timed |-> {}, mortal |-> {}, fragile |-> {}]

MCAsked ==
    { \* two heavy runs of one slot, deadlines, the worker dies
      [Plain EXCEPT !.heavy = MCCall, !.timed = {c1}, !.mortal = {w}],
      \* two slots
      [Plain EXCEPT !.heavy = MCCall, !.limit = 2, !.fragile = {c1}],
      \* a stop races the close event and the deadline, with a slot and without
      [Plain EXCEPT !.stopped = {c2}, !.timed = {c2}],
      [Plain EXCEPT !.heavy = {c1}, !.stopped = {c1}],
      \* two starts of one operation, the gateway dies
      [Plain EXCEPT !.deduped = MCCall, !.timed = {c2}, !.mortal = {g}, !.fragile = {c1}],
      \* a start that throws with the one slot in its hands
      [Plain EXCEPT !.heavy = MCCall, !.timed = {c1}, !.fragile = {c1}] }
=============================================================================
