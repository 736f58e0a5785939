------------------------------ MODULE Dialogue ------------------------------
(***************************************************************************)
(* What a task's cycle promises about its conversation, whatever stops,    *)
(* crashes and new runs lie between: the task speaks once, waits for an    *)
(* answer, judges it, and only then speaks again, within its budget of     *)
(* continuations.  Until it has judged anything it may start over on a     *)
(* new conversation.                                                       *)
(***************************************************************************)
EXTENDS Naturals

CONSTANTS Budget,   \* decisions after which no continuation is sent
          Verdict,  \* what an answer may be judged to be
          Continue, \* the verdicts that ask for a continuation
          None

VARIABLES said,   \* messages in the conversation
          judged, \* decisions taken about answers
          last    \* the last decision, None while an answer is awaited

vars == <<said, judged, last>>

Init == said = 0 /\ judged = 0 /\ last = None

\* The next message, for which a continuing decision needs budget left.
Say == /\ said = judged
       /\ last \in Continue => judged < Budget
       /\ said' = said + 1 /\ UNCHANGED <<judged, last>>

\* A decision about an answer to a message that has not been judged yet.
Judge == /\ judged < said /\ last = None
         /\ judged' = judged + 1 /\ last' \in Verdict /\ UNCHANGED said

\* The message that followed the decision counts as the next prompt.
Listen == /\ last # None /\ judged < said
          /\ last' = None /\ UNCHANGED <<said, judged>>

StartOver == /\ judged = 0
             /\ said' = 0 /\ UNCHANGED <<judged, last>>

Next == Say \/ Judge \/ Listen \/ StartOver

Spec == Init /\ [][Next]_vars
=============================================================================
