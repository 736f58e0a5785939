--------------------- MODULE MCConversationLifecycle ---------------------
(* Instances of ConversationLifecycle for TLC. *)
EXTENDS ConversationLifecycle
CONSTANTS a, b

\* Bound: the second tab is opened only while a pass is about to close the first,
\* of a one-shot task whose conversation is ready to delete.
MCNext == /\ Next
          /\ tab[b] = "gone" /\ tab'[b] # "gone" =>
                /\ pc = "close" /\ snap.target = a
                /\ task.policy = "one_shot" /\ task.signal = "yes"

\* FairSpec with that bound, which takes none of the fair steps away.
MCSpec == /\ Init /\ [][MCNext]_vars
          /\ Fairness
=============================================================================
