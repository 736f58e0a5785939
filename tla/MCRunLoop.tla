-------------------------------- MODULE MCRunLoop --------------------------------
(* Instances of RunLoop for TLC. *)
EXTENDS RunLoop, TLC
CONSTANTS d1, d2

MCDaemon == {d1, d2}
MCFragile == MCDaemon
Symmetry == Permutations(MCDaemon)

Quiet == [tab |-> "ok", error |-> "none", composer |-> "send", busy |-> FALSE, text |-> 1]

\* An answer that is there, one that is being written, and a tab that is gone.
MCPage == {Quiet, [Quiet EXCEPT !.composer = "stop", !.busy = TRUE], [Quiet EXCEPT !.tab = "lost"]}

\* A loop that starts when a message has been sent, and goes on to watch the reply.
MCInput == {[phase |-> "after_send", preAsk |-> TRUE, stopOnPreAsk |-> FALSE]}
=============================================================================
