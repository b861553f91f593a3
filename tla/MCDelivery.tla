---------------------------- MODULE MCDelivery ----------------------------
(* Small instances of Delivery for TLC.                                    *)
EXTENDS Delivery, TLC

Symmetry == Permutations(Client)

\* What was sent to a client that is closed matters no more, only that it is
\* not deleted yet.
View == <<[c \in Client |-> IF client[c].open \/ client[c] = Absent THEN client[c]
                            ELSE [client[c] EXCEPT !.got = <<EndMark>>]],
          listVars, todo, httpVars, connVars, final, crashed>>
=============================================================================
