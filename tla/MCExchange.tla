---------------------------- MODULE MCExchange ----------------------------
(* Small instances of Exchange for TLC.                                    *)
EXTENDS Exchange

Answers == {[code |-> 200, chunked |-> FALSE, size |-> 2, first |-> 0],
            [code |-> 200, chunked |-> FALSE, size |-> 0, first |-> 0],
            [code |-> 200, chunked |-> TRUE, size |-> 3, first |-> 2],
            [code |-> 404, chunked |-> FALSE, size |-> 2, first |-> 0]}
=============================================================================
