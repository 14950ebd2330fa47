------------------------------ MODULE MCSession ------------------------------
(* Two clients and one server.  Between them the setups have every          *)
(* direction, two streams, options that make the server listen again, one   *)
(* that it does not put back, a TOS, and tests with and without a duration. *)
EXTENDS Session

CONSTANTS a, b

With(dir, streams, asks, timed) ==
    [dir |-> dir, streams |-> streams, asks |-> asks, timed |-> timed]
Plain == With("up", 1, {}, TRUE)
Pair(x, y) == [c \in {a, b} |-> IF c = a THEN x ELSE y]

MCSetups ==
    {Pair(With("both", 1, {}, TRUE), With("down", 1, {}, FALSE)),
     Pair(With("up", 2, {}, TRUE), Plain),
     Pair(With("down", 1, {"nodelay", "get_server_output"}, TRUE),
          With("up", 1, {"TOS"}, FALSE))}
=============================================================================
