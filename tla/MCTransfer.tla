----------------------------- MODULE MCTransfer ------------------------------
(* Tests in either direction, with and without an omitted start; one host   *)
(* shows intervals and the other none, -i 0.                                *)
EXTENDS Transfer

On(client, server) ==
    [h \in {"client", "server"} |-> IF h = "client" THEN client ELSE server]
Of(dir, duration, omit, interval, late) ==
    [dir |-> dir, duration |-> duration, omit |-> omit, interval |-> interval,
     late |-> late]

MCSetups ==
    {Of("up", 2, 0, On(1, 0), On(0, 0)), Of("down", 2, 0, On(0, 1), On(0, 0)),
     Of("up", 1, 1, On(1, 0), On(1, 0)), Of("up", 1, 1, On(0, 1), On(0, 0)),
     Of("down", 1, 1, On(2, 0), On(0, 0))}
==============================================================================
