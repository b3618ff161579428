------------------------------ MODULE MCService ------------------------------
(***************************************************************************)
(* Two clients: enough for one to be given what the other asked for.       *)
(***************************************************************************)
EXTENDS Service

CONSTANTS c1, c2

MCClients == {c1, c2}

=============================================================================
