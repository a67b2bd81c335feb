------------------------------- MODULE Login --------------------------------
(***************************************************************************)
(* What logging in to a server promises, whatever the method: both sides   *)
(* reach a verdict, the server admits nobody who is not entitled to it,    *)
(* and a client starts a test only with a server that has admitted it.     *)
(***************************************************************************)
VARIABLES
    entitled,   \* the client may use the server
    server,     \* "open", "admitted" or "refused"
    client

vars == <<entitled, server, client>>

Init ==
    /\ entitled \in BOOLEAN
    /\ server = "open"
    /\ client = "open"

Admit ==
    /\ server = "open"
    /\ entitled
    /\ server' = "admitted"
    /\ UNCHANGED <<entitled, client>>

Start ==
    /\ client = "open"
    /\ server = "admitted"
    /\ client' = "admitted"
    /\ UNCHANGED <<entitled, server>>

Refuse ==
    /\ server = "open"
    /\ server' = "refused"
    /\ UNCHANGED <<entitled, client>>

GiveUp ==
    /\ client = "open"
    /\ client' = "refused"
    /\ UNCHANGED <<entitled, server>>

Next == Admit \/ Start \/ Refuse \/ GiveUp

\* Nobody waits for ever.
Settles == <>(server # "open" /\ client # "open")

Spec == Init /\ [][Next]_vars /\ Settles

=============================================================================
