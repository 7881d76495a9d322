------------------------------- MODULE Mirror -------------------------------
(***************************************************************************)
(* What a client of the server is promised about its local definition:     *)
(* however the answer to a sync request is encoded, once it is applied the *)
(* client holds the definition the server had when it served the request,  *)
(* limited to the suites the client follows.  An answer can be lost on the *)
(* way; a lost answer changes nothing for the next request.                *)
(*                                                                         *)
(* This is the abstract specification that ClientSync is shown to          *)
(* implement; it knows no change numbers, no deltas and no cache.          *)
(***************************************************************************)
CONSTANTS Clients,  \* the programs that keep a copy of the definition
          Views,    \* the definitions a client can be shown
          None      \* no copy yet, nothing on the way, nothing to be shown

VARIABLES truth,  \* truth[c]: the server's definition as client c follows it
          copy,   \* copy[c]: the definition client c holds
          reply   \* reply[c]: the definition on its way to client c

mirrorVars == <<truth, copy, reply>>

Init ==
    /\ truth \in [Clients -> Views \cup {None}]
    /\ copy  = [c \in Clients |-> None]
    /\ reply = [c \in Clients |-> None]

\* The server's definition changes, or what a client follows of it.
Change ==
    /\ truth' \in [Clients -> Views \cup {None}]
    /\ UNCHANGED <<copy, reply>>

\* The server answers a sync request with its definition of this moment.
Serve(c) ==
    /\ reply[c] = None
    /\ reply' = [reply EXCEPT ![c] = truth[c]]
    /\ UNCHANGED <<truth, copy>>

\* The answer reaches the client.
Deliver(c) ==
    /\ reply[c] # None
    /\ copy'  = [copy EXCEPT ![c] = reply[c]]
    /\ reply' = [reply EXCEPT ![c] = None]
    /\ UNCHANGED truth

\* The connection breaks before the answer has arrived.
Lose(c) ==
    /\ reply' = [reply EXCEPT ![c] = None]
    /\ UNCHANGED <<truth, copy>>

\* The client forgets its copy, and with it the handle it had.
Forget(c) ==
    /\ reply[c] = None
    /\ copy' = [copy EXCEPT ![c] = None]
    /\ truth' \in [Clients -> Views \cup {None}]
    /\ UNCHANGED reply

\* The server dies and comes back with an earlier definition.
Restart ==
    /\ truth' \in [Clients -> Views \cup {None}]
    /\ reply' = [c \in Clients |-> None]
    /\ UNCHANGED copy

Next ==
    \/ Change
    \/ Restart
    \/ \E c \in Clients : Serve(c) \/ Deliver(c) \/ Lose(c) \/ Forget(c)

Spec == Init /\ [][Next]_mirrorVars
=============================================================================
