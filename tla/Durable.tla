------------------------------ MODULE Durable ------------------------------
(***************************************************************************)
(* What check-pointing promises: a server that dies comes back with the    *)
(* definition it saved last, whatever it was doing when it died.           *)
(***************************************************************************)
CONSTANTS Versions, Nothing, Down

VARIABLES truth,  \* the server's definition, or Down
          safe    \* the definition a server would start from

dvars == <<truth, safe>>

Init == truth = Down /\ safe = Nothing

\* The definition changes in memory.
Change == truth # Down /\ truth' \in Versions /\ safe' = safe

\* The definition becomes durable.
Save == truth # Down /\ safe' = truth /\ truth' = truth

Die == truth # Down /\ truth' = Down /\ safe' = safe

\* The server ends, having saved.
Leave == truth # Down /\ truth' = Down /\ safe' = truth

\* At start-up, or at the user's request once the server is empty.
Recover == truth \in {Down, Nothing} /\ truth' = safe /\ safe' = safe

Next == Change \/ Save \/ Die \/ Leave \/ Recover

Spec == Init /\ [][Next]_dvars
=============================================================================
