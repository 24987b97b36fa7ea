------------------------------ MODULE ResponsePhases ------------------------------
(***********************************************************************************)
(* What the rest of the load generator relies on of the parser of a connection: it *)
(* takes the input piece by piece as module HttpResponse says, calls               *)
(* response_complete exactly at the ends of messages, and the connection is        *)
(* replaced after an error, after a message that may not be kept alive, and for no *)
(* other reason.  A fresh socket starts with a fresh parser.                       *)
(***********************************************************************************)
EXTENDS HttpResponse, Naturals

VARIABLES
    phase,   \* where the parser is in its input
    done,    \* messages ended on the present socket
    redial   \* the socket is being replaced

vars == <<phase, done, redial>>

Init == phase = "start" /\ done = 0 /\ redial = TRUE

\* A piece of a message.
Part == \E piece \in Pieces \ Endings :
    /\ ~redial /\ ~ParseError(phase, piece)
    /\ phase' = Feed(phase, piece)
    /\ UNCHANGED <<done, redial>>

\* A message ends; the connection is replaced if it may not be kept alive, unless the
\* thread is about to stop.
Message == \E piece \in Endings :
    /\ ~redial /\ EndsMessage(phase, piece)
    /\ phase' = Feed(phase, piece) /\ done' = done + 1
    /\ redial' \in {FALSE, ~KeepAlive(phase')}

\* The peer ends the body.
EndOfBody ==
    /\ ~redial /\ EofEndsMessage(phase)
    /\ done' = done + 1 /\ redial' \in BOOLEAN
    /\ UNCHANGED phase

\* Input, or the end of it, that is no part of a message; a failed read; what follows a
\* message that switched protocols.
Error ==
    /\ redial' = TRUE
    /\ phase' \in {phase, "dead"}
    /\ UNCHANGED done

\* socket_connected.
Dial ==
    /\ redial
    /\ phase' = "start" /\ done' = 0 /\ redial' = FALSE

Next == Part \/ Message \/ EndOfBody \/ Error \/ Dial

Spec == Init /\ [][Next]_vars
===================================================================================
