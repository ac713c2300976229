------------------------------ MODULE ByteRelay -----------------------------
(***************************************************************************)
(* What the proxy stage promises about the bytes of its connections, with  *)
(* no copy mechanism, pipe, permit, clock or counter in sight.             *)
(*                                                                         *)
(* Each connection is two independent streams.  The relay takes bytes from *)
(* a source in order, at most Room ahead of what it has delivered, and     *)
(* closes the far side only when the source has ended and every byte of it *)
(* has arrived; the other stream goes on.  A connection ends once.  It is  *)
(* called Finished exactly when it ends by itself with both far sides      *)
(* closed, and after its end nothing is taken, delivered or closed.        *)
(***************************************************************************)
EXTENDS Naturals

CONSTANTS
    Conns,      \* connections
    Streams,    \* the streams of a connection
    Room,       \* bytes of a stream the relay may hold
    Limit,      \* bound: bytes a source sends
    Cuts,       \* how a connection may be cut at any time
    Open        \* not ended yet

VARIABLES
    stream,     \* [Conns -> [Streams -> bytes sent, taken, delivered; ended, closed]]
    verdict     \* [Conns -> Open, or how the connection ended]

vars == <<stream, verdict>>

Init ==
    /\ stream = [c \in Conns |-> [s \in Streams |->
                   [sent |-> 0, ended |-> FALSE, taken |-> 0, delivered |-> 0, closed |-> FALSE]]]
    /\ verdict = [c \in Conns |-> Open]

Becomes(c, s, r) ==
    /\ stream' = [stream EXCEPT ![c][s] = r]
    /\ UNCHANGED verdict

Send(c, s) ==
    /\ ~stream[c][s].ended /\ stream[c][s].sent < Limit
    /\ Becomes(c, s, [stream[c][s] EXCEPT !.sent = @ + 1])

SendFin(c, s) ==
    /\ ~stream[c][s].ended
    /\ Becomes(c, s, [stream[c][s] EXCEPT !.ended = TRUE])

Take(c, s) ==
    /\ verdict[c] = Open
    /\ \E n \in 1 .. Room :
          /\ stream[c][s].taken + n <= stream[c][s].sent
          /\ stream[c][s].taken + n <= stream[c][s].delivered + Room
          /\ Becomes(c, s, [stream[c][s] EXCEPT !.taken = @ + n])

Deliver(c, s) ==
    /\ verdict[c] = Open
    /\ \E n \in 1 .. Room :
          /\ stream[c][s].delivered + n <= stream[c][s].taken
          /\ Becomes(c, s, [stream[c][s] EXCEPT !.delivered = @ + n])

Close(c, s) ==
    /\ verdict[c] = Open
    /\ ~stream[c][s].closed
    /\ stream[c][s].ended /\ stream[c][s].delivered = stream[c][s].sent
    /\ Becomes(c, s, [stream[c][s] EXCEPT !.closed = TRUE])

End(c) ==
    /\ verdict[c] = Open
    /\ \E v \in Cuts \cup {"Finished", "Error"} :
          /\ v = "Finished" => \A s \in Streams : stream[c][s].closed
          /\ v = "Error" => \E s \in Streams : ~stream[c][s].closed
          /\ verdict' = [verdict EXCEPT ![c] = v]
    /\ UNCHANGED stream

Next ==
    \E c \in Conns :
       \/ End(c)
       \/ \E s \in Streams :
             Send(c, s) \/ SendFin(c, s) \/ Take(c, s) \/ Deliver(c, s) \/ Close(c, s)

Spec == Init /\ [][Next]_vars
=============================================================================
