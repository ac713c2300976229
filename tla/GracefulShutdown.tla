-------------------------- MODULE GracefulShutdown --------------------------
(***************************************************************************)
(* What the router promises about a connection and about shutdown, with no *)
(* accept loop, semaphore, gate, task tracker or metric in sight.          *)
(*                                                                         *)
(* A connection is admitted, handshakes, may commit to proxying, ends with *)
(* one verdict, and leaves.  At most Capacity are inside at a time.  One   *)
(* step, Drain, divides them: those that committed before it may finish,   *)
(* the others never commit.  Force ends the patience with the former, and  *)
(* Stop is only possible once everybody has left.                          *)
(***************************************************************************)
EXTENDS Naturals, FiniteSets

CONSTANTS
    Conns,              \* connections that may ever be made
    Capacity,           \* how many may be inside at a time
    HandshakeVerdicts,  \* how a connection may end before it commits
    ProxyVerdicts,      \* how a committed connection may end by itself
    Cancelled,          \* verdict of a handshake that lost to Drain
    Forced,             \* verdict of a committed connection cut by Force
    Aborted,            \* verdict of a connection whose task died
    NoVerdict           \* not ended yet

VARIABLES
    phase,    \* "serving", "draining", "forcing", "stopped"
    place,    \* [Conns -> {"outside", "handshake", "proxying", "ending", "left"}]
    verdict   \* [Conns -> the verdict reported for it]

vars == <<phase, place, verdict>>

Inside == {c \in Conns : place[c] \in {"handshake", "proxying", "ending"}}

Init ==
    /\ phase = "serving"
    /\ place = [c \in Conns |-> "outside"]
    /\ verdict = [c \in Conns |-> NoVerdict]

Admit(c) ==
    /\ phase = "serving"
    /\ place[c] = "outside"
    /\ Cardinality(Inside) < Capacity
    /\ place' = [place EXCEPT ![c] = "handshake"]
    /\ UNCHANGED <<phase, verdict>>

\* The commit point: only before Drain.
Commit(c) ==
    /\ phase = "serving"
    /\ place[c] = "handshake"
    /\ place' = [place EXCEPT ![c] = "proxying"]
    /\ UNCHANGED <<phase, verdict>>

\* A handshake is cancelled only by Drain, a proxied connection is cut only by
\* Force, and once Force has come nothing else (but a crash) ends it.
MayEnd(c, v) ==
    \/ v = Aborted
    \/ place[c] = "handshake" /\ v \in HandshakeVerdicts
    \/ place[c] = "handshake" /\ v = Cancelled /\ phase # "serving"
    \/ place[c] = "proxying" /\ v \in ProxyVerdicts /\ phase # "forcing"
    \/ place[c] = "proxying" /\ v = Forced /\ phase = "forcing"

End(c) ==
    /\ place[c] \in {"handshake", "proxying"}
    /\ \E v \in HandshakeVerdicts \cup ProxyVerdicts \cup {Cancelled, Forced, Aborted} :
          /\ MayEnd(c, v)
          /\ verdict' = [verdict EXCEPT ![c] = v]
    /\ place' = [place EXCEPT ![c] = "ending"]
    /\ UNCHANGED phase

\* The verdict has been reported by the time the connection leaves.
Leave(c) ==
    /\ place[c] = "ending"
    /\ place' = [place EXCEPT ![c] = "left"]
    /\ verdict' = [verdict EXCEPT ![c] = NoVerdict]
    /\ UNCHANGED phase

Drain ==
    /\ phase = "serving"
    /\ phase' = "draining"
    /\ UNCHANGED <<place, verdict>>

Force ==
    /\ phase = "draining"
    /\ phase' = "forcing"
    /\ UNCHANGED <<place, verdict>>

Stop ==
    /\ phase \in {"draining", "forcing"}
    /\ Inside = {}
    /\ phase' = "stopped"
    /\ UNCHANGED <<place, verdict>>

Next ==
    \/ \E c \in Conns : Admit(c) \/ Commit(c) \/ End(c) \/ Leave(c)
    \/ Drain \/ Force \/ Stop

Spec == Init /\ [][Next]_vars
=============================================================================
