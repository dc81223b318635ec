----------------------------- MODULE VsockBridge -----------------------------
(***************************************************************************)
(* VsockBridgeAdapter: connections of the enclave to its host.  A call of  *)
(* connect() waits for the socket; disconnect(), stop(), the socket's      *)
(* events and the timer of connect() come in any order in the meantime.    *)
(*                                                                         *)
(* net.Socket is external: it connects, fails (error and close in one      *)
(* turn), is closed by the other end, and after destroy() reports its      *)
(* close in a later turn and nothing else.  Frames change no state.        *)
(***************************************************************************)
EXTENDS Naturals, FiniteSets

CONSTANT Conn   \* connections, each used once (ids are random)

VARIABLES
    running,    \* isRunning
    connections,\* the map
    state,      \* state of each connection
    socket,     \* the socket of each connection
    timer,      \* connections whose timeout is armed
    promise     \* what the caller of connect() has

vsockVars == <<running, connections, state, socket, timer, promise>>

VsockInit ==
    /\ running = FALSE /\ connections = {} /\ timer = {}
    /\ state = [c \in Conn |-> "NONE"]
    /\ socket = [c \in Conn |-> "none"]
    /\ promise = [c \in Conn |-> "none"]

Start ==
    /\ ~running /\ running' = TRUE
    /\ UNCHANGED <<connections, state, socket, timer, promise>>

Connect(c) ==
    /\ running /\ promise[c] = "none"
    /\ connections' = connections \cup {c}
    /\ state' = [state EXCEPT ![c] = "CONNECTING"]
    /\ socket' = [socket EXCEPT ![c] = "connecting"]
    /\ timer' = timer \cup {c}
    /\ promise' = [promise EXCEPT ![c] = "pending"]
    /\ UNCHANGED running

\* The 'connect' listener and the callback of connect(), in one turn.
Connected(c) ==
    /\ socket[c] = "connecting"
    /\ socket' = [socket EXCEPT ![c] = "open"]
    /\ state' = [state EXCEPT ![c] = "CONNECTED"]
    /\ timer' = timer \ {c}
    /\ promise' = [promise EXCEPT ![c] = "resolved"]
    /\ UNCHANGED <<running, connections>>

\* Mutant of Closed: the map keeps the connection.
ClosedKept(c) ==
    /\ socket[c] \in {"connecting", "open", "destroyed"}
    /\ socket' = [socket EXCEPT ![c] = "closed"]
    /\ state' = [state EXCEPT ![c] = "DISCONNECTED"]
    /\ UNCHANGED <<running, connections, timer, promise>>

\* The 'close' listener, and before it 'error' if the socket failed: neither
\* settles the promise nor stops the timer.
Closed(c) ==
    /\ socket[c] \in {"connecting", "open", "destroyed"}
    /\ socket' = [socket EXCEPT ![c] = "closed"]
    /\ state' = [state EXCEPT ![c] = "DISCONNECTED"]
    /\ connections' = connections \ {c}
    /\ UNCHANGED <<running, timer, promise>>

Destroyed(cs) ==
    [c \in Conn |-> IF c \in cs /\ socket[c] # "closed" THEN "destroyed" ELSE socket[c]]

\* Mutant of Timeout: only the map's own connections are given up.
TimeoutOfKnown(c) ==
    /\ c \in timer /\ c \in connections
    /\ timer' = timer \ {c}
    /\ socket' = Destroyed({c})
    /\ state' = [state EXCEPT ![c] = "ERROR"]
    /\ promise' = [promise EXCEPT ![c] = "rejected"]
    /\ UNCHANGED <<running, connections>>

\* The timer of connect(), also of one that was closed or stopped since.
Timeout(c) ==
    /\ c \in timer
    /\ timer' = timer \ {c}
    /\ socket' = Destroyed({c})
    /\ state' = [state EXCEPT ![c] = "ERROR"]
    /\ promise' = [promise EXCEPT ![c] = "rejected"]
    /\ UNCHANGED <<running, connections>>

\* closeConnection, for each of the connections cs.
CloseConnections(cs) ==
    /\ socket' = Destroyed(cs)
    /\ state' = [c \in Conn |-> IF c \in cs THEN "DISCONNECTED" ELSE state[c]]
    /\ connections' = connections \ cs
    /\ UNCHANGED <<timer, promise>>

Disconnect(c) ==
    /\ c \in connections
    /\ CloseConnections({c})
    /\ UNCHANGED running

Stop ==
    /\ running /\ running' = FALSE
    /\ CloseConnections(connections)

\* send() writes to the socket of these.
Sendable == {c \in connections : state[c] = "CONNECTED"}

VsockNext ==
    \/ Start \/ Stop
    \/ \E c \in Conn :
        Connect(c) \/ Connected(c) \/ Closed(c) \/ Timeout(c) \/ Disconnect(c)

VsockFairness ==
    \A c \in Conn : WF_vsockVars(Timeout(c)) /\ WF_vsockVars(socket[c] = "destroyed" /\ Closed(c))

VsockSpec == VsockInit /\ [][VsockNext]_vsockVars /\ VsockFairness

-----------------------------------------------------------------------------
(* Properties *)

\* send() never writes to a socket that is not open, and no connection stays
\* in the map after its socket has closed: a timeout that overwrites the state
\* of a closed connection, and a stop in the middle of a connect, leave nothing
\* behind.  (closeConnection, the 'close' listener, the timer)
OnlyOpenIsUsed ==
    /\ \A c \in Sendable : socket[c] = "open"
    /\ \A c \in connections : socket[c] # "closed"

\* Every caller of connect() gets an answer, also when the socket failed, the
\* connection was closed or the adapter stopped in between: none of these
\* settles the promise, the timer does.
ConnectSettles == \A c \in Conn : promise[c] = "pending" ~> promise[c] # "pending"
=============================================================================
