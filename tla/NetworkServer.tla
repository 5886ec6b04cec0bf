---------------------------- MODULE NetworkServer ----------------------------
(****************************************************************************)
(* network/network.c: a server that listens on one port and keeps the       *)
(* connections it accepted, and clients.  The kernel's part is external:    *)
(* the descriptors of the server's process, the one socket bound to the     *)
(* port, and the queue of connections not yet accepted.                     *)
(*                                                                          *)
(* The list of connections is a set, its order is not observable.  Sending  *)
(* and receiving change last_activity only, which nothing reads; they are   *)
(* left out, and with them what is sent.                                    *)
(****************************************************************************)
EXTENDS Integers, FiniteSets

CONSTANTS
    Client,
    Fd,              \* the descriptors the process may have open
    None,            \* INVALID_SOCKET_VALUE
    MaxConnections,  \* max_connections
    MaxSessions      \* bound: times a client connects

NetworkAssumption ==
    /\ IsFiniteSet(Fd) /\ None \notin Fd
    /\ MaxConnections \in Nat \ {0} /\ MaxSessions \in Nat

VARIABLES
    open,      \* descriptors in use
    bound,     \* the one that is bound to the port, None when the port is free
    pending,   \* connections the kernel holds for it: pairs of client and session
    exists,    \* there is a server object
    listen,    \* listen_socket
    running,
    conns,     \* the list of connections
    count,     \* current_connections
    session,   \* how often each client connected
    connected  \* the clients whose state is CONNECTED

serverVars == <<exists, listen, running, conns, count>>
kernelVars == <<open, bound, pending>>
clientVars == <<session, connected>>
networkVars == <<serverVars, kernelVars, clientVars>>

Session == Client \X Nat

Connection == [sock : Fd, peer : Session]

NetworkTypeOK ==
    /\ open \subseteq Fd
    /\ bound \in Fd \cup {None} /\ listen \in Fd \cup {None}
    /\ pending \subseteq Session
    /\ exists \in BOOLEAN /\ running \in BOOLEAN
    /\ conns \subseteq Connection /\ IsFiniteSet(conns)
    /\ count \in Int
    /\ session \in [Client -> Nat]
    /\ connected \subseteq Client

Sockets == {c.sock : c \in conns}

NetworkInit ==
    /\ open = {} /\ bound = None /\ pending = {}
    /\ exists = FALSE /\ listen = None /\ running = FALSE
    /\ conns = {} /\ count = 0
    /\ session = [c \in Client |-> 0] /\ connected = {}

\* network_server_init
ServerInit ==
    /\ ~exists
    /\ exists' = TRUE
    /\ listen' = None /\ running' = FALSE /\ conns' = {} /\ count' = 0
    /\ UNCHANGED <<kernelVars, clientVars>>

\* The server listens.  A port that is taken cannot be bound, SO_REUSEADDR or
\* not.  What listen_socket was is overwritten.
StartSucceeds ==
    /\ exists
    /\ bound = None
    /\ \E fd \in Fd \ open :
          /\ listen' = fd
          /\ open' = open \cup {fd}
          /\ bound' = fd
    /\ running' = TRUE
    /\ UNCHANGED <<exists, conns, count, pending, clientVars>>

\* socket, setsockopt, bind or listen fails.  The new socket is closed, and the
\* server does not know the one it had before; it stays running if it was.
StartFails ==
    /\ exists
    /\ listen' = None
    /\ UNCHANGED <<exists, running, conns, count, kernelVars, clientVars>>

\* Slip: the listening socket is closed but not forgotten.
StopKeepsDescriptor ==
    /\ exists /\ running
    /\ running' = FALSE
    /\ IF listen = None THEN UNCHANGED kernelVars
       ELSE /\ open' = open \ {listen}
            /\ bound' = IF bound = listen THEN None ELSE bound
            /\ pending' = IF bound = listen THEN {} ELSE pending
    /\ UNCHANGED <<exists, listen, conns, count, clientVars>>

\* Closing the bound socket resets what it had not accepted.  The connections
\* stay.
Stop ==
    /\ exists /\ running
    /\ running' = FALSE
    /\ listen' = None
    /\ IF listen = None THEN UNCHANGED kernelVars
       ELSE /\ open' = open \ {listen}
            /\ bound' = IF bound = listen THEN None ELSE bound
            /\ pending' = IF bound = listen THEN {} ELSE pending
    /\ UNCHANGED <<exists, conns, count, clientVars>>

\* network_server_accept, when there is a connection to accept: one that the
\* client has left by now, too.
Accept ==
    /\ exists /\ running /\ listen # None
    /\ count < MaxConnections
    /\ \E peer \in pending, fd \in Fd \ open :
          /\ pending' = pending \ {peer}
          /\ open' = open \cup {fd}
          /\ conns' = conns \cup {[sock |-> fd, peer |-> peer]}
    /\ count' = count + 1
    /\ UNCHANGED <<exists, listen, running, bound, clientVars>>

\* The connection is accepted, then closed because its record cannot be
\* allocated.
AcceptFails ==
    /\ exists /\ running /\ listen # None
    /\ count < MaxConnections
    /\ Fd \ open # {}
    /\ \E peer \in pending : pending' = pending \ {peer}
    /\ UNCHANGED <<serverVars, open, bound, clientVars>>

\* Slip: the count is not lowered.
CloseConnectionUncounted(c) ==
    /\ exists
    /\ conns' = conns \ {c}
    /\ open' = open \ {c.sock}
    /\ UNCHANGED <<exists, listen, running, count, bound, pending, clientVars>>

\* Of a connection on the list, the only ones a caller has; also when the server
\* is stopped.
CloseConnection(c) ==
    /\ exists
    /\ conns' = conns \ {c}
    /\ open' = open \ {c.sock}
    /\ count' = count - 1
    /\ UNCHANGED <<exists, listen, running, bound, pending, clientVars>>

\* network_server_destroy: a stop, then every connection is closed.
Destroy ==
    /\ exists
    /\ exists' = FALSE
    /\ running' = FALSE /\ listen' = None /\ conns' = {} /\ count' = 0
    /\ LET stops == running /\ listen # None
       IN  /\ open' = open \ (Sockets \cup IF stops THEN {listen} ELSE {})
           /\ bound' = IF stops /\ bound = listen THEN None ELSE bound
           /\ pending' = IF stops /\ bound = listen THEN {} ELSE pending
    /\ UNCHANGED clientVars

\* network_client_connect: the kernel completes it before anyone accepts.  One
\* that fails leaves the client as it was.
ClientConnect(c) ==
    /\ c \notin connected
    /\ session[c] < MaxSessions
    /\ bound # None
    /\ session' = [session EXCEPT ![c] = @ + 1]
    /\ pending' = pending \cup {<<c, session[c]>>}
    /\ connected' = connected \cup {c}
    /\ UNCHANGED <<serverVars, open, bound>>

\* network_client_disconnect
ClientDisconnect(c) ==
    /\ connected' = connected \ {c}
    /\ UNCHANGED <<serverVars, kernelVars, session>>

Server ==
    \/ ServerInit \/ StartSucceeds \/ StartFails \/ Stop \/ Destroy
    \/ Accept \/ AcceptFails
    \/ \E c \in conns : CloseConnection(c)

NetworkNext == Server \/ \E c \in Client : ClientConnect(c) \/ ClientDisconnect(c)

NetworkSpec == NetworkInit /\ [][NetworkNext]_networkVars

-----------------------------------------------------------------------------
(* Properties.                                                              *)

\* The count that accept is limited by is the number of connections there are,
\* through stops, restarts and failures.
CountedExactly == count = Cardinality(conns) /\ count <= MaxConnections

\* Every descriptor is a connection's, each its own, or the listening socket's;
\* starting a server that runs loses at most the one that holds the port.
DescriptorsKnown ==
    /\ \A c, d \in conns : c.sock = d.sock => c = d
    /\ open = Sockets \cup ({bound} \ {None})
    /\ bound \notin Sockets
    /\ listen \in {bound, None}

\* A connection the kernel made waits or is on the list, never both or twice.
SessionsApart ==
    /\ \A c, d \in conns : c.peer = d.peer => c = d
    /\ \A c \in conns : c.peer \notin pending
    /\ bound = None => pending = {}

\* The server's lists, its counter and the kernel's sockets agree after any
\* sequence of start, stop, accept and close (network.c:133-314).
SocketsAccounted == CountedExactly /\ DescriptorsKnown /\ SessionsApart
=============================================================================
