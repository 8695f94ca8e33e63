-------------------------------- MODULE Ipc ---------------------------------
(***************************************************************************)
(* The socket to gnuaisgui: src/src/ipc.c and the calls of ais.c into it.  *)
(* A listener thread accepts clients and appends them to ipc->clientsocket *)
(* under ipc_mut; the main thread writes every sentence to every client,   *)
(* under the same lock, and a write waits while the client's socket is     *)
(* full.  A client that is gone stays in the array: write() fails, SIGPIPE *)
(* is caught, nothing is removed.  The name of the socket outlives a       *)
(* process that dies.  Clients are external.                               *)
(***************************************************************************)
EXTENDS Integers, Sequences

CONSTANTS
  Clients,
  Limit,         \* MAX_CLIENT_SOCKETS - 2 = 18
  SockLen,       \* sentences that fit the socket of a client
  MaxSentences,  \* bound of the model: sentences written
  None

ASSUME IpcAssumption ==
  /\ Limit \in Nat /\ SockLen \in Nat \ {0} /\ MaxSentences \in Nat
  /\ Clients \subseteq Nat /\ None \notin Nat /\ None # "main"

VARIABLES
  listener,      \* "none", "accept", "accepted", "done"
  connection_fd, \* the client just accepted
  clientsocket,  \* ipc->clientsocket, numclientsockets is its length
  mutex,         \* who holds ipc_mut: "main", "listener" or None
  main,          \* "off", "bind", "run", "write", "join", "exit"
  i,             \* i of ipc_write()
  n,             \* sentences handed to ipc_write() so far
  shut,          \* shutdown(socket_fd, 2) has been called
  path,          \* /tmp/gnuais.socket: None, "ours", or "dead": nobody listens
  sysfail,       \* history: a system call failed for want of resources
  client,        \* "idle", "connecting", "connected" or "gone", per client
  sock,          \* sentences in the client's socket
  got,           \* history: sentences the client has read
  joined         \* history: n when the client was added, None before

nameVars   == <<path, sysfail>>
threadVars == <<listener, connection_fd>>
callVars   == <<main, i, n, shut>>
clientVars == <<client, sock, got>>
ipcVars    == <<threadVars, clientsocket, mutex, callVars, nameVars, clientVars, joined>>

numclientsockets == Len(clientsocket)

IpcInit ==
  /\ listener = "none" /\ connection_fd = None
  /\ clientsocket = <<>> /\ mutex = None
  /\ main = "off" /\ i = 0 /\ n = 0 /\ shut = FALSE
  /\ path = None /\ sysfail = FALSE
  /\ client = [c \in Clients |-> "idle"]
  /\ sock = [c \in Clients |-> <<>>]
  /\ got = [c \in Clients |-> <<>>]
  /\ joined = [c \in Clients |-> None]

-----------------------------------------------------------------------------
(* gnuais_ipc_init()                                                       *)

\* Mutant: what a dead daemon left is not removed.
UnlinkSocketNot ==
  /\ main = "off"
  /\ main' = "bind"
  /\ UNCHANGED <<threadVars, clientsocket, mutex, i, n, shut, nameVars, clientVars, joined>>

\* socket() and unlink().
UnlinkSocket ==
  /\ main = "off"
  /\ path' = None /\ main' = "bind"
  /\ UNCHANGED <<threadVars, clientsocket, mutex, i, n, shut, sysfail, clientVars, joined>>

\* bind(), which fails if the name is taken; listen(), pthread_create().
BindSocket ==
  /\ main = "bind"
  /\ IF path = None THEN path' = "ours" /\ listener' = "accept"
                    ELSE UNCHANGED <<path, listener>>
  /\ main' = "run"
  /\ UNCHANGED <<connection_fd, clientsocket, mutex, i, n, shut, sysfail, clientVars, joined>>

\* One of the calls fails; if it is the last one, the name is bound all the same.
InitFails ==
  /\ main \in {"off", "bind"}
  /\ sysfail' = TRUE /\ main' = "run"
  /\ path' \in IF main = "bind" /\ path = None THEN {None, "ours"} ELSE {path}
  /\ UNCHANGED <<threadVars, clientsocket, mutex, i, n, shut, clientVars, joined>>

-----------------------------------------------------------------------------
(* gnuais_ipc_socketlistener()                                             *)

\* The client that waits longest is accepted, before the limit is looked at and
\* outside of the lock.
Accept(c) ==
  /\ listener = "accept" /\ ~shut
  /\ client[c] = "connecting" /\ \A d \in Clients : d < c => client[d] # "connecting"
  /\ client' = [client EXCEPT ![c] = "connected"]
  /\ connection_fd' = c
  /\ listener' = IF numclientsockets < Limit THEN "accepted" ELSE "done"
  /\ UNCHANGED <<clientsocket, mutex, callVars, nameVars, sock, got, joined>>

\* accept() fails after the shutdown; and it may fail at the first call,
\* because address_length is not initialised.
AcceptFails ==
  /\ listener = "accept"
  /\ shut \/ connection_fd = None
  /\ listener' = "done"
  /\ UNCHANGED <<connection_fd, clientsocket, mutex, callVars, nameVars, clientVars, joined>>

\* Mutant: the client is added without the lock.
AddClientUnlocked ==
  /\ listener = "accepted"
  /\ clientsocket' = Append(clientsocket, connection_fd)
  /\ joined' = [joined EXCEPT ![connection_fd] = n]
  /\ listener' = "accept"
  /\ UNCHANGED <<connection_fd, mutex, callVars, nameVars, clientVars>>

\* Mutant: the lock is not given back.
AddClientKeepsLock ==
  /\ listener = "accepted" /\ mutex = None
  /\ clientsocket' = Append(clientsocket, connection_fd)
  /\ joined' = [joined EXCEPT ![connection_fd] = n]
  /\ listener' = "accept" /\ mutex' = "listener"
  /\ UNCHANGED <<connection_fd, callVars, nameVars, clientVars>>

\* Lock, append, unlock.
AddClient ==
  /\ listener = "accepted" /\ mutex = None
  /\ clientsocket' = Append(clientsocket, connection_fd)
  /\ joined' = [joined EXCEPT ![connection_fd] = n]
  /\ listener' = "accept"
  /\ UNCHANGED <<connection_fd, mutex, callVars, nameVars, clientVars>>

-----------------------------------------------------------------------------
(* The main thread.                                                        *)

\* protodec_generate_nmea() does not call it if the socket could not be opened.
ipc_write ==
  /\ main = "run" /\ listener # "none" /\ n < MaxSentences
  /\ mutex = None
  /\ mutex' = "main"
  /\ main' = "write" /\ i' = 1 /\ n' = n + 1
  /\ UNCHANGED <<threadVars, clientsocket, shut, nameVars, clientVars, joined>>

\* One write() of the loop: it waits for room, and fails if the client is gone.
WriteClient ==
  /\ main = "write" /\ i <= numclientsockets
  /\ LET c == clientsocket[i]
     IN  \/ /\ client[c] = "connected" /\ Len(sock[c]) < SockLen
            /\ sock' = [sock EXCEPT ![c] = Append(@, n)]
         \/ /\ client[c] = "gone"
            /\ UNCHANGED sock
  /\ i' = i + 1
  /\ UNCHANGED <<threadVars, clientsocket, mutex, main, n, shut, nameVars, client, got, joined>>

WriteDone ==
  /\ main = "write" /\ i > numclientsockets
  /\ mutex' = None
  /\ main' = "run"
  /\ i' = 0
  /\ UNCHANGED <<threadVars, clientsocket, n, shut, nameVars, clientVars, joined>>

\* Mutant: the socket is not shut down.
gnuais_ipc_deinitNoShutdown ==
  /\ main = "run"
  /\ main' = "join"
  /\ UNCHANGED <<threadVars, clientsocket, mutex, i, n, shut, nameVars, clientVars, joined>>

\* gnuais_ipc_deinit(): shutdown(), then wait for the listener.
gnuais_ipc_deinit ==
  /\ main = "run"
  /\ shut' = TRUE
  /\ main' = "join"
  /\ UNCHANGED <<threadVars, clientsocket, mutex, i, n, nameVars, clientVars, joined>>

\* pthread_join() returns; the name is removed and the state freed.
IpcFree ==
  /\ main = "join" /\ listener = "done"
  /\ main' = "exit" /\ path' = None
  /\ UNCHANGED <<threadVars, clientsocket, mutex, i, n, shut, sysfail, clientVars, joined>>

\* There is no listener to wait for: if pthread_join() returns, it is an error.
JoinNothing ==
  /\ main = "join" /\ listener = "none"
  /\ main' = "exit"
  /\ UNCHANGED <<threadVars, clientsocket, mutex, i, n, shut, nameVars, clientVars, joined>>

\* The process ends, in order or not: connections break, the name stays.
ProcessEnds ==
  /\ listener' = "none" /\ connection_fd' = None
  /\ clientsocket' = <<>> /\ mutex' = None
  /\ main' = "off" /\ i' = 0 /\ shut' = FALSE
  /\ path' = (IF path = "ours" THEN "dead" ELSE path) /\ sysfail' = FALSE
  /\ client' = [c \in Clients |-> IF client[c] = "idle" THEN "idle" ELSE "gone"]
  /\ sock' = [c \in Clients |-> <<>>] /\ got' = [c \in Clients |-> <<>>]
  /\ joined' = [c \in Clients |-> None]
  /\ UNCHANGED n

-----------------------------------------------------------------------------
(* The clients.                                                            *)

daemonVars == <<threadVars, clientsocket, mutex, callVars, nameVars, joined>>

\* connect() succeeds as soon as the socket listens, whether it is accepted or
\* not.  Clients are numbered in the order in which they connect.
Connect(c) ==
  /\ client[c] = "idle" /\ path = "ours" /\ ~shut
  /\ \A d \in Clients : d < c => client[d] # "idle"
  /\ client' = [client EXCEPT ![c] = "connecting"]
  /\ UNCHANGED <<daemonVars, sock, got>>

Read(c) ==
  /\ client[c] = "connected" /\ sock[c] # <<>>
  /\ got' = [got EXCEPT ![c] = Append(@, Head(sock[c]))]
  /\ sock' = [sock EXCEPT ![c] = Tail(@)]
  /\ UNCHANGED <<daemonVars, client>>

Leave(c) ==
  /\ client[c] = "connected"
  /\ client' = [client EXCEPT ![c] = "gone"]
  /\ sock' = [sock EXCEPT ![c] = <<>>] /\ got' = [got EXCEPT ![c] = <<>>]
  /\ UNCHANGED daemonVars

-----------------------------------------------------------------------------
(* Properties                                                              *)

(***************************************************************************)
(* A client gets every sentence that is written after it was added, once   *)
(* and in order, while others come and go: not one is written twice or     *)
(* left out because the array grows during the loop of ipc_write().        *)
(***************************************************************************)
StreamIsComplete ==
  \A c \in Clients :
    joined[c] # None /\ client[c] = "connected" =>
      LET all  == got[c] \o sock[c]
          sent == main # "write" \/ \E k \in 1 .. i - 1 : clientsocket[k] = c
          upTo == IF sent THEN n ELSE n - 1
      IN  all = [k \in 1 .. upTo - joined[c] |-> joined[c] + k]

(***************************************************************************)
(* A client that connects is served, or leaves, or the listener has ended: *)
(* at the limit, at the shutdown or because its first accept() failed; or  *)
(* it was never started, because the system refused a thread.              *)
(***************************************************************************)
ConnectedIsServed ==
  \A c \in Clients :
    client[c] = "connecting" ~> (joined[c] # None \/ client[c] = "gone" \/ listener = "done" \/ sysfail)

(***************************************************************************)
(* The socket comes up, unless the system refuses something: what a daemon *)
(* that was killed left at /tmp/gnuais.socket does not keep the next one   *)
(* from serving the GUI.                                                   *)
(***************************************************************************)
SocketComesUp == main = "run" /\ listener = "none" => sysfail
=============================================================================
