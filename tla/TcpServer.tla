----------------------------- MODULE TcpServer ------------------------------
(***************************************************************************)
(* TcpServer, ConnectionManager and EventLoopThreadPool: connections are   *)
(* accepted in the main loop, set up in the I/O loop that is their turn,   *)
(* and removed in the main loop again.  A loop is its queue of tasks (the  *)
(* FIFO that module EventLoop implements); 0 is the main loop.  A          *)
(* connection is its fd, its state and the references that keep it, and a  *)
(* file descriptor returns to the kernel's table when it is closed.        *)
(***************************************************************************)
EXTENDS Integers, Sequences, FiniteSets, FiniteSetsExt, Functions

CONSTANTS ThreadCounts,     \* the values set_thread_num may be given
          Limits,           \* the values the connection manager may be given
          Fds,              \* the numbers the kernel has left for accept
          Clients,
          MaxCloses         \* bound: calls of handle_close on one connection

ASSUME ConstantsAssumption ==
    /\ ThreadCounts \subseteq Nat /\ ThreadCounts # {} /\ IsFiniteSet(ThreadCounts)
    /\ Limits \subseteq Nat
    /\ Fds \subseteq Nat /\ IsFiniteSet(Fds)
    /\ MaxCloses \in Nat

VARIABLES num_threads_,
          max_connections_,
          started_,
          accepting,      \* the accept channel is enabled
          backlog,        \* clients the kernel has connected, in order
          next_,          \* of the thread pool
          open_fds,
          setups,         \* of each loop, the set-up tasks: <<fd, client>>
          removals,       \* of the main loop, the removal tasks
          connections_,   \* ids of the connections in the manager's table
          conn,           \* by id, every connection ever made
          refused         \* clients whose connection was refused

fd_vars   == <<open_fds, setups, conn, connections_, refused>>
pool_vars == <<num_threads_, max_connections_, started_, accepting, next_>>
vars == <<pool_vars, backlog, fd_vars, removals>>

Main     == 0
IOLoops  == 1..num_threads_
AllLoops == 0..Max(ThreadCounts)
Ids      == DOMAIN conn

Init ==
    /\ num_threads_ \in ThreadCounts
    /\ max_connections_ \in Limits
    /\ started_ = FALSE
    /\ accepting = FALSE
    /\ backlog = << >>
    /\ next_ = 0
    /\ open_fds = {}
    /\ setups = [l \in AllLoops |-> << >>]
    /\ removals = << >>
    /\ connections_ = {}
    /\ conn = << >>
    /\ refused = {}

-----------------------------------------------------------------------------
(* Starting, and clients *)

\* Mutant: start leaves the accept channel as it is.
start_m ==
    /\ ~started_
    /\ started_' = TRUE
    /\ UNCHANGED <<num_threads_, max_connections_, accepting, next_, backlog, fd_vars,
                   removals>>

\* start, the first time: the pool's threads, and the accept channel.
start ==
    /\ ~started_
    /\ started_' = TRUE
    /\ accepting' = TRUE
    /\ UNCHANGED <<num_threads_, max_connections_, next_, backlog, fd_vars, removals>>

\* The server listens from its constructor on.
Connect(k) ==
    /\ k \notin Range(backlog) \cup refused \cup {conn[c].client : c \in Ids}
    /\ \A l \in AllLoops : \A i \in DOMAIN setups[l] : setups[l][i][2] # k
    /\ backlog' = Append(backlog, k)
    /\ UNCHANGED <<pool_vars, fd_vars, removals>>

-----------------------------------------------------------------------------
(* New connections *)

Full == Cardinality(connections_) >= max_connections_

\* Mutant: the fd of a refused connection is not closed.
Refuse_m(fd, k, opened) ==
    /\ refused' = refused \cup {k}
    /\ open_fds' = opened
    /\ UNCHANGED <<connections_, conn>>

\* ConnectionManager::create returned no connection: the fd is closed.
Refuse(fd, k, opened) ==
    /\ refused' = refused \cup {k}
    /\ open_fds' = opened \ {fd}
    /\ UNCHANGED <<connections_, conn>>

\* Mutant: the connection stays in the state it is made in.
Establish_m(fd, k, l, opened) ==
    /\ connections_' = connections_ \cup {Len(conn) + 1}
    /\ conn' = Append(conn, [fd |-> fd, loop |-> l, client |-> k, state_ |-> "kConnecting",
                             session |-> FALSE, closes |-> 0, destroyed |-> FALSE])
    /\ open_fds' = opened
    /\ UNCHANGED refused

\* create, connect_established, and the connection callback, which may start a
\* session that holds the connection.
Establish(fd, k, l, opened) ==
    /\ connections_' = connections_ \cup {Len(conn) + 1}
    /\ \E session \in BOOLEAN :
          conn' = Append(conn, [fd |-> fd, loop |-> l, client |-> k,
                                state_ |-> "kConnected", session |-> session, closes |-> 0, destroyed |-> FALSE])
    /\ open_fds' = opened
    /\ UNCHANGED refused

\* The task that new_connection posts, with the open fds: create has the lock
\* of the manager.
SetUp(fd, k, l, opened) ==
    IF Full THEN Refuse(fd, k, opened) ELSE Establish(fd, k, l, opened)

\* get_next_loop; next_ is an int, far from its end here.
get_next_loop == IF num_threads_ = 0 THEN Main ELSE 1 + (next_ % num_threads_)

\* The accept callback, once per poll that finds the listening socket readable:
\* accept gives the lowest free fd, and fails if there is none.  new_connection
\* runs the set-up at once if the main loop has no I/O threads beside it.
Accept ==
    /\ accepting /\ backlog # << >> /\ open_fds # Fds
    /\ LET fd == Min(Fds \ open_fds)
           l  == get_next_loop
       IN  /\ next_' = IF l = Main THEN next_ ELSE next_ + 1
           /\ IF l = Main
              THEN SetUp(fd, Head(backlog), l, open_fds \cup {fd}) /\ UNCHANGED setups
              ELSE /\ setups' = [setups EXCEPT ![l] = Append(@, <<fd, Head(backlog)>>)]
                   /\ open_fds' = open_fds \cup {fd}
                   /\ UNCHANGED <<connections_, conn, refused>>
    /\ backlog' = Tail(backlog)
    /\ UNCHANGED <<num_threads_, max_connections_, started_, accepting, removals>>

RunSetUp(l) ==
    /\ setups[l] # << >>
    /\ SetUp(Head(setups[l])[1], Head(setups[l])[2], l, open_fds)
    /\ setups' = [setups EXCEPT ![l] = Tail(@)]
    /\ UNCHANGED <<pool_vars, backlog, removals>>

-----------------------------------------------------------------------------
(* The end of connections *)

\* A session ends: shutdown, and its reference is gone.
SessionEnd(c) ==
    /\ conn[c].session
    /\ conn' = [conn EXCEPT ![c].session = FALSE,
                            ![c].state_ = IF @ = "kConnected" THEN "kDisconnecting" ELSE @]
    /\ UNCHANGED <<pool_vars, backlog, open_fds, setups, connections_, refused, removals>>

\* Mutant: the connection stays in the table.
Removed_m(c, cs) ==
    /\ conn' = [cs EXCEPT ![c].state_ = "kDisconnected"]
    /\ UNCHANGED connections_

\* The task of remove_connection, with the connections: ConnectionManager::remove
\* and connect_destroyed.
Removed(c, cs) ==
    /\ connections_' = connections_ \ {c}
    /\ conn' = [cs EXCEPT ![c].state_ = "kDisconnected"]

\* handle_close, for whatever reason, and again for every error or hang-up that
\* follows: remove_connection runs in the main loop.
handle_close(c) ==
    /\ ~conn[c].destroyed /\ conn[c].closes < MaxCloses
    /\ LET cs == [conn EXCEPT ![c].state_ = "kDisconnected", ![c].closes = @ + 1]
       IN  IF conn[c].loop = Main
           THEN Removed(c, cs) /\ UNCHANGED removals
           ELSE /\ removals' = Append(removals, c)
                /\ conn' = cs
                /\ UNCHANGED connections_
    /\ UNCHANGED <<pool_vars, backlog, open_fds, setups, refused>>

RunRemoval ==
    /\ removals # << >>
    /\ Removed(Head(removals), conn)
    /\ removals' = Tail(removals)
    /\ UNCHANGED <<pool_vars, backlog, open_fds, setups, refused>>

\* Mutant: a removal task has no reference to its connection.
Referenced_m(c) == c \in connections_ \/ conn[c].session

\* Who has a reference to the connection.
Referenced(c) == c \in connections_ \/ conn[c].session \/ c \in Range(removals)

\* ~TcpConnection, some time after the last reference is gone (the batch of tasks
\* that had it, or handle_close, returns): the fd is closed.
Destroy(c) ==
    /\ ~conn[c].destroyed /\ ~Referenced(c)
    /\ conn' = [conn EXCEPT ![c].destroyed = TRUE]
    /\ open_fds' = open_fds \ {conn[c].fd}
    /\ UNCHANGED <<pool_vars, backlog, setups, connections_, refused, removals>>

-----------------------------------------------------------------------------
Next ==
    \/ start
    \/ \E k \in Clients : Connect(k)
    \/ Accept
    \/ \E l \in IOLoops : RunSetUp(l)
    \/ RunRemoval
    \/ \E c \in Ids : SessionEnd(c) \/ handle_close(c) \/ Destroy(c)

Spec == Init /\ [][Next]_vars

\* start is called, the loops run, and references that are gone are dropped.
\* Nothing says that a session ends or that a peer closes.
FairSpec ==
    /\ Spec
    /\ WF_vars(start) /\ WF_vars(Accept) /\ WF_vars(RunRemoval)
    /\ \A l \in AllLoops : WF_vars(l \in IOLoops /\ RunSetUp(l))
    /\ \A c \in 1..Cardinality(Clients) : WF_vars(c \in Ids /\ Destroy(c))

-----------------------------------------------------------------------------
(* Properties *)

Connections ==
    [fd : Fds, loop : AllLoops, client : Clients, session : BOOLEAN, closes : 0..MaxCloses,
     state_ : {"kConnected", "kDisconnecting", "kDisconnected"}, destroyed : BOOLEAN]

\* Types; a server that has not started has accepted nothing.
TypeOK ==
    /\ num_threads_ \in ThreadCounts
    /\ max_connections_ \in Limits
    /\ started_ \in BOOLEAN /\ accepting \in BOOLEAN
    /\ backlog \in Seq(Clients)
    /\ next_ \in Nat
    /\ open_fds \subseteq Fds
    /\ setups \in [AllLoops -> Seq(Fds \X Clients)]
    /\ conn \in Seq(Connections)
    /\ removals \in Seq(Ids)
    /\ connections_ \subseteq Ids
    /\ refused \subseteq Clients
    /\ ~started_ => open_fds = {} /\ refused = {}

Live       == {c \in Ids : ~conn[c].destroyed}
SetUpFds   == UNION {{setups[l][i][1] : i \in DOMAIN setups[l]} : l \in AllLoops}

\* Every open fd is on its way to one loop or belongs to one connection that is
\* not destroyed: none leaks, none is closed under its owner, and none has two
\* owners, who would read each other's stream or close it.
FdsAccounted ==
    /\ open_fds = SetUpFds \cup {conn[c].fd : c \in Live}
    /\ \A c \in Live : conn[c].fd \notin SetUpFds /\ \A d \in Live \ {c} : conn[d].fd # conn[c].fd
    /\ \A l \in AllLoops : \A i \in DOMAIN setups[l] :
          \A m \in AllLoops : \A j \in DOMAIN setups[m] :
             setups[l][i][1] = setups[m][j][1] => l = m /\ i = j

\* The table never has more connections than its limit, whichever loops set them
\* up at the same time.  A connection that has not been closed is in the table,
\* which keeps it; one that has been is there only as long as its removal is under
\* way.  A removal finds its connection alive.
TableExact ==
    /\ Cardinality(connections_) <= max_connections_
    /\ \A c \in Ids :
          IF conn[c].closes = 0 THEN c \in connections_ /\ ~conn[c].destroyed
                                ELSE c \in connections_ => c \in Range(removals)
    /\ \A i \in DOMAIN removals : ~conn[removals[i]].destroyed

Established == {conn[c].client : c \in Ids}

\* A client that has connected is served or refused, unless the process is out of
\* file descriptors.
Served ==
    \A k \in Clients :
        (k \in Range(backlog)) ~> (k \in Established \cup refused \/ open_fds = Fds)

\* The fd of a connection that is closed and whose session has ended is closed.
ClosedReaped ==
    \A c \in 1..Cardinality(Clients) :
        (c \in Ids /\ conn[c].closes > 0 /\ ~conn[c].session) ~> (c \in Ids /\ conn[c].destroyed)
=============================================================================
