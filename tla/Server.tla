------------------------------- MODULE Server -------------------------------
(***************************************************************************)
(* The running server: main's thread (src/posix_main.cpp), the acceptor    *)
(* (src/server.cpp), the connections and their handlers                    *)
(* (src/connection.cpp), and the accesses of handle_request to the shared  *)
(* mapnik::Map objects (src/request_handler.cpp), on top of IoServicePool. *)
(*                                                                         *)
(* Connections are numbered in the order the server creates them; the      *)
(* settings a request writes into a map are abstracted to the number of    *)
(* the connection that wrote them, 0 standing for the stylesheet's own.    *)
(* What a read delivers is left open here: an error, an unfinished         *)
(* request, a request answered without a map, or one that renders.         *)
(***************************************************************************)
EXTENDS IoServicePool, FiniteSets

CONSTANTS
  MaxConn,   \* bound: connection objects created, so MaxConn - 1 clients accepted
  Build      \* the preprocessor configuration, see scons_ext/core.py

MapPerIo   == "MAP_PER_IO"     \* one map per io_service, the default
MapRequest == "MAP_REQUEST"    \* one shared map, and a mapnik::request per render
SharedMap  == "SHARED"         \* neither macro: one shared map

ASSUME ServerAssumption ==
  /\ MaxConn \in Nat \ {0}
  /\ Build \in {MapPerIo, MapRequest, SharedMap}

VARIABLES
  new_connection_,   \* the connection the next client will get
  acceptor,          \* "accepting": async_accept outstanding; "resetting": inside
                     \* handle_accept; "closed": no accept is outstanding any more
  conn_io,           \* conn_io[c]: the io_service of c's socket
  conn_map,          \* conn_map[c]: the map c renders with
  conn_op,           \* conn_op[c]: c's outstanding asynchronous operation
  conn_pc,           \* conn_pc[c]: where handle_request is with c's request
  map_,              \* map_[m]: the settings of map m
  r_srs,             \* r_srs[c]: srs of c's mapnik::request (MAP_REQUEST only)
  main_pc            \* progress of main after it has started the server

conn_vars == <<conn_io, conn_map, conn_op, conn_pc>>
server_vars == <<new_connection_, acceptor, conn_vars, map_, r_srs, main_pc>>
vars == <<pool_vars, server_vars>>

Conn == 1 .. MaxConn
Maps == IF Build = MapPerIo THEN Io ELSE {0}

AcceptHandler == 0                 \* running[i] = c is a handler of connection c
Handler == Conn \cup {AcceptHandler}
AcceptorIo == 0                    \* the first io_service the pool hands out

OpState == {"none", "read", "write"}
PcState == {"idle", "set_srs", "layers", "resize", "zoom", "render", "encode"}
NoSettings == [srs |-> 0, layers |-> 0, size |-> 0, extent |-> 0]
Settings == [srs : Conn \cup {0}, layers : Conn \cup {0},
             size : Conn \cup {0}, extent : Conn \cup {0}]

-----------------------------------------------------------------------------
(* The constructor. It runs in main's thread before any other exists: the   *)
(* pool, then the acceptor on the first io_service, then the first          *)
(* connection on the next one with the first map, then start_accept.        *)

Init ==
  /\ next_io_service_ = Advance(Advance(AcceptorIo))
  /\ next_map_service_ = IF Build = MapPerIo THEN Advance(0) ELSE 0
  /\ thread = [i \in Io |-> "none"]
  /\ running = [i \in Io |-> Idle]
  /\ spawned = 0
  /\ joined = 0
  /\ stopped = [i \in Io |-> FALSE]
  /\ stop_next = 0
  /\ aborted = FALSE
  /\ new_connection_ = 1
  /\ acceptor = "accepting"
  /\ conn_io = [c \in Conn |-> IF c = 1 THEN Advance(AcceptorIo) ELSE 0]
  /\ conn_map = [c \in Conn |-> 0]
  /\ conn_op = [c \in Conn |-> "none"]
  /\ conn_pc = [c \in Conn |-> "idle"]
  /\ map_ = [m \in Maps |-> NoSettings]
  /\ r_srs = [c \in Conn |-> 0]
  /\ main_pc = "sigwait"

-----------------------------------------------------------------------------
(* Threads executing handlers.                                              *)

UNCHANGED_pool == UNCHANGED pool_vars
UNCHANGED_running == UNCHANGED <<next_io_service_, next_map_service_, thread, spawned,
                             joined, stopped, stop_next, aborted>>

\* Thread i takes handler h off its queue and is inside it after the step.
Begin(i, h) ==
  /\ CanRun(i)
  /\ running' = [running EXCEPT ![i] = h]
  /\ UNCHANGED_running

\* Thread i takes a handler off its queue and returns from it within the step.
RunToEnd(i) == CanRun(i) /\ UNCHANGED_pool

\* Thread i is inside handler h, and still is after the step.
Inside(i, h) == ~aborted /\ running[i] = h /\ UNCHANGED_pool

\* Thread i returns from handler h.
End(i, h) ==
  /\ ~aborted
  /\ running[i] = h
  /\ running' = [running EXCEPT ![i] = Idle]
  /\ UNCHANGED_running

-----------------------------------------------------------------------------
(* server::handle_accept. Between start() and reset() the connection's own  *)
(* thread may already be handling what the client sent.                     *)

HandleAccept ==
  /\ acceptor = "accepting"
  /\ new_connection_ < MaxConn
  /\ Begin(AcceptorIo, AcceptHandler)
  /\ conn_op' = [conn_op EXCEPT ![new_connection_] = "read"]
  /\ acceptor' = "resetting"
  /\ UNCHANGED <<new_connection_, conn_io, conn_map, conn_pc, map_, r_srs, main_pc>>

\* On an error nothing is started: the server accepts no client any more.
HandleAcceptError ==
  /\ acceptor = "accepting"
  /\ RunToEnd(AcceptorIo)
  /\ acceptor' = "closed"
  /\ UNCHANGED <<new_connection_, conn_vars, map_, r_srs, main_pc>>

\* async_accept again, on the connection that was just started.
ResetConnection_Reuses ==
  /\ acceptor = "resetting"
  /\ End(AcceptorIo, AcceptHandler)
  /\ acceptor' = "accepting"
  /\ UNCHANGED <<new_connection_, conn_vars, map_, r_srs, main_pc>>

\* reset(new connection(...)) and the next async_accept.
ResetConnection ==
  LET c == new_connection_ + 1
  IN  /\ acceptor = "resetting"
      /\ ~aborted
      /\ running[AcceptorIo] = AcceptHandler
      /\ running' = [running EXCEPT ![AcceptorIo] = Idle]
      /\ conn_io' = [conn_io EXCEPT ![c] = next_io_service_]
      /\ GetIoService
      /\ IF Build = MapPerIo
         THEN conn_map' = [conn_map EXCEPT ![c] = next_map_service_] /\ GetMapService
         ELSE UNCHANGED <<conn_map, next_map_service_>>
      /\ new_connection_' = c
      /\ acceptor' = "accepting"
      /\ UNCHANGED <<thread, spawned, joined, stopped, stop_next, aborted, conn_op,
                     conn_pc, map_, r_srs, main_pc>>

-----------------------------------------------------------------------------
(* connection::handle_read, by what the read and the parser found.          *)

ReadCompletes(c) == conn_op[c] = "read"

\* The read failed: no operation is started and the connection goes away.
HandleReadError(c) ==
  /\ ReadCompletes(c)
  /\ RunToEnd(conn_io[c])
  /\ conn_op' = [conn_op EXCEPT ![c] = "none"]
  /\ UNCHANGED <<new_connection_, acceptor, conn_io, conn_map, conn_pc, map_, r_srs,
                 main_pc>>

\* The request is not complete: read again.
HandleReadMore(c) ==
  /\ ReadCompletes(c)
  /\ RunToEnd(conn_io[c])
  /\ UNCHANGED server_vars

\* The parser refuses the request, or handle_request returns before it
\* touches a map: write the reply.
HandleReadReply(c) ==
  /\ ReadCompletes(c)
  /\ RunToEnd(conn_io[c])
  /\ conn_op' = [conn_op EXCEPT ![c] = "write"]
  /\ UNCHANGED <<new_connection_, acceptor, conn_io, conn_map, conn_pc, map_, r_srs,
                 main_pc>>

\* Reads on while the request is being handled, into the buffer and the
\* request that the handler still uses.
HandleReadRequest_KeepsReading(c) ==
  /\ ReadCompletes(c)
  /\ Begin(conn_io[c], c)
  /\ conn_pc' = [conn_pc EXCEPT ![c] = "set_srs"]
  /\ UNCHANGED <<new_connection_, acceptor, conn_io, conn_map, conn_op, map_, r_srs,
                 main_pc>>

\* The request is complete and passed every check that precedes line 207.
HandleReadRequest(c) ==
  /\ ReadCompletes(c)
  /\ Begin(conn_io[c], c)
  /\ conn_op' = [conn_op EXCEPT ![c] = "none"]
  /\ conn_pc' = [conn_pc EXCEPT ![c] = "set_srs"]
  /\ UNCHANGED <<new_connection_, acceptor, conn_io, conn_map, map_, r_srs, main_pc>>

HandleRead(c) ==
  \/ HandleReadError(c)
  \/ HandleReadMore(c)
  \/ HandleReadReply(c)
  \/ HandleReadRequest(c)

-----------------------------------------------------------------------------
(* request_handler::handle_request from line 207 on, one step per access to *)
(* the map: other threads may run between any two of them.                  *)

\* The handler of c leaves stage `from` for stage `to` and keeps the thread.
Advances(c, from, to) ==
  /\ conn_pc[c] = from
  /\ Inside(conn_io[c], c)
  /\ conn_pc' = [conn_pc EXCEPT ![c] = to]
  /\ UNCHANGED <<new_connection_, acceptor, conn_io, conn_map, conn_op, main_pc>>

SetSrs(c) ==
  /\ Advances(c, "set_srs", "layers")
  /\ map_' = [map_ EXCEPT ![conn_map[c]].srs = c]
  /\ UNCHANGED r_srs

SetActiveLayers(c) ==
  /\ Advances(c, "layers", "resize")
  /\ map_' = [map_ EXCEPT ![conn_map[c]].layers = c]
  /\ UNCHANGED r_srs

Resize(c) ==
  /\ Advances(c, "resize", "zoom")
  /\ map_' = [map_ EXCEPT ![conn_map[c]].size = c]
  /\ UNCHANGED r_srs

\* The request is left with the srs of an earlier one.
ZoomToBox(c) ==
  /\ Advances(c, "zoom", "render")
  /\ IF Build = MapRequest
     THEN /\ r_srs' = [r_srs EXCEPT ![c] = map_[conn_map[c]].srs]
          /\ UNCHANGED map_
     ELSE /\ map_' = [map_ EXCEPT ![conn_map[c]].extent = c]
          /\ UNCHANGED r_srs

\* The renderer reads the map from its construction to the end of apply().
Render(c) == Advances(c, "render", "encode") /\ UNCHANGED <<map_, r_srs>>

\* save_to_string, the reply's headers, and async_write of the reply.
WriteImage(c) ==
  /\ conn_pc[c] = "encode"
  /\ End(conn_io[c], c)
  /\ conn_pc' = [conn_pc EXCEPT ![c] = "idle"]
  /\ conn_op' = [conn_op EXCEPT ![c] = "write"]
  /\ UNCHANGED <<new_connection_, acceptor, conn_io, conn_map, map_, r_srs, main_pc>>

\* mapnik (or the allocation of the image) throws; nothing catches it.
RenderThrows(c) ==
  /\ conn_pc[c] \in {"layers", "render", "encode"}
  /\ running[conn_io[c]] = c
  /\ RunThrows(conn_io[c])
  /\ UNCHANGED server_vars

HandleRequest(c) ==
  \/ SetSrs(c)
  \/ SetActiveLayers(c)
  \/ Resize(c)
  \/ ZoomToBox(c)
  \/ Render(c)
  \/ WriteImage(c)

\* Waits for another request on the connection, for as long as it takes.
HandleWrite_ReadsOn(c) ==
  /\ conn_op[c] = "write"
  /\ RunToEnd(conn_io[c])
  /\ conn_op' = [conn_op EXCEPT ![c] = "read"]
  /\ UNCHANGED <<new_connection_, acceptor, conn_io, conn_map, conn_pc, map_, r_srs,
                 main_pc>>

\* connection::handle_write: shut the socket down, start nothing.
HandleWrite(c) ==
  /\ conn_op[c] = "write"
  /\ RunToEnd(conn_io[c])
  /\ conn_op' = [conn_op EXCEPT ![c] = "none"]
  /\ UNCHANGED <<new_connection_, acceptor, conn_io, conn_map, conn_pc, map_, r_srs,
                 main_pc>>

-----------------------------------------------------------------------------
(* main: wait for a signal, stop the pool, join the thread in run(), and    *)
(* destroy the server.                                                      *)

Outstanding(i) ==
  \/ i = AcceptorIo /\ acceptor = "accepting"
  \/ \E c \in Conn : conn_io[c] = i /\ conn_op[c] # "none"

Signal ==
  /\ ~aborted
  /\ main_pc = "sigwait"
  /\ main_pc' = "stopping"
  /\ UNCHANGED <<pool_vars, new_connection_, acceptor, conn_vars, map_, r_srs>>

StopPool == main_pc = "stopping" /\ StopNext /\ UNCHANGED server_vars

\* t.join() returns once run() has; the server's destructor then drops every
\* handler that is still queued, and with it the connection it keeps alive.
JoinAndDestroy ==
  /\ ~aborted
  /\ main_pc = "stopping"
  /\ StopCompleted
  /\ RunCompleted
  /\ main_pc' = "destroyed"
  /\ conn_op' = [c \in Conn |-> "none"]
  /\ acceptor' = "closed"
  /\ UNCHANGED <<pool_vars, new_connection_, conn_io, conn_map, conn_pc, map_, r_srs>>

RunPool ==
  \/ SpawnThread /\ UNCHANGED server_vars
  \/ JoinThread /\ UNCHANGED server_vars

RunPoolThrows == SpawnThrows /\ UNCHANGED server_vars

ThreadReturns(i) == RunReturns(i, Outstanding(i)) /\ UNCHANGED server_vars

\* The process is over.
Terminated == (aborted \/ main_pc = "destroyed") /\ UNCHANGED vars

-----------------------------------------------------------------------------
Next ==
  \/ HandleAccept
  \/ HandleAcceptError
  \/ ResetConnection
  \/ \E c \in Conn : HandleRead(c)
  \/ \E c \in Conn : HandleRequest(c)
  \/ \E c \in Conn : RenderThrows(c)
  \/ \E c \in Conn : HandleWrite(c)
  \/ Signal
  \/ StopPool
  \/ JoinAndDestroy
  \/ RunPool
  \/ RunPoolThrows
  \/ \E i \in Io : ThreadReturns(i)
  \/ Terminated

Spec == Init /\ [][Next]_vars

\* Every thread that can take a step takes one. A write completes: the client
\* takes the reply or the connection breaks, and the queue of an io_service is
\* first in, first out, whatever else its thread has to do. Nothing is assumed
\* of what clients send, of signals or of anything throwing.
Fairness ==
  /\ WF_vars(RunPool)
  /\ WF_vars(StopPool)
  /\ WF_vars(JoinAndDestroy)
  /\ WF_vars(ResetConnection)
  /\ \A i \in Io : WF_vars(ThreadReturns(i))
  /\ \A c \in Conn : WF_vars(HandleRequest(c))
  /\ \A c \in Conn : SF_vars(HandleWrite(c))

FairSpec == Spec /\ Fairness

-----------------------------------------------------------------------------
(* Safety.                                                                  *)

Created == 1 .. new_connection_

TypeOK ==
  /\ next_io_service_ \in Io
  /\ next_map_service_ \in Maps
  /\ thread \in [Io -> {"none", "running", "returned", "threw"}]
  /\ running \in [Io -> Handler \cup {Idle}]
  /\ spawned \in 0 .. PoolSize
  /\ joined \in 0 .. PoolSize
  /\ stopped \in [Io -> BOOLEAN]
  /\ stop_next \in 0 .. PoolSize
  /\ aborted \in BOOLEAN
  /\ new_connection_ \in Conn
  /\ acceptor \in {"accepting", "resetting", "closed"}
  /\ conn_io \in [Conn -> Io]
  /\ conn_map \in [Conn -> Maps]
  /\ conn_op \in [Conn -> OpState]
  /\ conn_pc \in [Conn -> PcState]
  /\ map_ \in [Maps -> Settings]
  /\ r_srs \in [Conn -> Conn \cup {0}]
  /\ main_pc \in {"sigwait", "stopping", "destroyed"}

\* Two cursors of the pool are advanced independently, get_io_service being
\* called once more than get_map_service (for the acceptor). Yet whatever the
\* pool's size a map is only ever given to connections of one io_service, so
\* that one thread alone uses it, without a lock.
MapConfined ==
  Build = MapPerIo =>
    \A c, d \in Created : conn_map[c] = conn_map[d] => conn_io[c] = conn_io[d]

\* What c's renderer sees: the settings of its map, or of its mapnik::request.
View(c) ==
  IF Build = MapRequest
  THEN [srs |-> r_srs[c], layers |-> map_[conn_map[c]].layers, size |-> c, extent |-> c]
  ELSE map_[conn_map[c]]

\* As long as a renderer reads the map, everything it reads was set for its
\* own request: no other request's srs, layers, size or extent gets in
\* between the four calls and the end of the rendering.
RenderIsolation ==
  \A c \in Conn : conn_pc[c] = "render" =>
    View(c) = [srs |-> c, layers |-> c, size |-> c, extent |-> c]

\* While a handler uses a connection's buffer_, request_ and reply_, no
\* asynchronous operation of the connection is outstanding that could touch
\* them or complete a second time.
HandlerOwnsConnection ==
  \A c \in Conn : conn_pc[c] # "idle" => conn_op[c] = "none"

\* The socket handed to async_accept is one that no client has been given,
\* although the connection before it may already be running on its thread.
AcceptsIntoFreshSocket ==
  acceptor = "accepting" =>
    /\ conn_op[new_connection_] = "none"
    /\ conn_pc[new_connection_] = "idle"

ConnectionsOn(i) == {c \in Created : conn_io[c] = i}

\* The round robin spreads the connections evenly over the io_services.
RoundRobinBalanced ==
  \A i, j \in Io : Cardinality(ConnectionsOn(i)) <= Cardinality(ConnectionsOn(j)) + 1

\* The io_services that have had one connection more than the acceptor's own:
\* all before the cursor, or none when it is past the acceptor's again.
Ahead ==
  IF next_io_service_ = AcceptorIo THEN 1 .. PoolSize - 1 ELSE 1 .. next_io_service_ - 1

LoadFollowsCursor ==
  \A i \in Io :
    Cardinality(ConnectionsOn(i)) =
      Cardinality(ConnectionsOn(AcceptorIo)) + (IF i \in Ahead THEN 1 ELSE 0)

\* A thread returns from run() only after stop(), however idle its
\* io_service is before the first connection is placed on it.
RunsUntilStopped == \A i \in Io : thread[i] = "returned" => stopped[i]

\* The server's members are destroyed only when no thread is left that could
\* be inside a handler using them, even when the signal comes before run()
\* has created its threads.
DestroyedWhenQuiet ==
  main_pc = "destroyed" =>
    /\ \A i \in Io : thread[i] = "returned" /\ running[i] = Idle
    /\ \A c \in Conn : conn_pc[c] = "idle"

\* io_service_pool.cpp:61 says of the work objects: "so that their run()
\* functions will not exit until they are explicitly stopped".
RunExitsOnlyWhenStopped ==
  \A i \in Io : thread[i] \in {"returned", "threw"} => stopped[i]

-----------------------------------------------------------------------------
(* The inductive invariant behind the properties above (see ServerProofs).  *)

\* Threads are spawned, return and are joined in order, and only a thread in
\* run() is inside a handler.
ThreadsInOrder ==
  /\ \A i \in Io : running[i] # Idle /\ ~aborted => thread[i] = "running"
  /\ joined > 0 => spawned = PoolSize
  /\ ~aborted => \A i \in Io : i < joined => thread[i] = "returned"
  /\ main_pc = "destroyed" => joined = PoolSize /\ ~aborted

\* Both cursors move together, one place apart, in the default build.
CursorsInStep ==
  Build = MapPerIo =>
    /\ next_io_service_ = Advance(next_map_service_)
    /\ \A c \in Created : conn_io[c] = Advance(conn_map[c])

\* A connection is fresh until its client is accepted.
FreshUntilAccepted ==
  /\ acceptor = "resetting" => new_connection_ < MaxConn
  /\ \A c \in Conn :
       c > new_connection_ \/ (c = new_connection_ /\ acceptor # "resetting") =>
         conn_op[c] = "none" /\ conn_pc[c] = "idle"

\* A request is handled on the thread of its connection's io_service, a new
\* client on that of the acceptor's.
HandledOnOwnThread ==
  /\ \A c \in Conn : conn_pc[c] # "idle" => running[conn_io[c]] = c
  /\ acceptor = "resetting" => running[AcceptorIo] = AcceptHandler

\* One thread uses each map, by confinement or for want of another.
OneThreadPerMap == Build = MapPerIo \/ PoolSize = 1

\* What a request has set so far is still set.
SettingsStay ==
  OneThreadPerMap => \A c \in Conn :
    LET m == map_[conn_map[c]]
    IN  /\ conn_pc[c] \in {"layers", "resize", "zoom", "render"} => m.srs = c
        /\ conn_pc[c] \in {"resize", "zoom", "render"} => m.layers = c
        /\ conn_pc[c] \in {"zoom", "render"} => m.size = c
        /\ conn_pc[c] = "render" =>
             IF Build = MapRequest THEN r_srs[c] = c ELSE m.extent = c

IInv ==
  /\ TypeOK
  /\ ThreadsInOrder
  /\ CursorsInStep
  /\ FreshUntilAccepted
  /\ HandledOnOwnThread
  /\ HandlerOwnsConnection
  /\ RunsUntilStopped
  /\ SettingsStay

-----------------------------------------------------------------------------
(* Refinement: without any lock the server implements exclusive leases.     *)

Holders == [m \in Maps |-> {c \in Conn : conn_pc[c] # "idle" /\ conn_map[c] = m}]

Lease == INSTANCE MapLease WITH Map <- Maps, Request <- Conn, holders <- Holders

\* From a request's first call on its map to its last, no other request is
\* using that map.
LeaseSpec == Lease!LeaseSpec

Phase ==
  [c \in Conn |->
     IF c > new_connection_ \/ (c = new_connection_ /\ acceptor # "resetting") THEN "new"
     ELSE IF conn_pc[c] # "idle" THEN "busy"
     ELSE IF conn_op[c] = "none" THEN "gone"
     ELSE conn_op[c]]

Life == INSTANCE ConnectionLife WITH phase <- Phase

\* On any number of threads, with clients accepted, refused and dropped by the
\* shutdown in between, every connection object serves one client once: it is
\* started once, replies once, and is never used again.
LifeSpec == Life!LifeSpec

-----------------------------------------------------------------------------
(* Liveness.                                                                *)

\* A signal ends the process: stop() and the two levels of join() cannot hang,
\* whatever the threads were doing and however many they were.
ShutdownCompletes == main_pc = "stopping" ~> (main_pc = "destroyed" \/ aborted)

\* A request that starts rendering is written back and its connection let go,
\* unless the server is stopped or the process dies.
RequestCompletes ==
  \A c \in Conn :
    conn_pc[c] # "idle" ~>
      \/ conn_pc[c] = "idle" /\ conn_op[c] = "none"
      \/ stopped[conn_io[c]]
      \/ aborted

=============================================================================
