---------------------------- MODULE ServerProofs ----------------------------
(***************************************************************************)
(* Proofs about module Server, for every pool size, any number of          *)
(* connections and each of the three builds. Everything follows from the   *)
(* inductive invariant IInv: one lemma per conjunct says that a step       *)
(* preserves it, with one proof step per action that can disturb it.       *)
(***************************************************************************)
EXTENDS Server, FiniteSetTheorems, TLAPS

USE DEF Conn

-----------------------------------------------------------------------------
(* The cursors.                                                             *)

\* A cursor of the pool never leaves the vector it indexes.
LEMMA AdvanceInIo == \A i \in Io : Advance(i) \in Io
BY PoolSizeAssumption DEF Io, Advance

\* The first index exists: the pool is not empty.
LEMMA ZeroInIo == 0 \in Io
BY PoolSizeAssumption DEF Io

\* Every index of a map is an index of an io_service, as the two vectors have
\* the same size or there is one shared map.
LEMMA MapsSubIo == Maps \subseteq Io /\ 0 \in Maps
BY ZeroInIo DEF Maps

-----------------------------------------------------------------------------
(* The initial state.                                                       *)

\* The invariant holds when the constructor has returned.
LEMMA InitIInv == Init => IInv
<1> SUFFICES ASSUME Init PROVE IInv
  OBVIOUS
<1>1. TypeOK
  <2>1. next_io_service_ \in Io /\ next_map_service_ \in Maps
    BY AdvanceInIo, ZeroInIo DEF Init, AcceptorIo, Maps
  <2>2. conn_io \in [Conn -> Io] /\ conn_map \in [Conn -> Maps]
    BY AdvanceInIo, ZeroInIo, MapsSubIo DEF Init, AcceptorIo
  <2>3. map_ \in [Maps -> Settings] /\ r_srs \in [Conn -> Conn \cup {0}]
    BY DEF Init, NoSettings, Settings
  <2>4. new_connection_ \in Conn
    BY ServerAssumption DEF Init
  <2>5. thread \in [Io -> {"none", "running", "returned", "threw"}]
    BY DEF Init
  <2>6. running \in [Io -> Handler \cup {Idle}] /\ stopped \in [Io -> BOOLEAN]
    BY DEF Init
  <2>7. spawned \in 0 .. PoolSize /\ joined \in 0 .. PoolSize /\ stop_next \in 0 .. PoolSize
    BY PoolSizeAssumption DEF Init
  <2>8. conn_op \in [Conn -> OpState] /\ conn_pc \in [Conn -> PcState]
    BY DEF Init, OpState, PcState
  <2> QED
    BY <2>1, <2>2, <2>3, <2>4, <2>5, <2>6, <2>7, <2>8 DEF Init, TypeOK
<1>2. ThreadsInOrder
  BY PoolSizeAssumption DEF Init, ThreadsInOrder, Io
<1>3. CursorsInStep
  BY ServerAssumption DEF Init, CursorsInStep, AcceptorIo, Created
<1>4. FreshUntilAccepted /\ HandledOnOwnThread /\ HandlerOwnsConnection
  BY DEF Init, FreshUntilAccepted, HandledOnOwnThread, HandlerOwnsConnection
<1>5. RunsUntilStopped /\ SettingsStay
  BY DEF Init, RunsUntilStopped, SettingsStay
<1> QED BY <1>1, <1>2, <1>3, <1>4, <1>5 DEF IInv

-----------------------------------------------------------------------------
(* Type correctness of a step.                                              *)

\* Every step keeps the types, and with them the cursors in their vectors.
LEMMA TypeOKStep == ASSUME IInv, [Next]_vars PROVE TypeOK'
<1> USE DEF TypeOK, Handler, OpState, PcState
<1>0. TypeOK /\ FreshUntilAccepted
  BY DEF IInv
<1>1. CASE HandleAccept
  BY <1>0, <1>1, ZeroInIo
     DEF HandleAccept, Begin, UNCHANGED_running, AcceptorIo, AcceptHandler
<1>2. CASE HandleAcceptError
  BY <1>0, <1>2 DEF HandleAcceptError, RunToEnd, UNCHANGED_pool, pool_vars, conn_vars
<1>3. CASE ResetConnection
  <2>1. new_connection_ + 1 \in Conn
    BY <1>0, <1>3, ServerAssumption DEF ResetConnection, FreshUntilAccepted
  <2>2. Advance(next_io_service_) \in Io
    BY <1>0, AdvanceInIo
  <2>3. Build = MapPerIo => Advance(next_map_service_) \in Maps
    BY <1>0, AdvanceInIo DEF Maps
  <2>4. next_map_service_' \in Maps /\ conn_map' \in [Conn -> Maps]
    BY <1>0, <1>3, <2>1, <2>3 DEF ResetConnection, GetMapService
  <2> QED
    BY <1>0, <1>3, <2>1, <2>2, <2>4 DEF ResetConnection, GetIoService
<1>4. ASSUME NEW c \in Conn, HandleRead(c) PROVE TypeOK'
  BY <1>0, <1>4
     DEF HandleRead, HandleReadError, HandleReadMore, HandleReadReply,
         HandleReadRequest, RunToEnd, Begin, UNCHANGED_pool, UNCHANGED_running,
         pool_vars, server_vars, conn_vars
<1>5. ASSUME NEW c \in Conn, HandleRequest(c) PROVE TypeOK'
  <2> USE DEF Advances, Inside, UNCHANGED_pool, pool_vars
  <2>0. conn_map[c] \in Maps
    BY <1>0
  <2>1. CASE SetSrs(c)
    BY <1>0, <2>0, <2>1, ZenonT(30) DEF SetSrs, Settings
  <2>2. CASE SetActiveLayers(c)
    BY <1>0, <2>0, <2>2, ZenonT(30) DEF SetActiveLayers, Settings
  <2>3. CASE Resize(c)
    BY <1>0, <2>0, <2>3, ZenonT(30) DEF Resize, Settings
  <2>4. CASE ZoomToBox(c)
    <3>1. map_' \in [Maps -> Settings]
      <4>1. CASE Build = MapRequest
        BY <1>0, <2>4, <4>1 DEF ZoomToBox
      <4>2. CASE Build # MapRequest
        <5>1. map_' = [map_ EXCEPT ![conn_map[c]].extent = c]
          BY <2>4, <4>2 DEF ZoomToBox
        <5> QED BY <1>0, <2>0, <5>1, ZenonT(30) DEF Settings
      <4> QED BY <4>1, <4>2
    <3>2. r_srs' \in [Conn -> Conn \cup {0}]
      <4>1. map_[conn_map[c]].srs \in Conn \cup {0}
        BY <1>0, <2>0 DEF Settings
      <4> QED BY <1>0, <2>4, <4>1 DEF ZoomToBox
    <3> QED BY <1>0, <2>4, <3>1, <3>2 DEF ZoomToBox
  <2>5. CASE Render(c)
    BY <1>0, <2>5 DEF Render
  <2>6. CASE WriteImage(c)
    BY <1>0, <2>6 DEF WriteImage, End, UNCHANGED_running
  <2> QED BY <1>5, <2>1, <2>2, <2>3, <2>4, <2>5, <2>6 DEF HandleRequest
<1>6. ASSUME NEW c \in Conn, RenderThrows(c) PROVE TypeOK'
  BY <1>0, <1>6 DEF RenderThrows, RunThrows, server_vars, conn_vars
<1>7. ASSUME NEW c \in Conn, HandleWrite(c) PROVE TypeOK'
  BY <1>0, <1>7 DEF HandleWrite, RunToEnd, UNCHANGED_pool, pool_vars
<1>8. CASE Signal
  BY <1>0, <1>8 DEF Signal, pool_vars, conn_vars
<1>9. CASE StopPool
  <2>1. stop_next' \in 0 .. PoolSize
    BY <1>0, <1>9, PoolSizeAssumption DEF StopPool, StopNext
  <2>2. stopped' \in [Io -> BOOLEAN]
    BY <1>0, <1>9, Zenon DEF StopPool, StopNext
  <2> QED
    BY <1>0, <1>9, <2>1, <2>2 DEF StopPool, StopNext, server_vars, conn_vars
<1>10. CASE JoinAndDestroy
  BY <1>0, <1>10 DEF JoinAndDestroy, pool_vars
<1>11. CASE RunPool
  <2>1. CASE SpawnThread /\ UNCHANGED server_vars
    <3>1. spawned' \in 0 .. PoolSize
      BY <1>0, <2>1, PoolSizeAssumption DEF SpawnThread
    <3>2. thread' \in [Io -> {"none", "running", "returned", "threw"}]
      BY <1>0, <2>1 DEF SpawnThread
    <3> QED
      BY <1>0, <2>1, <3>1, <3>2 DEF SpawnThread, server_vars, conn_vars
  <2>2. CASE JoinThread /\ UNCHANGED server_vars
    BY <1>0, <2>2, PoolSizeAssumption DEF JoinThread, server_vars, conn_vars
  <2> QED BY <1>11, <2>1, <2>2 DEF RunPool
<1>12. ASSUME NEW i \in Io, ThreadReturns(i) PROVE TypeOK'
  BY <1>0, <1>12 DEF ThreadReturns, RunReturns, server_vars, conn_vars
<1>13. CASE RunPoolThrows
  BY <1>0, <1>13 DEF RunPoolThrows, SpawnThrows, server_vars, conn_vars
<1>14. CASE UNCHANGED vars
  BY <1>0, <1>14 DEF vars, pool_vars, server_vars, conn_vars
<1> QED
  BY <1>1, <1>2, <1>3, <1>4, <1>5, <1>6, <1>7, <1>8, <1>9, <1>10, <1>11,
     <1>12, <1>13, <1>14
     DEF Next, Terminated

-----------------------------------------------------------------------------
(* The other conjuncts.                                                     *)

\* Handlers run on running threads only, and run() joins in order only threads
\* that have returned: every step keeps this.
LEMMA ThreadsInOrderStep == ASSUME IInv, [Next]_vars PROVE ThreadsInOrder'
<1> USE DEF ThreadsInOrder
<1>0. TypeOK /\ ThreadsInOrder /\ HandledOnOwnThread
  BY DEF IInv
<1>a. ASSUME UNCHANGED <<running, thread, aborted, joined, spawned, main_pc>>
      PROVE  ThreadsInOrder'
  BY <1>0, <1>a
<1>1. CASE HandleAccept
  BY <1>0, <1>1 DEF HandleAccept, Begin, CanRun, UNCHANGED_running, TypeOK
<1>2. CASE HandleAcceptError
  BY <1>a, <1>2 DEF HandleAcceptError, RunToEnd, UNCHANGED_pool, pool_vars
<1>3. CASE ResetConnection
  BY <1>0, <1>3 DEF ResetConnection, TypeOK
<1>4. ASSUME NEW c \in Conn, HandleRead(c) PROVE ThreadsInOrder'
  <2>1. CASE HandleReadRequest(c)
    BY <1>0, <2>1 DEF HandleReadRequest, Begin, CanRun, UNCHANGED_running, TypeOK
  <2>2. CASE HandleReadError(c) \/ HandleReadMore(c) \/ HandleReadReply(c)
    BY <1>a, <2>2 DEF HandleReadError, HandleReadMore, HandleReadReply, RunToEnd,
                      UNCHANGED_pool, pool_vars, server_vars
  <2> QED BY <1>4, <2>1, <2>2 DEF HandleRead
<1>5. ASSUME NEW c \in Conn, HandleRequest(c) PROVE ThreadsInOrder'
  <2>1. CASE WriteImage(c)
    BY <1>0, <2>1 DEF WriteImage, End, UNCHANGED_running, TypeOK
  <2>2. CASE \E from, to \in PcState : Advances(c, from, to)
    BY <1>a, <2>2 DEF Advances, Inside, UNCHANGED_pool, pool_vars
  <2> QED
    BY <1>5, <2>1, <2>2 DEF HandleRequest, SetSrs, SetActiveLayers, Resize,
                            ZoomToBox, Render, PcState
<1>6. ASSUME NEW c \in Conn, RenderThrows(c) PROVE ThreadsInOrder'
  <2>1. running[conn_io[c]] # Idle /\ conn_io[c] \in Io
    BY <1>0, <1>6 DEF RenderThrows, TypeOK, Idle
  <2>2. main_pc # "destroyed"
    BY <1>0, <1>6, <2>1, PoolSizeAssumption DEF RenderThrows, RunThrows, Io
  <2> QED
    BY <1>0, <1>6, <2>2 DEF RenderThrows, RunThrows, server_vars
<1>7. ASSUME NEW c \in Conn, HandleWrite(c) PROVE ThreadsInOrder'
  BY <1>a, <1>7 DEF HandleWrite, RunToEnd, UNCHANGED_pool, pool_vars
<1>8. CASE Signal
  BY <1>0, <1>8 DEF Signal, pool_vars
<1>9. CASE StopPool
  BY <1>a, <1>9 DEF StopPool, StopNext, server_vars
<1>10. CASE JoinAndDestroy
  BY <1>0, <1>10 DEF JoinAndDestroy, RunCompleted, pool_vars
<1>11. CASE RunPool
  <2>1. CASE SpawnThread /\ UNCHANGED server_vars
    <3>1. joined = 0 /\ spawned \in Io
      BY <1>0, <2>1, PoolSizeAssumption DEF SpawnThread, TypeOK, Io
    <3> QED
      BY <1>0, <2>1, <3>1, PoolSizeAssumption
         DEF SpawnThread, server_vars, TypeOK, Io
  <2>2. CASE JoinThread /\ UNCHANGED server_vars
    BY <1>0, <2>2, PoolSizeAssumption DEF JoinThread, server_vars, TypeOK, Io
  <2> QED BY <1>11, <2>1, <2>2 DEF RunPool
<1>12. ASSUME NEW i \in Io, ThreadReturns(i) PROVE ThreadsInOrder'
  BY <1>0, <1>12 DEF ThreadReturns, RunReturns, server_vars, TypeOK
<1>13. CASE RunPoolThrows
  <2>1. main_pc # "destroyed"
    BY <1>0, <1>13, PoolSizeAssumption DEF RunPoolThrows, SpawnThrows, TypeOK
  <2> QED
    BY <1>0, <1>13, <2>1 DEF RunPoolThrows, SpawnThrows, server_vars
<1>14. CASE UNCHANGED vars
  BY <1>a, <1>14 DEF vars, pool_vars, server_vars
<1> QED
  BY <1>1, <1>2, <1>3, <1>4, <1>5, <1>6, <1>7, <1>8, <1>9, <1>10, <1>11,
     <1>12, <1>13, <1>14
     DEF Next, Terminated

\* Only the creation of a connection moves the cursors.
LEMMA CursorsInStepStep == ASSUME IInv, [Next]_vars PROVE CursorsInStep'
<1> USE DEF CursorsInStep
<1>0. TypeOK /\ CursorsInStep /\ FreshUntilAccepted
  BY DEF IInv
<1>a. ASSUME UNCHANGED <<next_io_service_, next_map_service_, new_connection_,
                         conn_io, conn_map>>
      PROVE  CursorsInStep'
  BY <1>0, <1>a DEF Created
<1>1. CASE HandleAccept
  BY <1>a, <1>1 DEF HandleAccept, Begin, UNCHANGED_running
<1>2. CASE HandleAcceptError
  BY <1>a, <1>2 DEF HandleAcceptError, RunToEnd, UNCHANGED_pool, pool_vars, conn_vars
<1>3. CASE ResetConnection
  <2> SUFFICES ASSUME Build = MapPerIo PROVE CursorsInStep'
    OBVIOUS
  <2>1. new_connection_ + 1 \in Conn /\ new_connection_' = new_connection_ + 1
    BY <1>0, <1>3, ServerAssumption DEF ResetConnection, FreshUntilAccepted, TypeOK
  <2>2. /\ conn_io' = [conn_io EXCEPT ![new_connection_ + 1] = next_io_service_]
        /\ conn_map' = [conn_map EXCEPT ![new_connection_ + 1] = next_map_service_]
        /\ next_io_service_' = Advance(next_io_service_)
        /\ next_map_service_' = Advance(next_map_service_)
    BY <1>3 DEF ResetConnection, GetIoService, GetMapService
  <2>3. ASSUME NEW c \in Created' PROVE conn_io'[c] = Advance(conn_map'[c])
    <3>1. c \in Conn /\ (c = new_connection_ + 1 \/ c \in Created)
      BY <1>0, <2>1, ServerAssumption DEF Created, TypeOK
    <3>2. CASE c = new_connection_ + 1
      BY <1>0, <2>1, <2>2, <3>2 DEF TypeOK
    <3>3. CASE c \in Created /\ c # new_connection_ + 1
      BY <1>0, <2>2, <3>1, <3>3 DEF TypeOK
    <3> QED BY <3>1, <3>2, <3>3
  <2> QED BY <1>0, <2>2, <2>3
<1>4. ASSUME NEW c \in Conn, HandleRead(c) PROVE CursorsInStep'
  BY <1>a, <1>4
     DEF HandleRead, HandleReadError, HandleReadMore, HandleReadReply,
         HandleReadRequest, RunToEnd, Begin, UNCHANGED_pool, UNCHANGED_running,
         pool_vars, server_vars, conn_vars
<1>5. ASSUME NEW c \in Conn, HandleRequest(c) PROVE CursorsInStep'
  BY <1>a, <1>5
     DEF HandleRequest, SetSrs, SetActiveLayers, Resize, ZoomToBox, Render,
         WriteImage, Advances, Inside, End, UNCHANGED_pool, UNCHANGED_running,
         pool_vars
<1>6. ASSUME NEW c \in Conn, RenderThrows(c) PROVE CursorsInStep'
  BY <1>a, <1>6 DEF RenderThrows, RunThrows, server_vars, conn_vars
<1>7. ASSUME NEW c \in Conn, HandleWrite(c) PROVE CursorsInStep'
  BY <1>a, <1>7 DEF HandleWrite, RunToEnd, UNCHANGED_pool, pool_vars
<1>8. CASE Signal \/ JoinAndDestroy
  BY <1>a, <1>8 DEF Signal, JoinAndDestroy, pool_vars, conn_vars
<1>9. CASE StopPool
  BY <1>a, <1>9 DEF StopPool, StopNext, server_vars, conn_vars
<1>10. CASE RunPool \/ RunPoolThrows
  BY <1>a, <1>10
     DEF RunPool, SpawnThread, JoinThread, RunPoolThrows, SpawnThrows, server_vars,
         conn_vars
<1>11. ASSUME NEW i \in Io, ThreadReturns(i) PROVE CursorsInStep'
  BY <1>a, <1>11 DEF ThreadReturns, RunReturns, server_vars, conn_vars
<1>12. CASE UNCHANGED vars
  BY <1>a, <1>12 DEF vars, pool_vars, server_vars, conn_vars
<1> QED
  BY <1>1, <1>2, <1>3, <1>4, <1>5, <1>6, <1>7, <1>8, <1>9, <1>10, <1>11,
     <1>12
     DEF Next, Terminated

\* When run() has joined its threads none of them is inside a handler any more,
\* and no request is being handled.
LEMMA JoinedIsQuiet ==
  ASSUME IInv, RunCompleted, ~aborted
  PROVE  /\ \A i \in Io : thread[i] = "returned" /\ running[i] = Idle
         /\ \A c \in Conn : conn_pc[c] = "idle"
<1>1. \A i \in Io : i < joined
  BY PoolSizeAssumption DEF RunCompleted, Io
<1>2. \A i \in Io : thread[i] = "returned" /\ running[i] = Idle
  BY <1>1 DEF IInv, ThreadsInOrder
<1>3. \A c \in Conn : conn_pc[c] = "idle"
  BY <1>2 DEF IInv, TypeOK, HandledOnOwnThread, Idle
<1> QED BY <1>2, <1>3

\* A connection is started only after its client was accepted, and the one
\* created next is fresh.
LEMMA FreshStep == ASSUME IInv, [Next]_vars PROVE FreshUntilAccepted'
<1> USE DEF FreshUntilAccepted
<1>0. TypeOK /\ FreshUntilAccepted
  BY DEF IInv
<1>a. ASSUME UNCHANGED <<new_connection_, acceptor, conn_op, conn_pc>>
      PROVE  FreshUntilAccepted'
  BY <1>0, <1>a
<1>1. CASE HandleAccept
  BY <1>0, <1>1, ServerAssumption DEF HandleAccept, TypeOK
<1>2. CASE HandleAcceptError
  BY <1>0, <1>2 DEF HandleAcceptError, conn_vars
<1>3. CASE ResetConnection
  BY <1>0, <1>3, ServerAssumption DEF ResetConnection, TypeOK
<1>4. ASSUME NEW c \in Conn, HandleRead(c) PROVE FreshUntilAccepted'
  <2>1. conn_op[c] = "read"
    BY <1>4 DEF HandleRead, HandleReadError, HandleReadMore, HandleReadReply,
                HandleReadRequest, ReadCompletes
  <2>2. /\ UNCHANGED <<new_connection_, acceptor>>
        /\ \A d \in Conn : d # c => conn_op'[d] = conn_op[d] /\ conn_pc'[d] = conn_pc[d]
    BY <1>0, <1>4
       DEF HandleRead, HandleReadError, HandleReadMore, HandleReadReply,
           HandleReadRequest, TypeOK, server_vars, conn_vars
  <2> QED BY <1>0, <2>1, <2>2
<1>5. ASSUME NEW c \in Conn, HandleRequest(c) PROVE FreshUntilAccepted'
  <2>1. conn_pc[c] # "idle"
    BY <1>5 DEF HandleRequest, SetSrs, SetActiveLayers, Resize, ZoomToBox, Render,
                WriteImage, Advances
  <2>2. /\ UNCHANGED <<new_connection_, acceptor>>
        /\ \A d \in Conn : d # c => conn_op'[d] = conn_op[d] /\ conn_pc'[d] = conn_pc[d]
    BY <1>0, <1>5
       DEF HandleRequest, SetSrs, SetActiveLayers, Resize, ZoomToBox, Render,
           WriteImage, Advances, TypeOK
  <2> QED BY <1>0, <2>1, <2>2
<1>6. ASSUME NEW c \in Conn, RenderThrows(c) PROVE FreshUntilAccepted'
  BY <1>a, <1>6 DEF RenderThrows, server_vars, conn_vars
<1>7. ASSUME NEW c \in Conn, HandleWrite(c) PROVE FreshUntilAccepted'
  BY <1>0, <1>7 DEF HandleWrite, TypeOK
<1>8. CASE Signal
  BY <1>a, <1>8 DEF Signal, conn_vars
<1>9. CASE JoinAndDestroy
  BY <1>0, <1>9, JoinedIsQuiet DEF JoinAndDestroy
<1>10. CASE StopPool \/ RunPool \/ RunPoolThrows
  BY <1>a, <1>10 DEF StopPool, RunPool, RunPoolThrows, server_vars, conn_vars
<1>11. ASSUME NEW i \in Io, ThreadReturns(i) PROVE FreshUntilAccepted'
  BY <1>a, <1>11 DEF ThreadReturns, server_vars, conn_vars
<1>12. CASE UNCHANGED vars
  BY <1>a, <1>12 DEF vars, server_vars, conn_vars
<1> QED
  BY <1>1, <1>2, <1>3, <1>4, <1>5, <1>6, <1>7, <1>8, <1>9, <1>10, <1>11,
     <1>12
     DEF Next, Terminated

\* handle_request stays on the thread of its connection's io_service.
LEMMA HandledOnOwnThreadStep == ASSUME IInv, [Next]_vars PROVE HandledOnOwnThread'
<1> USE DEF HandledOnOwnThread
<1>0. TypeOK /\ FreshUntilAccepted /\ HandledOnOwnThread
  BY DEF IInv
<1>a. ASSUME UNCHANGED <<running, conn_io, conn_pc, acceptor>> PROVE HandledOnOwnThread'
  BY <1>0, <1>a
<1>1. CASE HandleAccept
  <2>1. running[AcceptorIo] = Idle /\ running' = [running EXCEPT ![AcceptorIo] = AcceptHandler]
    BY <1>1 DEF HandleAccept, Begin, CanRun
  <2>2. UNCHANGED <<conn_io, conn_pc>>
    BY <1>1 DEF HandleAccept
  <2> QED BY <1>0, <2>1, <2>2, ZeroInIo DEF TypeOK, Idle, AcceptorIo
<1>2. CASE HandleAcceptError
  BY <1>0, <1>2 DEF HandleAcceptError, RunToEnd, UNCHANGED_pool, pool_vars, conn_vars
<1>3. CASE ResetConnection
  <2>1. /\ running[AcceptorIo] = AcceptHandler
        /\ running' = [running EXCEPT ![AcceptorIo] = Idle]
        /\ conn_io' = [conn_io EXCEPT ![new_connection_ + 1] = next_io_service_]
        /\ acceptor' = "accepting"
        /\ UNCHANGED conn_pc
    BY <1>3 DEF ResetConnection
  <2>2. new_connection_ + 1 \in Conn => conn_pc[new_connection_ + 1] = "idle"
    BY <1>0, ServerAssumption DEF TypeOK, FreshUntilAccepted
  <2> QED BY <1>0, <2>1, <2>2 DEF TypeOK, AcceptHandler
<1>4. ASSUME NEW c \in Conn, HandleRead(c) PROVE HandledOnOwnThread'
  <2>1. CASE HandleReadRequest(c)
    <3>1. /\ running[conn_io[c]] = Idle
          /\ running' = [running EXCEPT ![conn_io[c]] = c]
          /\ conn_pc' = [conn_pc EXCEPT ![c] = "set_srs"]
          /\ UNCHANGED <<conn_io, acceptor>>
      BY <2>1 DEF HandleReadRequest, Begin, CanRun
    <3> QED BY <1>0, <3>1 DEF TypeOK, Idle, AcceptHandler
  <2>2. CASE HandleReadError(c) \/ HandleReadMore(c) \/ HandleReadReply(c)
    BY <1>a, <2>2 DEF HandleReadError, HandleReadMore, HandleReadReply, RunToEnd,
                      UNCHANGED_pool, pool_vars, server_vars, conn_vars
  <2> QED BY <1>4, <2>1, <2>2 DEF HandleRead
<1>5. ASSUME NEW c \in Conn, HandleRequest(c) PROVE HandledOnOwnThread'
  <2>1. CASE WriteImage(c)
    BY <1>0, <2>1 DEF WriteImage, End, TypeOK, AcceptHandler
  <2>2. CASE \E from, to \in PcState : from # "idle" /\ Advances(c, from, to)
    BY <1>0, <2>2 DEF Advances, Inside, UNCHANGED_pool, pool_vars, TypeOK
  <2> QED
    BY <1>5, <2>1, <2>2 DEF HandleRequest, SetSrs, SetActiveLayers, Resize,
                            ZoomToBox, Render, PcState
<1>6. ASSUME NEW c \in Conn, RenderThrows(c) PROVE HandledOnOwnThread'
  BY <1>a, <1>6 DEF RenderThrows, RunThrows, server_vars, conn_vars
<1>7. ASSUME NEW c \in Conn, HandleWrite(c) PROVE HandledOnOwnThread'
  BY <1>a, <1>7 DEF HandleWrite, RunToEnd, UNCHANGED_pool, pool_vars
<1>8. CASE Signal \/ JoinAndDestroy
  BY <1>0, <1>8 DEF Signal, JoinAndDestroy, pool_vars, conn_vars
<1>9. CASE StopPool
  BY <1>a, <1>9 DEF StopPool, StopNext, server_vars, conn_vars
<1>10. CASE RunPool \/ RunPoolThrows
  BY <1>a, <1>10
     DEF RunPool, SpawnThread, JoinThread, RunPoolThrows, SpawnThrows, server_vars,
         conn_vars
<1>11. ASSUME NEW i \in Io, ThreadReturns(i) PROVE HandledOnOwnThread'
  BY <1>a, <1>11 DEF ThreadReturns, RunReturns, server_vars, conn_vars
<1>12. CASE UNCHANGED vars
  BY <1>a, <1>12 DEF vars, pool_vars, server_vars, conn_vars
<1> QED
  BY <1>1, <1>2, <1>3, <1>4, <1>5, <1>6, <1>7, <1>8, <1>9, <1>10, <1>11,
     <1>12
     DEF Next, Terminated

\* handle_read starts the next operation at its end, never while it still uses
\* the connection.
LEMMA HandlerOwnsConnectionStep ==
  ASSUME IInv, [Next]_vars PROVE HandlerOwnsConnection'
<1> USE DEF HandlerOwnsConnection
<1>0. TypeOK /\ FreshUntilAccepted /\ HandlerOwnsConnection
  BY DEF IInv
<1>a. ASSUME UNCHANGED <<conn_op, conn_pc>> PROVE HandlerOwnsConnection'
  BY <1>0, <1>a
<1>1. CASE HandleAccept
  BY <1>0, <1>1 DEF HandleAccept, FreshUntilAccepted, TypeOK
<1>2. CASE HandleAcceptError \/ ResetConnection
  BY <1>a, <1>2 DEF HandleAcceptError, ResetConnection, conn_vars
<1>3. ASSUME NEW c \in Conn, HandleRead(c) PROVE HandlerOwnsConnection'
  BY <1>0, <1>3
     DEF HandleRead, HandleReadError, HandleReadMore, HandleReadReply,
         HandleReadRequest, ReadCompletes, TypeOK, server_vars, conn_vars
<1>4. ASSUME NEW c \in Conn, HandleRequest(c) PROVE HandlerOwnsConnection'
  <2>1. CASE WriteImage(c)
    BY <1>0, <2>1 DEF WriteImage, TypeOK
  <2>2. CASE \E from, to \in PcState : from # "idle" /\ Advances(c, from, to)
    BY <1>0, <2>2 DEF Advances, TypeOK
  <2> QED
    BY <1>4, <2>1, <2>2 DEF HandleRequest, SetSrs, SetActiveLayers, Resize,
                            ZoomToBox, Render, PcState
<1>5. ASSUME NEW c \in Conn, RenderThrows(c) PROVE HandlerOwnsConnection'
  BY <1>a, <1>5 DEF RenderThrows, server_vars, conn_vars
<1>6. ASSUME NEW c \in Conn, HandleWrite(c) PROVE HandlerOwnsConnection'
  BY <1>0, <1>6 DEF HandleWrite, TypeOK
<1>7. CASE Signal
  BY <1>a, <1>7 DEF Signal, conn_vars
<1>8. CASE JoinAndDestroy
  BY <1>0, <1>8 DEF JoinAndDestroy
<1>9. CASE StopPool \/ RunPool \/ RunPoolThrows
  BY <1>a, <1>9 DEF StopPool, RunPool, RunPoolThrows, server_vars, conn_vars
<1>10. ASSUME NEW i \in Io, ThreadReturns(i) PROVE HandlerOwnsConnection'
  BY <1>a, <1>10 DEF ThreadReturns, server_vars, conn_vars
<1>11. CASE UNCHANGED vars
  BY <1>a, <1>11 DEF vars, server_vars, conn_vars
<1> QED
  BY <1>1, <1>2, <1>3, <1>4, <1>5, <1>6, <1>7, <1>8, <1>9, <1>10, <1>11
     DEF Next, Terminated

\* A thread leaves run() without an exception only after stop(): its io_service
\* holds work.
LEMMA RunsUntilStoppedStep == ASSUME IInv, [Next]_vars PROVE RunsUntilStopped'
<1> USE DEF RunsUntilStopped
<1>0. TypeOK /\ RunsUntilStopped
  BY DEF IInv
<1>a. ASSUME UNCHANGED <<thread, stopped>> PROVE RunsUntilStopped'
  BY <1>0, <1>a
<1>1. CASE HandleAccept \/ HandleAcceptError \/ ResetConnection
  BY <1>a, <1>1
     DEF HandleAccept, HandleAcceptError, ResetConnection, Begin, RunToEnd,
         UNCHANGED_pool, UNCHANGED_running, pool_vars
<1>2. ASSUME NEW c \in Conn, HandleRead(c) \/ HandleWrite(c) PROVE RunsUntilStopped'
  BY <1>a, <1>2
     DEF HandleRead, HandleReadError, HandleReadMore, HandleReadReply,
         HandleReadRequest, HandleWrite, Begin, RunToEnd, UNCHANGED_pool,
         UNCHANGED_running, pool_vars
<1>3. ASSUME NEW c \in Conn, HandleRequest(c) PROVE RunsUntilStopped'
  BY <1>a, <1>3
     DEF HandleRequest, SetSrs, SetActiveLayers, Resize, ZoomToBox, Render,
         WriteImage, Advances, Inside, End, UNCHANGED_pool, UNCHANGED_running,
         pool_vars
<1>4. ASSUME NEW c \in Conn, RenderThrows(c) PROVE RunsUntilStopped'
  BY <1>0, <1>4 DEF RenderThrows, RunThrows, TypeOK
<1>5. CASE Signal \/ JoinAndDestroy
  BY <1>a, <1>5 DEF Signal, JoinAndDestroy, pool_vars
<1>6. CASE StopPool
  BY <1>0, <1>6 DEF StopPool, StopNext, TypeOK
<1>7. CASE RunPool \/ RunPoolThrows
  BY <1>0, <1>7
     DEF RunPool, SpawnThread, JoinThread, RunPoolThrows, SpawnThrows, TypeOK
<1>8. ASSUME NEW i \in Io, ThreadReturns(i) PROVE RunsUntilStopped'
  BY <1>0, <1>8 DEF ThreadReturns, RunReturns, WorkHeld, TypeOK
<1>9. CASE UNCHANGED vars
  BY <1>a, <1>9 DEF vars, pool_vars
<1> QED
  BY <1>1, <1>2, <1>3, <1>4, <1>5, <1>6, <1>7, <1>8, <1>9 DEF Next, Terminated

-----------------------------------------------------------------------------
(* One request at a time on each map.                                       *)

\* Requests that are on the same map are on the same thread, and a thread is in
\* one handler at a time: this is what stands in for the missing lock.
LEMMA OneRequestPerMap ==
  ASSUME IInv, OneThreadPerMap, NEW c \in Conn, NEW d \in Conn,
         conn_pc[c] # "idle", conn_pc[d] # "idle", conn_map[c] = conn_map[d]
  PROVE  c = d
<1>1. running[conn_io[c]] = c /\ running[conn_io[d]] = d
  BY DEF IInv, HandledOnOwnThread
<1>2. conn_io[c] = conn_io[d]
  <2>1. CASE Build = MapPerIo
    <3>1. c \in Created /\ d \in Created
      BY ServerAssumption DEF IInv, TypeOK, FreshUntilAccepted, Created
    <3> QED BY <2>1, <3>1 DEF IInv, CursorsInStep
  <2>2. CASE PoolSize = 1
    <3>1. Io = {0}
      BY <2>2 DEF Io
    <3>2. conn_io[c] \in Io /\ conn_io[d] \in Io
      BY DEF IInv, TypeOK
    <3> QED BY <3>1, <3>2
  <2> QED BY <2>1, <2>2 DEF OneThreadPerMap
<1> QED BY <1>1, <1>2

\* No step of another request touches what a request has set in its map.
LEMMA SettingsStayStep == ASSUME IInv, [Next]_vars PROVE SettingsStay'
<1> SUFFICES ASSUME OneThreadPerMap PROVE SettingsStay'
  BY DEF SettingsStay, OneThreadPerMap
<1>0. TypeOK /\ FreshUntilAccepted /\ SettingsStay
  BY DEF IInv
<1>a. ASSUME UNCHANGED <<conn_map, conn_pc, map_, r_srs>> PROVE SettingsStay'
  BY <1>0, <1>a DEF SettingsStay, OneThreadPerMap
<1>1. CASE HandleAccept \/ HandleAcceptError
  BY <1>a, <1>1 DEF HandleAccept, HandleAcceptError, conn_vars
<1>2. CASE ResetConnection
  <2>1. /\ UNCHANGED <<conn_pc, map_, r_srs>>
        /\ \A d \in Conn : d # new_connection_ + 1 => conn_map'[d] = conn_map[d]
    BY <1>0, <1>2 DEF ResetConnection, TypeOK
  <2>2. \A d \in Conn : conn_pc[d] # "idle" => d # new_connection_ + 1
    BY <1>0, <1>2, ServerAssumption DEF FreshUntilAccepted, TypeOK
  <2> QED BY <1>0, <2>1, <2>2 DEF SettingsStay, OneThreadPerMap
<1>3. ASSUME NEW c \in Conn, HandleRead(c) PROVE SettingsStay'
  <2>1. CASE HandleReadRequest(c)
    BY <1>0, <2>1 DEF HandleReadRequest, SettingsStay, TypeOK, OneThreadPerMap
  <2>2. CASE HandleReadError(c) \/ HandleReadMore(c) \/ HandleReadReply(c)
    BY <1>a, <2>2 DEF HandleReadError, HandleReadMore, HandleReadReply, server_vars,
                      conn_vars
  <2> QED BY <1>3, <2>1, <2>2 DEF HandleRead
<1>4. ASSUME NEW c \in Conn, HandleRequest(c) PROVE SettingsStay'
  <2>0. conn_pc[c] # "idle" /\ conn_map[c] \in Maps /\ UNCHANGED conn_map
    BY <1>0, <1>4
       DEF HandleRequest, SetSrs, SetActiveLayers, Resize, ZoomToBox, Render,
           WriteImage, Advances, TypeOK
  <2>1. \A d \in Conn : d # c /\ conn_pc[d] # "idle" => conn_map[d] # conn_map[c]
    BY <2>0, OneRequestPerMap
  <2>2. \A d \in Conn : d # c =>
          /\ conn_pc'[d] = conn_pc[d]
          /\ r_srs'[d] = r_srs[d]
          /\ conn_pc[d] # "idle" => map_'[conn_map[d]] = map_[conn_map[d]]
    <3> USE <1>0, <2>0, <2>1 DEF TypeOK, Advances
    <3>1. CASE SetSrs(c)
      BY <3>1 DEF SetSrs
    <3>2. CASE SetActiveLayers(c)
      BY <3>2 DEF SetActiveLayers
    <3>3. CASE Resize(c)
      BY <3>3 DEF Resize
    <3>4. CASE ZoomToBox(c)
      <4>1. CASE Build = MapRequest
        BY <3>4, <4>1 DEF ZoomToBox
      <4>2. CASE Build # MapRequest
        BY <3>4, <4>2 DEF ZoomToBox
      <4> QED BY <4>1, <4>2
    <3>5. CASE Render(c) \/ WriteImage(c)
      BY <3>5 DEF Render, WriteImage
    <3> QED BY <1>4, <3>1, <3>2, <3>3, <3>4, <3>5 DEF HandleRequest
  <2>3. LET m == map_'[conn_map[c]]
        IN  /\ conn_pc'[c] \in {"layers", "resize", "zoom", "render"} => m.srs = c
            /\ conn_pc'[c] \in {"resize", "zoom", "render"} => m.layers = c
            /\ conn_pc'[c] \in {"zoom", "render"} => m.size = c
            /\ conn_pc'[c] = "render" =>
                 IF Build = MapRequest THEN r_srs'[c] = c ELSE m.extent = c
    <3> USE <1>0, <2>0 DEF TypeOK, Advances
    <3>1. CASE SetSrs(c)
      BY <3>1 DEF SetSrs, Settings
    <3>2. CASE SetActiveLayers(c)
      BY <3>2 DEF SetActiveLayers, SettingsStay, OneThreadPerMap, Settings
    <3>3. CASE Resize(c)
      BY <3>3 DEF Resize, SettingsStay, OneThreadPerMap, Settings
    <3>4. CASE ZoomToBox(c)
      <4>1. /\ map_[conn_map[c]].srs = c
            /\ map_[conn_map[c]].layers = c
            /\ map_[conn_map[c]].size = c
        BY <3>4 DEF ZoomToBox, SettingsStay, OneThreadPerMap
      <4>2. CASE Build = MapRequest
        BY <3>4, <4>1, <4>2 DEF ZoomToBox
      <4>3. CASE Build # MapRequest
        <5>1. map_' = [map_ EXCEPT ![conn_map[c]].extent = c]
          BY <3>4, <4>3 DEF ZoomToBox
        <5> QED BY <4>1, <4>3, <5>1 DEF Settings
      <4> QED BY <4>2, <4>3
    <3>5. CASE Render(c) \/ WriteImage(c)
      BY <3>5 DEF Render, WriteImage
    <3> QED BY <1>4, <3>1, <3>2, <3>3, <3>4, <3>5 DEF HandleRequest
  <2> QED BY <1>0, <2>0, <2>2, <2>3 DEF SettingsStay, OneThreadPerMap
<1>5. ASSUME NEW c \in Conn, RenderThrows(c) \/ HandleWrite(c) PROVE SettingsStay'
  BY <1>a, <1>5 DEF RenderThrows, HandleWrite, server_vars, conn_vars
<1>6. CASE Signal \/ JoinAndDestroy
  BY <1>a, <1>6 DEF Signal, JoinAndDestroy, conn_vars
<1>7. CASE StopPool \/ RunPool \/ RunPoolThrows
  BY <1>a, <1>7 DEF StopPool, RunPool, RunPoolThrows, server_vars, conn_vars
<1>8. ASSUME NEW i \in Io, ThreadReturns(i) PROVE SettingsStay'
  BY <1>a, <1>8 DEF ThreadReturns, server_vars, conn_vars
<1>9. CASE UNCHANGED vars
  BY <1>a, <1>9 DEF vars, server_vars, conn_vars
<1> QED
  BY <1>1, <1>2, <1>3, <1>4, <1>5, <1>6, <1>7, <1>8, <1>9 DEF Next, Terminated

-----------------------------------------------------------------------------
(* The theorems.                                                            *)

\* IInv holds in every reachable state.
THEOREM Inductive == Spec => []IInv
<1>1. ASSUME IInv, [Next]_vars PROVE IInv'
  BY <1>1, TypeOKStep, ThreadsInOrderStep, CursorsInStepStep, FreshStep,
     HandledOnOwnThreadStep, HandlerOwnsConnectionStep, RunsUntilStoppedStep,
     SettingsStayStep
     DEF IInv
<1> QED BY InitIInv, <1>1, PTL DEF Spec

\* Type correctness: in particular no cursor ever leaves its vector.
THEOREM TypeCorrect == Spec => []TypeOK
BY Inductive, PTL DEF IInv

\* In the default build a map is used by one thread, for every pool size.
THEOREM MapsAreConfined == Spec => []MapConfined
<1>1. IInv => MapConfined
  BY DEF IInv, CursorsInStep, MapConfined
<1> QED BY Inductive, <1>1, PTL

\* In the default build, and in the others on a single thread, a renderer sees
\* its own request's settings and nothing else.
THEOREM RendersAreIsolated == ASSUME OneThreadPerMap PROVE Spec => []RenderIsolation
<1>1. ASSUME IInv, NEW c \in Conn, conn_pc[c] = "render"
      PROVE  View(c) = [srs |-> c, layers |-> c, size |-> c, extent |-> c]
  <2>1. map_[conn_map[c]] \in Settings
    BY <1>1 DEF IInv, TypeOK
  <2> QED BY <1>1, <2>1 DEF IInv, SettingsStay, View, Settings
<1>2. IInv => RenderIsolation
  BY <1>1 DEF RenderIsolation
<1> QED BY Inductive, <1>2, PTL

\* A handler never shares its connection with an outstanding operation.
THEOREM HandlersOwnConnections == Spec => []HandlerOwnsConnection
BY Inductive, PTL DEF IInv

\* A client is always accepted into a connection no one has used.
THEOREM SocketsAreFresh == Spec => []AcceptsIntoFreshSocket
<1>1. IInv => AcceptsIntoFreshSocket
  BY DEF IInv, TypeOK, FreshUntilAccepted, AcceptsIntoFreshSocket
<1> QED BY Inductive, <1>1, PTL

\* No thread leaves run() before stop(), except by an exception.
THEOREM ThreadsRunUntilStopped == Spec => []RunsUntilStopped
BY Inductive, PTL DEF IInv

\* The server is destroyed only when every thread is out of every handler.
THEOREM DestructionIsQuiet == Spec => []DestroyedWhenQuiet
<1>1. ASSUME IInv, main_pc = "destroyed" PROVE DestroyedWhenQuiet
  <2>1. RunCompleted /\ ~aborted
    BY <1>1, PoolSizeAssumption DEF IInv, ThreadsInOrder, RunCompleted
  <2> QED BY <1>1, <2>1, JoinedIsQuiet DEF DestroyedWhenQuiet
<1>2. IInv => DestroyedWhenQuiet
  BY <1>1 DEF DestroyedWhenQuiet
<1> QED BY Inductive, <1>2, PTL

-----------------------------------------------------------------------------
(* The refinement: the unlocked maps are leased exclusively.                *)

\* A step that begins a request acquires its map, a step that writes the image
\* releases it, and no other step changes who holds what.
LEMMA LeaseStep ==
  ASSUME IInv, OneThreadPerMap, [Next]_vars
  PROVE  [Lease!LeaseNext]_Holders
<1>0. TypeOK /\ FreshUntilAccepted /\ HandledOnOwnThread /\ HandlerOwnsConnection
  BY DEF IInv
<1>a. ASSUME UNCHANGED <<conn_map, conn_pc>> PROVE UNCHANGED Holders
  BY <1>a DEF Holders
<1>1. CASE HandleAccept \/ HandleAcceptError
  BY <1>a, <1>1 DEF HandleAccept, HandleAcceptError, conn_vars
<1>2. CASE ResetConnection
  <2>1. /\ UNCHANGED conn_pc
        /\ \A d \in Conn : d # new_connection_ + 1 => conn_map'[d] = conn_map[d]
    BY <1>0, <1>2 DEF ResetConnection, TypeOK
  <2>2. \A d \in Conn : conn_pc[d] # "idle" => d # new_connection_ + 1
    BY <1>0, <1>2, ServerAssumption DEF FreshUntilAccepted, TypeOK
  <2> QED BY <2>1, <2>2 DEF Holders
<1>3. ASSUME NEW c \in Conn, HandleRead(c) PROVE [Lease!LeaseNext]_Holders
  <2>1. CASE HandleReadRequest(c)
    <3>1. /\ conn_pc[c] = "idle"
          /\ conn_pc' = [conn_pc EXCEPT ![c] = "set_srs"]
          /\ conn_map[c] \in Maps
          /\ UNCHANGED conn_map
      BY <1>0, <2>1 DEF HandleReadRequest, ReadCompletes, HandlerOwnsConnection, TypeOK
    <3>2. running[conn_io[c]] = Idle
      BY <2>1 DEF HandleReadRequest, Begin, CanRun
    <3>3. Holders[conn_map[c]] = {}
      <4> SUFFICES ASSUME NEW d \in Conn, conn_pc[d] # "idle", conn_map[d] = conn_map[c]
                   PROVE  FALSE
        BY <3>1 DEF Holders
      <4>1. conn_io[c] = conn_io[d]
        <5>1. CASE Build = MapPerIo
          <6>1. c \in Created /\ d \in Created
            BY <1>0, <2>1, ServerAssumption
               DEF TypeOK, FreshUntilAccepted, Created, HandleReadRequest,
                   ReadCompletes
          <6> QED BY <5>1, <6>1 DEF IInv, CursorsInStep
        <5>2. CASE PoolSize = 1
          <6>1. Io = {0}
            BY <5>2 DEF Io
          <6> QED BY <1>0, <6>1 DEF TypeOK
        <5> QED BY <5>1, <5>2 DEF OneThreadPerMap
      <4> QED BY <1>0, <3>2, <4>1 DEF HandledOnOwnThread, Idle
    <3>4. \A n \in Maps : c \notin Holders[n]
      BY <3>1 DEF Holders
    <3>5. Holders' = [Holders EXCEPT ![conn_map[c]] = {c}]
      <4>1. \A m \in Maps : Holders'[m] = IF m = conn_map[c] THEN {c} ELSE Holders[m]
        BY <1>0, <3>1, <3>3 DEF Holders, TypeOK
      <4> QED BY <4>1 DEF Holders
    <3> QED BY <3>1, <3>3, <3>4, <3>5 DEF Lease!LeaseNext, Lease!Acquire
  <2>2. CASE HandleReadError(c) \/ HandleReadMore(c) \/ HandleReadReply(c)
    BY <1>a, <2>2 DEF HandleReadError, HandleReadMore, HandleReadReply, server_vars,
                      conn_vars
  <2> QED BY <1>3, <2>1, <2>2 DEF HandleRead
<1>4. ASSUME NEW c \in Conn, HandleRequest(c) PROVE [Lease!LeaseNext]_Holders
  <2>1. CASE WriteImage(c)
    <3>1. /\ conn_pc[c] = "encode"
          /\ conn_pc' = [conn_pc EXCEPT ![c] = "idle"]
          /\ conn_map[c] \in Maps
          /\ UNCHANGED conn_map
      BY <1>0, <2>1 DEF WriteImage, TypeOK
    <3>2. \A d \in Conn : conn_pc[d] # "idle" /\ conn_map[d] = conn_map[c] => d = c
      BY <3>1, OneRequestPerMap
    <3>3. Holders[conn_map[c]] # {}
      BY <3>1 DEF Holders
    <3>4. Holders' = [Holders EXCEPT ![conn_map[c]] = {}]
      <4>1. \A m \in Maps : Holders'[m] = IF m = conn_map[c] THEN {} ELSE Holders[m]
        BY <1>0, <3>1, <3>2 DEF Holders, TypeOK
      <4> QED BY <4>1 DEF Holders
    <3> QED BY <3>1, <3>3, <3>4 DEF Lease!LeaseNext, Lease!Release
  <2>2. CASE \E from, to \in PcState \ {"idle"} : Advances(c, from, to)
    BY <1>0, <2>2 DEF Advances, Holders, TypeOK
  <2> QED
    BY <1>4, <2>1, <2>2 DEF HandleRequest, SetSrs, SetActiveLayers, Resize,
                            ZoomToBox, Render, PcState
<1>5. ASSUME NEW c \in Conn, RenderThrows(c) \/ HandleWrite(c)
      PROVE  UNCHANGED Holders
  BY <1>a, <1>5 DEF RenderThrows, HandleWrite, server_vars, conn_vars
<1>6. CASE Signal \/ JoinAndDestroy
  BY <1>a, <1>6 DEF Signal, JoinAndDestroy, conn_vars
<1>7. CASE StopPool \/ RunPool \/ RunPoolThrows
  BY <1>a, <1>7 DEF StopPool, RunPool, RunPoolThrows, server_vars, conn_vars
<1>8. ASSUME NEW i \in Io, ThreadReturns(i) PROVE UNCHANGED Holders
  BY <1>a, <1>8 DEF ThreadReturns, server_vars, conn_vars
<1>9. CASE UNCHANGED vars
  BY <1>a, <1>9 DEF vars, server_vars, conn_vars
<1> QED
  BY <1>1, <1>2, <1>3, <1>4, <1>5, <1>6, <1>7, <1>8, <1>9 DEF Next, Terminated

\* The server implements MapLease: between a request's first call on its map and
\* its last no other request is on that map, although nothing locks it.
THEOREM ImplementsLease == ASSUME OneThreadPerMap PROVE Spec => LeaseSpec
<1>1. Init => Lease!LeaseInit
  BY DEF Init, Holders, Lease!LeaseInit
<1>2. IInv /\ [Next]_vars => [Lease!LeaseNext]_Holders
  BY LeaseStep
<1> QED BY Inductive, <1>1, <1>2, PTL DEF Spec, LeaseSpec, Lease!LeaseSpec

-----------------------------------------------------------------------------
(* The refinement: every connection lives one life.                         *)

\* Each action moves the connections it is about one phase on and leaves the
\* others where they are; the destruction ends what is still waiting.
LEMMA LifeStep == ASSUME IInv, [Next]_vars PROVE [Life!LifeNext]_Phase
<1> USE DEF Phase, Life!LifeNext, Life!Follow, FreshUntilAccepted
<1>0. TypeOK /\ FreshUntilAccepted /\ HandlerOwnsConnection
  BY DEF IInv
<1>a. ASSUME UNCHANGED <<new_connection_, acceptor, conn_op, conn_pc>>
      PROVE  UNCHANGED Phase
  BY <1>a
<1>b. ASSUME NEW c \in Conn, UNCHANGED <<new_connection_, acceptor>>,
             \A d \in Conn : d # c => conn_op'[d] = conn_op[d] /\ conn_pc'[d] = conn_pc[d],
             Phase'[c] = Phase[c] \/ Phase'[c] \in Life!Follow[Phase[c]]
      PROVE  Life!LifeNext
  BY <1>b
<1>1. CASE HandleAccept
  BY <1>0, <1>1, ServerAssumption DEF HandleAccept, TypeOK
<1>2. CASE HandleAcceptError
  BY <1>0, <1>2 DEF HandleAcceptError, conn_vars
<1>3. CASE ResetConnection
  BY <1>0, <1>3, ServerAssumption DEF ResetConnection, TypeOK
<1>4. ASSUME NEW c \in Conn, HandleRead(c) PROVE [Life!LifeNext]_Phase
  <2>1. conn_op[c] = "read" /\ conn_pc[c] = "idle"
    BY <1>0, <1>4
       DEF HandleRead, HandleReadError, HandleReadMore, HandleReadReply,
           HandleReadRequest, ReadCompletes, HandlerOwnsConnection
  <2>2. Phase[c] = "read"
    BY <1>0, <2>1
  <2>3. /\ UNCHANGED <<new_connection_, acceptor>>
        /\ \A d \in Conn : d # c => conn_op'[d] = conn_op[d] /\ conn_pc'[d] = conn_pc[d]
    BY <1>0, <1>4
       DEF HandleRead, HandleReadError, HandleReadMore, HandleReadReply,
           HandleReadRequest, TypeOK, server_vars, conn_vars
  <2>4. Phase'[c] \in {"read", "busy", "write", "gone"}
    BY <1>0, <1>4, <2>1, <2>3
       DEF HandleRead, HandleReadError, HandleReadMore, HandleReadReply,
           HandleReadRequest, TypeOK, server_vars, conn_vars
  <2> QED BY <1>b, <2>2, <2>3, <2>4
<1>5. ASSUME NEW c \in Conn, HandleRequest(c) PROVE [Life!LifeNext]_Phase
  <2>1. conn_pc[c] # "idle"
    BY <1>5 DEF HandleRequest, SetSrs, SetActiveLayers, Resize, ZoomToBox, Render,
                WriteImage, Advances
  <2>2. Phase[c] = "busy"
    BY <1>0, <2>1
  <2>3. /\ UNCHANGED <<new_connection_, acceptor>>
        /\ \A d \in Conn : d # c => conn_op'[d] = conn_op[d] /\ conn_pc'[d] = conn_pc[d]
    BY <1>0, <1>5
       DEF HandleRequest, SetSrs, SetActiveLayers, Resize, ZoomToBox, Render,
           WriteImage, Advances, TypeOK
  <2>4. Phase'[c] \in {"busy", "write"}
    BY <1>0, <1>5, <2>1, <2>3
       DEF HandleRequest, SetSrs, SetActiveLayers, Resize, ZoomToBox, Render,
           WriteImage, Advances, TypeOK
  <2> QED BY <1>b, <2>2, <2>3, <2>4
<1>6. ASSUME NEW c \in Conn, RenderThrows(c) PROVE UNCHANGED Phase
  BY <1>a, <1>6 DEF RenderThrows, server_vars, conn_vars
<1>7. ASSUME NEW c \in Conn, HandleWrite(c) PROVE [Life!LifeNext]_Phase
  BY <1>0, <1>7 DEF HandleWrite, HandlerOwnsConnection, TypeOK
<1>8. CASE Signal
  BY <1>a, <1>8 DEF Signal, conn_vars
<1>9. CASE JoinAndDestroy
  <2>1. \A c \in Conn : conn_pc[c] = "idle" /\ conn_pc'[c] = "idle"
    BY <1>9, JoinedIsQuiet DEF JoinAndDestroy
  <2>2. acceptor # "resetting"
    BY <1>9, JoinedIsQuiet, ZeroInIo
       DEF JoinAndDestroy, IInv, HandledOnOwnThread, AcceptorIo, AcceptHandler, Idle
  <2> QED BY <1>0, <1>9, <2>1, <2>2 DEF JoinAndDestroy, TypeOK, OpState
<1>10. CASE StopPool \/ RunPool \/ RunPoolThrows
  BY <1>a, <1>10 DEF StopPool, RunPool, RunPoolThrows, server_vars, conn_vars
<1>11. ASSUME NEW i \in Io, ThreadReturns(i) PROVE UNCHANGED Phase
  BY <1>a, <1>11 DEF ThreadReturns, server_vars, conn_vars
<1>12. CASE UNCHANGED vars
  BY <1>a, <1>12 DEF vars, server_vars, conn_vars
<1> QED
  BY <1>1, <1>2, <1>3, <1>4, <1>5, <1>6, <1>7, <1>8, <1>9, <1>10, <1>11, <1>12
     DEF Next, Terminated

\* The server implements ConnectionLife: whatever its threads do and whenever it
\* is stopped, a connection serves one client, once.
THEOREM ImplementsLife == Spec => LifeSpec
<1>1. Init => Life!LifeInit
  BY DEF Init, Phase, Life!LifeInit
<1>2. IInv /\ [Next]_vars => [Life!LifeNext]_Phase
  BY LifeStep
<1> QED BY Inductive, <1>1, <1>2, PTL DEF Spec, LifeSpec, Life!LifeSpec

-----------------------------------------------------------------------------
(* The round robin.                                                         *)

\* There are finitely many connections, on each io_service too.
LEMMA ConnectionsAreFinite ==
  ASSUME TypeOK, NEW i \in Io
  PROVE  IsFiniteSet(ConnectionsOn(i)) /\ Cardinality(ConnectionsOn(i)) \in Nat
<1>1. IsFiniteSet(Created)
  BY FS_Interval, ServerAssumption DEF Created, TypeOK
<1>2. ConnectionsOn(i) \subseteq Created
  BY DEF ConnectionsOn
<1> QED BY <1>1, <1>2, FS_Subset, FS_CardinalityType

\* A new connection goes to the io_service at the cursor, and to no other.
LEMMA ResetPlaces ==
  ASSUME TypeOK, FreshUntilAccepted, ResetConnection, NEW i \in Io
  PROVE  Cardinality(ConnectionsOn(i)') =
           Cardinality(ConnectionsOn(i)) + (IF i = next_io_service_ THEN 1 ELSE 0)
<1> DEFINE c == new_connection_ + 1
<1>1. c \in Conn /\ new_connection_' = c /\ c \notin Created /\ Created' = Created \cup {c}
  BY ServerAssumption DEF ResetConnection, FreshUntilAccepted, TypeOK, Created
<1>2. conn_io' = [conn_io EXCEPT ![c] = next_io_service_]
  BY DEF ResetConnection
<1>3. Created \subseteq Conn
  BY ServerAssumption DEF TypeOK, Created
<1>4. c \notin ConnectionsOn(i) /\ IsFiniteSet(ConnectionsOn(i))
  BY <1>1, ConnectionsAreFinite DEF ConnectionsOn
<1>5. CASE i = next_io_service_
  <2>1. ConnectionsOn(i)' = ConnectionsOn(i) \cup {c}
    BY <1>1, <1>2, <1>3, <1>5 DEF ConnectionsOn, TypeOK
  <2> QED BY <1>4, <1>5, <2>1, FS_AddElement
<1>6. CASE i # next_io_service_
  <2>1. ConnectionsOn(i)' = ConnectionsOn(i)
    BY <1>1, <1>2, <1>3, <1>6 DEF ConnectionsOn, TypeOK
  <2>2. Cardinality(ConnectionsOn(i)) \in Nat
    BY ConnectionsAreFinite
  <2> QED BY <1>6, <2>1, <2>2
<1> QED BY <1>5, <1>6

\* Only a new connection moves the cursor and the loads, and both together.
LEMMA LoadStep ==
  ASSUME IInv, LoadFollowsCursor, [Next]_vars PROVE LoadFollowsCursor'
<1>0. TypeOK /\ FreshUntilAccepted
  BY DEF IInv
<1>1. CASE ResetConnection
  <2>1. next_io_service_' = Advance(next_io_service_) /\ next_io_service_ \in Io
    BY <1>0, <1>1 DEF ResetConnection, GetIoService, TypeOK
  <2>2. SUFFICES ASSUME NEW i \in Io
                 PROVE  Cardinality(ConnectionsOn(i)') =
                          Cardinality(ConnectionsOn(AcceptorIo)')
                            + (IF i \in Ahead' THEN 1 ELSE 0)
    BY DEF LoadFollowsCursor
  <2>3. AcceptorIo \in Io /\ AcceptorIo = 0
    BY ZeroInIo DEF AcceptorIo
  <2>4. /\ Cardinality(ConnectionsOn(i)) \in Nat
        /\ Cardinality(ConnectionsOn(AcceptorIo)) \in Nat
    BY <1>0, <2>3, ConnectionsAreFinite
  <2>5. Cardinality(ConnectionsOn(i)) =
          Cardinality(ConnectionsOn(AcceptorIo)) + (IF i \in Ahead THEN 1 ELSE 0)
    BY DEF LoadFollowsCursor
  <2>6. /\ Cardinality(ConnectionsOn(i)') =
             Cardinality(ConnectionsOn(i)) + (IF i = next_io_service_ THEN 1 ELSE 0)
        /\ Cardinality(ConnectionsOn(AcceptorIo)') =
             Cardinality(ConnectionsOn(AcceptorIo))
               + (IF AcceptorIo = next_io_service_ THEN 1 ELSE 0)
    BY <1>0, <1>1, <2>3, ResetPlaces
  <2>7. (IF i \in Ahead THEN 1 ELSE 0) + (IF i = next_io_service_ THEN 1 ELSE 0) =
          (IF AcceptorIo = next_io_service_ THEN 1 ELSE 0) + (IF i \in Ahead' THEN 1 ELSE 0)
    BY <2>1, <2>3, PoolSizeAssumption DEF Ahead, Advance, Io
  <2> QED BY <2>4, <2>5, <2>6, <2>7
<1>2. CASE UNCHANGED <<next_io_service_, new_connection_, conn_io>>
  BY <1>2 DEF LoadFollowsCursor, ConnectionsOn, Created, Ahead
<1>3. ASSUME NEW c \in Conn, HandleRead(c) \/ HandleWrite(c) \/ RenderThrows(c)
      PROVE  LoadFollowsCursor'
  BY <1>2, <1>3
     DEF HandleRead, HandleReadError, HandleReadMore, HandleReadReply,
         HandleReadRequest, HandleWrite, RenderThrows, RunThrows, Begin, RunToEnd,
         UNCHANGED_pool, UNCHANGED_running, pool_vars, server_vars, conn_vars
<1>4. ASSUME NEW c \in Conn, HandleRequest(c) PROVE LoadFollowsCursor'
  BY <1>2, <1>4
     DEF HandleRequest, SetSrs, SetActiveLayers, Resize, ZoomToBox, Render,
         WriteImage, Advances, Inside, End, UNCHANGED_pool, UNCHANGED_running,
         pool_vars
<1>5. CASE HandleAccept \/ HandleAcceptError
  BY <1>2, <1>5 DEF HandleAccept, HandleAcceptError, Begin, RunToEnd,
                    UNCHANGED_pool, UNCHANGED_running, pool_vars, conn_vars
<1>6. CASE Signal \/ JoinAndDestroy \/ StopPool
  BY <1>2, <1>6 DEF Signal, JoinAndDestroy, StopPool, StopNext, pool_vars,
                    server_vars, conn_vars
<1>7. CASE RunPool \/ RunPoolThrows
  BY <1>2, <1>7 DEF RunPool, RunPoolThrows, SpawnThread, SpawnThrows, JoinThread,
                    server_vars, conn_vars
<1>8. ASSUME NEW i \in Io, ThreadReturns(i) PROVE LoadFollowsCursor'
  BY <1>2, <1>8 DEF ThreadReturns, RunReturns, server_vars, conn_vars
<1>9. CASE UNCHANGED vars
  BY <1>2, <1>9 DEF vars, pool_vars, server_vars, conn_vars
<1> QED
  BY <1>1, <1>3, <1>4, <1>5, <1>6, <1>7, <1>8, <1>9 DEF Next, Terminated

\* At any time and for every pool size no io_service has been given two
\* connections more than another.
THEOREM LoadIsBalanced == Spec => []RoundRobinBalanced
<1>1. ASSUME Init PROVE LoadFollowsCursor
  <2>1. TypeOK
    BY <1>1, InitIInv DEF IInv
  <2>2. AcceptorIo \in Io /\ AcceptorIo = 0 /\ Advance(0) \in Io
    BY ZeroInIo, AdvanceInIo DEF AcceptorIo
  <2>3. Created = {1} /\ conn_io[1] = Advance(0)
    BY <1>1, ServerAssumption DEF Init, Created, AcceptorIo
  <2>4. \A i \in Io : ConnectionsOn(i) = IF i = Advance(0) THEN {1} ELSE {}
    BY <2>3 DEF ConnectionsOn
  <2>5. \A i \in Io : Cardinality(ConnectionsOn(i)) = IF i = Advance(0) THEN 1 ELSE 0
    BY <2>4, FS_EmptySet, FS_Singleton
  <2>6. next_io_service_ = Advance(Advance(0))
    BY <1>1 DEF Init, AcceptorIo
  <2> QED
    BY <2>2, <2>5, <2>6, PoolSizeAssumption DEF LoadFollowsCursor, Ahead, Advance, Io
<1>2. ASSUME IInv, LoadFollowsCursor PROVE RoundRobinBalanced
  <2>1. \A i \in Io : Cardinality(ConnectionsOn(i)) \in Nat
    BY <1>2, ConnectionsAreFinite DEF IInv
  <2>2. AcceptorIo \in Io
    BY ZeroInIo DEF AcceptorIo
  <2> QED BY <1>2, <2>1, <2>2 DEF RoundRobinBalanced, LoadFollowsCursor
<1>3. IInv /\ LoadFollowsCursor /\ [Next]_vars => LoadFollowsCursor'
  BY LoadStep
<1> QED BY Inductive, <1>1, <1>2, <1>3, PTL DEF Spec
=============================================================================
