---------------------------- MODULE IoServicePool ----------------------------
(***************************************************************************)
(* The pool of io_service objects (src/io_service_pool.cpp), one thread    *)
(* per io_service, and what boost::asio promises about a thread inside     *)
(* io_service::run: it executes one handler at a time, starts no handler   *)
(* once the io_service is stopped, and leaves run() when the io_service is *)
(* stopped or has nothing left to do.                                      *)
(*                                                                         *)
(* The module is a library of actions: module Server composes them with    *)
(* the acceptor and the connections, whose handlers the threads execute.   *)
(***************************************************************************)
EXTENDS Integers

CONSTANT PoolSize      \* pool_size, the number of io_services, threads and maps

\* The constructor throws when pool_size is 0 (io_service_pool.cpp:34, :57).
ASSUME PoolSizeAssumption == PoolSize \in Nat \ {0}

Io == 0 .. PoolSize - 1

VARIABLES
  next_io_service_,    \* round-robin cursor of get_io_service
  next_map_service_,   \* round-robin cursor of get_map_service
  thread,              \* thread[i]: progress of the thread that runs io_service i
  running,             \* running[i]: the handler that thread i executes, or Idle
  spawned,             \* number of threads run() has created
  joined,              \* number of threads run() has joined
  stopped,             \* stopped[i]: stop() was called on io_service i
  stop_next,           \* index of the loop in io_service_pool::stop
  aborted              \* an exception left a thread function: std::terminate

pool_vars == <<next_io_service_, next_map_service_, thread, running, spawned,
               joined, stopped, stop_next, aborted>>

Idle == -1

-----------------------------------------------------------------------------
(* The round-robin cursors. The getters return the cursor's current value,  *)
(* the callers read it before the step.                                     *)

Advance_LateWrap(i) == IF i + 1 > PoolSize THEN 0 ELSE i + 1
Advance_SkipsZero(i) == IF i + 1 = PoolSize THEN 1 % PoolSize ELSE i + 1

Advance(i) == IF i + 1 = PoolSize THEN 0 ELSE i + 1

GetIoService == next_io_service_' = Advance(next_io_service_)

GetMapService_Stuck == UNCHANGED next_map_service_

GetMapService == next_map_service_' = Advance(next_map_service_)

-----------------------------------------------------------------------------
(* io_service_pool::run, executed by the thread that main starts: create    *)
(* every thread, then join them in order.                                   *)

SpawnThread_OffByOne ==
  /\ ~aborted
  /\ spawned <= PoolSize
  /\ thread' = [i \in Io |-> IF i = spawned THEN "running" ELSE thread[i]]
  /\ spawned' = spawned + 1
  /\ UNCHANGED <<next_io_service_, next_map_service_, running, joined, stopped,
                 stop_next, aborted>>

SpawnThread ==
  /\ ~aborted
  /\ spawned < PoolSize
  /\ thread' = [thread EXCEPT ![spawned] = "running"]
  /\ spawned' = spawned + 1
  /\ UNCHANGED <<next_io_service_, next_map_service_, running, joined, stopped,
                 stop_next, aborted>>

\* boost::thread cannot create a thread: the exception leaves run(), and with
\* it the thread function of the thread that executes run().
SpawnThrows ==
  /\ ~aborted
  /\ spawned < PoolSize
  /\ aborted' = TRUE
  /\ UNCHANGED <<next_io_service_, next_map_service_, thread, running, spawned,
                 joined, stopped, stop_next>>

JoinThread_NoWait ==
  /\ ~aborted
  /\ spawned = PoolSize
  /\ joined < PoolSize
  /\ joined' = joined + 1
  /\ UNCHANGED <<next_io_service_, next_map_service_, thread, running, spawned,
                 stopped, stop_next, aborted>>

JoinThread ==
  /\ ~aborted
  /\ spawned = PoolSize
  /\ joined < PoolSize
  /\ thread[joined] = "returned"
  /\ joined' = joined + 1
  /\ UNCHANGED <<next_io_service_, next_map_service_, thread, running, spawned,
                 stopped, stop_next, aborted>>

RunCompleted == spawned = PoolSize /\ joined = PoolSize

(* io_service_pool::stop: one iteration of its loop.                        *)

StopNext_SkipsLast ==
  /\ ~aborted
  /\ stop_next < PoolSize
  /\ stopped' = [stopped EXCEPT ![stop_next] = (stop_next + 1 < PoolSize)]
  /\ stop_next' = stop_next + 1
  /\ UNCHANGED <<next_io_service_, next_map_service_, thread, running, spawned,
                 joined, aborted>>

StopNext ==
  /\ ~aborted
  /\ stop_next < PoolSize
  /\ stopped' = [stopped EXCEPT ![stop_next] = TRUE]
  /\ stop_next' = stop_next + 1
  /\ UNCHANGED <<next_io_service_, next_map_service_, thread, running, spawned,
                 joined, aborted>>

StopCompleted == stop_next = PoolSize

-----------------------------------------------------------------------------
(* boost::asio and boost::thread, as the pool uses them.                    *)

WorkHeld_AcceptorOnly == {0}

\* The io_services whose run() is kept from returning by a work object: the
\* constructor gives one to each and nothing releases it before destruction.
WorkHeld == Io

\* Thread i is inside run(), between two handlers, and may start another one.
CanRun(i) ==
  /\ ~aborted
  /\ thread[i] = "running"
  /\ running[i] = Idle
  /\ ~stopped[i]

\* io_service::run returns: the io_service is stopped, or it holds no work
\* object and no asynchronous operation is outstanding on it.
RunReturns(i, outstanding) ==
  /\ ~aborted
  /\ thread[i] = "running"
  /\ running[i] = Idle
  /\ stopped[i] \/ (i \notin WorkHeld /\ ~outstanding)
  /\ thread' = [thread EXCEPT ![i] = "returned"]
  /\ UNCHANGED <<next_io_service_, next_map_service_, running, spawned, joined,
                 stopped, stop_next, aborted>>

\* An exception thrown by a handler leaves run() and the thread function, to
\* which boost::thread answers with std::terminate: the process is gone.
RunThrows(i) ==
  /\ ~aborted
  /\ thread' = [thread EXCEPT ![i] = "threw"]
  /\ aborted' = TRUE
  /\ UNCHANGED <<next_io_service_, next_map_service_, running, spawned, joined,
                 stopped, stop_next>>

=============================================================================
