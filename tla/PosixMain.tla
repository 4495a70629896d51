------------------------------ MODULE PosixMain ------------------------------
(***************************************************************************)
(* main of the POSIX build (src/posix_main.cpp): from the command line and *)
(* the configuration file to the running server, the signals that end it,  *)
(* and the exit status. The threads of the server are those of             *)
(* IoServicePool; what their handlers do is in module Server.              *)
(*                                                                         *)
(* A signal is sent to the process: the kernel hands it to any thread that *)
(* does not block it, which kills the process (no handler is installed),   *)
(* or keeps it pending while every thread blocks it.                       *)
(***************************************************************************)
EXTENDS IoServicePool, FiniteSets

CONSTANTS
  CommandLines,    \* bound: what the server is started with, see CommandLine
  Signals,         \* bound: the signals that may be sent to it
  InitialMasks     \* bound: the signal masks it may inherit from its parent

\* sigwait's wait_mask. SIGHUP, for one, is not in it.
WaitSignals == {"SIGINT", "SIGQUIT", "SIGTERM"}

\* Keys that main asks the configuration file for, in its words "required".
Core == {"address", "port", "threads", "doc_root", "stylesheet"}
Directories == {"fonts", "plugins"}
Options == Core \cup Directories

\* argc and the two flags, then the configuration file: whether it can be read,
\* which options it lacks, what "threads" says and what "max_extent" says. On
\* the command line argv[3] is the number of threads.
CommandLine ==
  [argc : Nat, help : BOOLEAN, version : BOOLEAN, readable : BOOLEAN,
   lacks : SUBSET Options, threads : {"positive", "zero", "word"},
   max_extent : {"none", "bbox", "garbled"}]

ASSUME PosixMainAssumption ==
  /\ CommandLines \subseteq CommandLine
  /\ WaitSignals \subseteq Signals
  /\ InitialMasks \subseteq SUBSET Signals

VARIABLES
  args,            \* what the process was started with
  pc,              \* the part of main that comes next
  config_errors,   \* the flag of that name
  reported,        \* options that an error message has asked for
  registered,      \* directories that were registered with mapnik
  run_thread,      \* t, the thread that executes server::run
  mask,            \* mask[t]: the signals that thread t blocks
  old_mask,        \* the variable of that name
  pending,         \* signals sent and blocked by every thread
  killed_by,       \* the signal that killed the process, or "none"
  exit             \* exit status, "crashed", or "none" while there is none

main_vars == <<args, pc, config_errors, reported, registered, run_thread, mask,
               old_mask, pending, killed_by, exit>>
vars == <<pool_vars, main_vars>>

MainThread == -2
RunThread == -1
Threads == MainThread .. PoolSize - 1

\* The options that a run from the configuration file has to do without.
Missing == args.lacks \cup (IF args.threads = "word" THEN {"threads"} ELSE {})

Init ==
  /\ next_io_service_ = 0
  /\ next_map_service_ = 0
  /\ thread = [i \in Io |-> "none"]
  /\ running = [i \in Io |-> Idle]
  /\ spawned = 0
  /\ joined = 0
  /\ stopped = [i \in Io |-> FALSE]
  /\ stop_next = 0
  /\ aborted = FALSE
  /\ args \in CommandLines
  /\ pc = "arguments"
  /\ config_errors = FALSE
  /\ reported = {}
  /\ registered = {}
  /\ run_thread = "none"
  /\ \E m \in InitialMasks : mask = [t \in Threads |-> IF t = MainThread THEN m ELSE {}]
  /\ old_mask = {}
  /\ pending = {}
  /\ killed_by = "none"
  /\ exit = "none"

-----------------------------------------------------------------------------
(* The process and its main thread.                                         *)

Running == exit = "none" /\ killed_by = "none" /\ ~aborted

At(place) == Running /\ pc = place

Goto(place) == pc' = place /\ UNCHANGED exit

\* The process ends where main is; so do its threads.
Exit(status) == exit' = status /\ UNCHANGED pc

UNCHANGED_config == UNCHANGED <<config_errors, reported, registered>>
UNCHANGED_signals == UNCHANGED <<mask, old_mask, pending, killed_by>>

-----------------------------------------------------------------------------
(* The configuration.                                                       *)

\* With two arguments "--help" is taken for the name of the file.
ParseArguments ==
  /\ At("arguments")
  /\ IF \/ args.version
        \/ args.argc # 2 /\ (args.argc # 7 \/ args.help)
     THEN Exit("1")
     ELSE Goto(IF args.argc = 7 THEN "command options" ELSE "read json")
  /\ UNCHANGED <<pool_vars, args, run_thread>>
  /\ UNCHANGED_config /\ UNCHANGED_signals

\* lexical_cast throws on a number of threads that is none.
CommandOptions ==
  /\ At("command options")
  /\ IF args.threads = "word"
     THEN Exit("1") /\ UNCHANGED registered
     ELSE Goto("check") /\ registered' = Directories
  /\ UNCHANGED <<pool_vars, args, config_errors, reported, run_thread>>
  /\ UNCHANGED_signals

ReadJson ==
  /\ At("read json")
  /\ IF args.readable THEN Goto("core options") ELSE Exit("1")
  /\ UNCHANGED <<pool_vars, args, run_thread>>
  /\ UNCHANGED_config /\ UNCHANGED_signals

\* Stops asking at the first option that is missing.
CoreOptions_FirstOnly ==
  /\ At("core options")
  /\ Goto("fonts")
  /\ reported' = IF Core \cap Missing = {} THEN {}
                 ELSE {CHOOSE o \in Core : o \in Missing}
  /\ config_errors' = (Core \cap Missing # {})
  /\ UNCHANGED <<pool_vars, args, registered, run_thread>>
  /\ UNCHANGED_signals

CoreOptions ==
  /\ At("core options")
  /\ Goto("fonts")
  /\ reported' = Core \cap Missing
  /\ config_errors' = (Core \cap Missing # {})
  /\ UNCHANGED <<pool_vars, args, registered, run_thread>>
  /\ UNCHANGED_signals

\* Reports a missing directory without counting it as an error.
Directory_WarnsOnly(option, place, next) ==
  /\ At(place)
  /\ reported' = IF option \in Missing THEN reported \cup {option} ELSE reported
  /\ registered' = IF option \in Missing THEN registered ELSE registered \cup {option}
  /\ Goto(next)
  /\ UNCHANGED <<pool_vars, args, config_errors, run_thread>>
  /\ UNCHANGED_signals

\* A missing directory is reported, and then the optional is dereferenced all
\* the same: an assertion or undefined behaviour, so that the process may crash
\* or go on having registered nothing.
Directory(option, place, next) ==
  /\ At(place)
  /\ IF option \in Missing
     THEN /\ reported' = reported \cup {option}
          /\ config_errors' = TRUE
          /\ UNCHANGED registered
          /\ Exit("crashed") \/ Goto(next)
     ELSE /\ registered' = registered \cup {option}
          /\ UNCHANGED <<reported, config_errors>>
          /\ Goto(next)
  /\ UNCHANGED <<pool_vars, args, run_thread>>
  /\ UNCHANGED_signals

Fonts == Directory("fonts", "fonts", "plugins")
Plugins == Directory("plugins", "plugins", "max_extent")

MaxExtent ==
  /\ At("max_extent")
  /\ config_errors' = (config_errors \/ args.max_extent = "garbled")
  /\ Goto("check")
  /\ UNCHANGED <<pool_vars, args, reported, registered, run_thread>>
  /\ UNCHANGED_signals

\* "ready: listening on" is printed here, before anything listens.
CheckConfig ==
  /\ At("check")
  /\ IF config_errors THEN Exit("1") ELSE Goto("block")
  /\ UNCHANGED <<pool_vars, args, run_thread>>
  /\ UNCHANGED_config /\ UNCHANGED_signals

Configure ==
  \/ ParseArguments \/ CommandOptions
  \/ ReadJson \/ CoreOptions \/ Fonts \/ Plugins \/ MaxExtent
  \/ CheckConfig

-----------------------------------------------------------------------------
(* The server: created with every signal blocked, so that its threads       *)
(* inherit a full mask, then main waits for one of three signals.           *)

\* pthread_sigmask in the main thread. Every other thread blocks everything, so
\* a pending signal that the new mask lets through is delivered here and now.
SetMask(m) ==
  /\ mask' = [mask EXCEPT ![MainThread] = m]
  /\ IF pending \subseteq m
     THEN UNCHANGED killed_by
     ELSE \E s \in pending \ m : killed_by' = s
  /\ UNCHANGED pending

\* Blocks only what it will wait for.
BlockSignals_WaitMask ==
  /\ At("block")
  /\ old_mask' = mask[MainThread]
  /\ SetMask(mask[MainThread] \cup WaitSignals)
  /\ Goto("construct")
  /\ UNCHANGED <<pool_vars, args, run_thread>>
  /\ UNCHANGED_config

BlockSignals ==
  /\ At("block")
  /\ old_mask' = mask[MainThread]
  /\ SetMask(Signals)
  /\ Goto("construct")
  /\ UNCHANGED <<pool_vars, args, run_thread>>
  /\ UNCHANGED_config

\* The constructor throws without threads, without a map or without the port.
ConstructServer ==
  /\ At("construct")
  /\ (args.threads # "zero" /\ Goto("start")) \/ Exit("1")
  /\ UNCHANGED <<pool_vars, args, run_thread>>
  /\ UNCHANGED_config /\ UNCHANGED_signals

\* boost::thread t. If it cannot be created the exception ends main.
StartThread ==
  /\ At("start")
  /\ \/ /\ run_thread' = "running"
        /\ mask' = [mask EXCEPT ![RunThread] = mask[MainThread]]
        /\ Goto("restore")
     \/ /\ Exit("1")
        /\ UNCHANGED <<run_thread, mask>>
  /\ UNCHANGED <<pool_vars, args, old_mask, pending, killed_by>>
  /\ UNCHANGED_config

RestoreMask ==
  /\ At("restore")
  /\ SetMask(old_mask)
  /\ Goto("block wait")
  /\ UNCHANGED <<pool_vars, args, old_mask, run_thread>>
  /\ UNCHANGED_config

BlockWait_ForgetsQuit ==
  /\ At("block wait")
  /\ SetMask(mask[MainThread] \cup (WaitSignals \ {"SIGQUIT"}))
  /\ Goto("sigwait")
  /\ UNCHANGED <<pool_vars, args, old_mask, run_thread>>
  /\ UNCHANGED_config

BlockWait ==
  /\ At("block wait")
  /\ SetMask(mask[MainThread] \cup WaitSignals)
  /\ Goto("sigwait")
  /\ UNCHANGED <<pool_vars, args, old_mask, run_thread>>
  /\ UNCHANGED_config

SigWait ==
  /\ At("sigwait")
  /\ \E s \in pending \cap WaitSignals : pending' = pending \ {s}
  /\ Goto("stop")
  /\ UNCHANGED <<pool_vars, args, run_thread, mask, old_mask, killed_by>>
  /\ UNCHANGED_config

StopServer ==
  /\ At("stop")
  /\ StopNext
  /\ Goto(IF stop_next' = PoolSize THEN "join" ELSE "stop")
  /\ UNCHANGED <<args, run_thread>>
  /\ UNCHANGED_config /\ UNCHANGED_signals

Join_Detaches ==
  /\ At("join")
  /\ Goto("return")
  /\ UNCHANGED <<pool_vars, args, run_thread>>
  /\ UNCHANGED_config /\ UNCHANGED_signals

\* t.join(), and the destructor of the server.
Join ==
  /\ At("join")
  /\ run_thread = "returned"
  /\ Goto("return")
  /\ UNCHANGED <<pool_vars, args, run_thread>>
  /\ UNCHANGED_config /\ UNCHANGED_signals

ReturnFromMain ==
  /\ At("return")
  /\ Exit("0")
  /\ UNCHANGED <<pool_vars, args, run_thread>>
  /\ UNCHANGED_config /\ UNCHANGED_signals

Serve ==
  \/ BlockSignals \/ ConstructServer \/ StartThread \/ RestoreMask
  \/ BlockWait \/ SigWait \/ StopServer \/ Join \/ ReturnFromMain

-----------------------------------------------------------------------------
(* The other threads. Thread t executes io_service_pool::run.               *)

\* A thread starts with the mask of the one that creates it.
RunSpawns ==
  /\ Running
  /\ run_thread = "running"
  /\ SpawnThread
  /\ mask' = [mask EXCEPT ![spawned] = mask[RunThread]]
  /\ UNCHANGED <<args, pc, run_thread, old_mask, pending, killed_by, exit>>
  /\ UNCHANGED_config

RunSpawnThrows ==
  /\ Running
  /\ run_thread = "running"
  /\ SpawnThrows
  /\ UNCHANGED main_vars

RunJoins ==
  /\ Running
  /\ run_thread = "running"
  /\ JoinThread
  /\ UNCHANGED main_vars

RunReturned ==
  /\ Running
  /\ run_thread = "running"
  /\ RunCompleted
  /\ run_thread' = "returned"
  /\ UNCHANGED <<pool_vars, args, pc, exit>>
  /\ UNCHANGED_config /\ UNCHANGED_signals

\* The handlers of a server are left out here: one of them may throw.
PoolThreadReturns(i) == Running /\ RunReturns(i, TRUE) /\ UNCHANGED main_vars

PoolThreadThrows(i) ==
  /\ Running
  /\ thread[i] = "running"
  /\ RunThrows(i)
  /\ UNCHANGED main_vars

-----------------------------------------------------------------------------
(* Signals, and the whole process.                                          *)

Exists(t) ==
  \/ t = MainThread
  \/ t = RunThread /\ run_thread = "running"
  \/ t \in Io /\ thread[t] = "running"

Send(s) ==
  /\ Running
  /\ s \notin pending
  /\ IF \E t \in Threads : Exists(t) /\ s \notin mask[t]
     THEN killed_by' = s /\ UNCHANGED pending
     ELSE pending' = pending \cup {s} /\ UNCHANGED killed_by
  /\ UNCHANGED <<pool_vars, args, pc, run_thread, mask, old_mask, exit>>
  /\ UNCHANGED_config

Over == ~Running /\ UNCHANGED vars

Run == RunSpawns \/ RunJoins \/ RunReturned

Next ==
  \/ Configure
  \/ Serve
  \/ Run
  \/ RunSpawnThrows
  \/ \E i \in Io : PoolThreadReturns(i)
  \/ \E i \in Io : PoolThreadThrows(i)
  \/ \E s \in Signals : Send(s)
  \/ Over

Spec == Init /\ [][Next]_vars

\* Threads that can run do. Nothing is assumed of signals or of failures.
FairSpec ==
  /\ Spec
  /\ WF_vars(Configure)
  /\ WF_vars(Serve)
  /\ WF_vars(Run)
  /\ \A i \in Io : WF_vars(PoolThreadReturns(i))

-----------------------------------------------------------------------------
Places == {"arguments", "command options", "read json", "core options", "fonts",
           "plugins", "max_extent", "check", "block", "construct", "start",
           "restore", "block wait", "sigwait", "stop", "join", "return"}

TypeOK ==
  /\ next_io_service_ \in Io /\ next_map_service_ \in Io
  /\ thread \in [Io -> {"none", "running", "returned", "threw"}]
  /\ running \in [Io -> {Idle}]
  /\ spawned \in 0 .. PoolSize
  /\ joined \in 0 .. PoolSize
  /\ stopped \in [Io -> BOOLEAN]
  /\ stop_next \in 0 .. PoolSize
  /\ aborted \in BOOLEAN
  /\ args \in CommandLines
  /\ pc \in Places
  /\ config_errors \in BOOLEAN
  /\ reported \subseteq Options
  /\ registered \subseteq Directories
  /\ run_thread \in {"none", "running", "returned"}
  /\ mask \in [Threads -> SUBSET Signals]
  /\ old_mask \subseteq Signals
  /\ pending \subseteq Signals
  /\ killed_by \in Signals \cup {"none"}
  /\ exit \in {"none", "0", "1", "crashed"}

Serving == {"sigwait", "stop", "join", "return"}

\* Once main waits, none of the three signals can kill the process any more,
\* nor can any signal be taken by a thread of the server: those threads inherit
\* the mask through two generations, from a main thread that changes its own
\* while they are being created.
StopsInOrder ==
  /\ killed_by \in WaitSignals => pc \notin Serving
  /\ \A t \in Threads \ {MainThread} : Exists(t) => mask[t] = Signals

\* The process never exits with a status of its own while a thread of the
\* server is inside run(): with 1 none has been started, with 0 all are joined.
NoThreadLeftBehind ==
  /\ exit = "1" => run_thread = "none" /\ \A i \in Io : thread[i] = "none"
  /\ exit = "0" => run_thread = "returned" /\ \A i \in Io : thread[i] = "returned"

FromFile == args.argc = 2 /\ ~args.version

\* One run is enough to be told of everything a configuration lacks.
ReportsAll ==
  exit = "1" /\ pc = "check" => reported = Missing \cap Options

\* A server that exists was configured in full, fonts and input plugins
\* registered, whatever undefined behaviour a missing option has led to.
ServesOnlyConfigured ==
  pc \in {"start", "restore", "block wait"} \cup Serving =>
    /\ registered = Directories
    /\ FromFile => Missing = {} /\ args.max_extent # "garbled"

\* config.json:6 and :9 call the two directories required, and main has a
\* message for each (posix_main.cpp:252, :273) that sets config_errors, to which
\* line 291 answers with exit status 1.
RefusesIncomplete == exit # "none" /\ Missing # {} => exit = "1"

\* A signal that asks the server to stop ends the process, even one that is sent
\* while the server is being set up or its threads are being created.
SignalEnds ==
  (pending \cap WaitSignals # {} \/ pc = "stop") ~> ~Running

=============================================================================
