--------------------------- MODULE PosixMainProofs ---------------------------
(***************************************************************************)
(* Proofs about module PosixMain, for every size of the pool, every set of *)
(* command lines and signals and every inherited mask.                     *)
(*                                                                         *)
(* The invariant has a part for each thing main keeps in step with its     *)
(* progress: the configuration it has asked for, the masks of the threads, *)
(* and the threads themselves.                                             *)
(***************************************************************************)
EXTENDS PosixMain, TLAPS

\* The parts of main that ask the configuration file for something.
Asking == {"arguments", "command options", "read json", "core options", "fonts",
           "plugins", "max_extent"}

\* The parts before there is a thread, and those after.
Alone == Asking \cup {"check", "block", "construct", "start"}
Started == {"restore", "block wait"} \cup Serving

\* The options that have been asked for when main comes to pc.
Asked ==
  IF pc = "fonts" THEN Core
  ELSE IF pc = "plugins" THEN Core \cup {"fonts"}
  ELSE IF pc = "max_extent" THEN Options
  ELSE {}

\* A configuration with which a server may be constructed.
Complete ==
  /\ registered = Directories
  /\ args.argc = 2 => Missing = {} /\ args.max_extent # "garbled"

\* What has been asked for is reported or registered, and an error is noted for
\* what is reported; a check that succeeds leaves a complete configuration.
ConfigInStep ==
  /\ pc \in Asking \ {"arguments", "command options"} => args.argc = 2
  /\ pc = "command options" => args.argc # 2
  /\ pc \in Asking /\ exit = "none" =>
       /\ reported = Missing \cap Asked
       /\ registered = (Directories \cap Asked) \ Missing
       /\ config_errors <=> reported # {}
  /\ pc = "check" /\ args.argc = 2 => reported = Missing
  /\ pc = "check" /\ ~config_errors => Complete
  /\ pc = "check" /\ args.argc # 2 => ~config_errors
  /\ pc = "check" /\ exit # "none" => config_errors
  /\ pc \notin Asking \cup {"check"} => Complete

\* Threads are created by a thread that blocks every signal, while main blocks
\* every signal; from sigwait on main blocks those that it waits for.
MasksInStep ==
  /\ pc \in {"construct", "start"} => mask[MainThread] = Signals
  /\ run_thread # "none" => mask[RunThread] = Signals
  /\ \A i \in Io : i < spawned => mask[i] = Signals
  /\ pc \in Serving => WaitSignals \subseteq mask[MainThread]
  /\ killed_by \in WaitSignals => pc \notin Serving

\* run() is executed by a thread that main has created; it creates and joins the
\* others in order, and main returns after it.
ThreadsInStep ==
  /\ pc \in Alone <=> run_thread = "none"
  /\ run_thread = "none" => spawned = 0
  /\ \A i \in Io : thread[i] = "none" <=> i >= spawned
  /\ \A i \in Io : i < joined => thread[i] = "returned"
  /\ run_thread = "returned" => joined = PoolSize
  /\ pc = "return" => run_thread = "returned"
  /\ exit = "0" => pc = "return"
  /\ exit = "1" => pc \in Alone

MInv == TypeOK /\ ConfigInStep /\ MasksInStep /\ ThreadsInStep

-----------------------------------------------------------------------------
(* The initial state and the types.                                         *)

\* The pool's part of TypeOK.
PoolTyped ==
  /\ next_io_service_ \in Io /\ next_map_service_ \in Io
  /\ thread \in [Io -> {"none", "running", "returned", "threw"}]
  /\ running \in [Io -> {Idle}]
  /\ spawned \in 0 .. PoolSize
  /\ joined \in 0 .. PoolSize
  /\ stopped \in [Io -> BOOLEAN]
  /\ stop_next \in 0 .. PoolSize
  /\ aborted \in BOOLEAN

\* Creating a thread keeps the pool typed and takes the next index.
LEMMA SpawnTyped ==
  ASSUME TypeOK, SpawnThread
  PROVE  /\ PoolTyped'
         /\ spawned \in Io /\ spawned' = spawned + 1
         /\ thread' = [thread EXCEPT ![spawned] = "running"]
         /\ UNCHANGED joined
<1>1. spawned \in Io /\ spawned' \in 0 .. PoolSize
  BY PoolSizeAssumption DEF SpawnThread, Io, TypeOK
<1> QED BY <1>1 DEF SpawnThread, TypeOK, PoolTyped

\* The same of joining one.
LEMMA JoinTyped ==
  ASSUME TypeOK, JoinThread
  PROVE  PoolTyped'
<1>1. joined' \in 0 .. PoolSize
  BY PoolSizeAssumption DEF JoinThread, TypeOK
<1> QED BY <1>1 DEF JoinThread, TypeOK, PoolTyped

\* The invariant holds when main is called.
LEMMA InitMInv == Init => MInv
<1> SUFFICES ASSUME Init PROVE MInv
  OBVIOUS
<1>1. MainThread \in Threads /\ 0 \in Io
  BY PoolSizeAssumption DEF MainThread, Threads, Io
<1>2. mask \in [Threads -> SUBSET Signals]
  BY PosixMainAssumption DEF Init
<1>3. TypeOK
  <2>1. PoolTyped
    <3>1. 0 \in 0 .. PoolSize
      BY PoolSizeAssumption
    <3> QED BY <1>1, <3>1 DEF Init, PoolTyped
  <2> QED BY <1>2, <2>1 DEF Init, TypeOK, PoolTyped, Places
<1>4. ConfigInStep
  BY DEF Init, ConfigInStep, Asking, Asked
<1>5. MasksInStep
  BY PoolSizeAssumption DEF Init, MasksInStep, Serving, WaitSignals, Io
<1>6. ThreadsInStep
  BY PoolSizeAssumption DEF Init, ThreadsInStep, Alone, Asking, Io
<1> QED BY <1>3, <1>4, <1>5, <1>6 DEF MInv

\* A signal that a new mask lets through is a signal.
LEMMA SetMaskTyped ==
  ASSUME TypeOK, NEW m \in SUBSET Signals, SetMask(m)
  PROVE  /\ mask' \in [Threads -> SUBSET Signals]
         /\ pending' \subseteq Signals
         /\ killed_by' \in Signals \cup {"none"}
         /\ mask'[MainThread] = m
         /\ \A t \in Threads \ {MainThread} : mask'[t] = mask[t]
         /\ killed_by' = killed_by \/ killed_by' \notin m
<1>1. MainThread \in Threads
  BY PoolSizeAssumption DEF MainThread, Threads
<1> QED BY <1>1 DEF SetMask, TypeOK

\* Every step keeps the types.
LEMMA TypeStep == ASSUME MInv, [Next]_vars PROVE TypeOK'
<1>0. TypeOK
  BY DEF MInv
<1>a. /\ MainThread \in Threads /\ RunThread \in Threads
      /\ Io \subseteq Threads
  BY PoolSizeAssumption DEF MainThread, RunThread, Threads, Io
<1> USE DEF TypeOK, Goto, Exit, At, Places, UNCHANGED_config, UNCHANGED_signals,
            pool_vars
<1>1. CASE Configure
  <2> USE DEF Options, Directories, Core
  <2>1. CASE ParseArguments \/ CommandOptions \/ ReadJson
    BY <1>0, <2>1, ZenonT(30) DEF ParseArguments, CommandOptions, ReadJson
  <2>2. CASE CoreOptions
    BY <1>0, <2>2 DEF CoreOptions
  <2>3. CASE Fonts \/ Plugins
    BY <1>0, <2>3 DEF Fonts, Plugins, Directory
  <2>4. CASE MaxExtent
    BY <1>0, <2>4 DEF MaxExtent
  <2>5. CASE CheckConfig
    BY <1>0, <2>5 DEF CheckConfig
  <2> QED BY <1>1, <2>1, <2>2, <2>3, <2>4, <2>5 DEF Configure
<1>2. CASE Serve
  <2>1. CASE BlockSignals
    BY <1>0, <1>a, <2>1, SetMaskTyped DEF BlockSignals
  <2>2. CASE ConstructServer
    BY <1>0, <2>2 DEF ConstructServer
  <2>3. CASE StartThread
    BY <1>0, <1>a, <2>3 DEF StartThread
  <2>4. CASE RestoreMask
    BY <1>0, <2>4, SetMaskTyped DEF RestoreMask
  <2>5. CASE BlockWait
    <3>1. mask[MainThread] \cup WaitSignals \in SUBSET Signals
      BY <1>0, <1>a, PosixMainAssumption
    <3> QED BY <1>0, <2>5, <3>1, SetMaskTyped DEF BlockWait
  <2>6. CASE SigWait
    BY <1>0, <2>6 DEF SigWait
  <2>7. CASE StopServer
    BY <1>0, <2>7, PoolSizeAssumption DEF StopServer, StopNext, Io
  <2>8. CASE Join \/ ReturnFromMain
    BY <1>0, <2>8 DEF Join, ReturnFromMain
  <2> QED BY <1>2, <2>1, <2>2, <2>3, <2>4, <2>5, <2>6, <2>7, <2>8 DEF Serve
<1>3. CASE RunSpawns
  <2>1. PoolTyped' /\ spawned \in Io
    BY <1>0, <1>3, SpawnTyped DEF RunSpawns
  <2>2. mask' \in [Threads -> SUBSET Signals]
    BY <1>0, <1>3, <1>a, <2>1 DEF RunSpawns
  <2> QED BY <1>0, <1>3, <2>1, <2>2 DEF RunSpawns, PoolTyped
<1>4. CASE RunJoins \/ RunReturned \/ RunSpawnThrows
  <2>1. PoolTyped'
    BY <1>0, <1>4, JoinTyped
       DEF RunJoins, RunReturned, RunSpawnThrows, SpawnThrows, PoolTyped
  <2> QED BY <1>0, <1>4, <2>1, ZenonT(30)
       DEF RunJoins, RunReturned, RunSpawnThrows, main_vars, PoolTyped
<1>5. ASSUME NEW i \in Io, PoolThreadReturns(i) \/ PoolThreadThrows(i) PROVE TypeOK'
  <2>1. PoolTyped'
    BY <1>0, <1>5
       DEF PoolThreadReturns, PoolThreadThrows, RunReturns, RunThrows, PoolTyped
  <2> QED BY <1>0, <1>5, <2>1, ZenonT(30) DEF PoolThreadReturns, PoolThreadThrows, main_vars, PoolTyped
<1>6. ASSUME NEW s \in Signals, Send(s) PROVE TypeOK'
  BY <1>0, <1>6, ZenonT(30) DEF Send
<1>7. CASE UNCHANGED vars
  BY <1>0, <1>7, ZenonT(30) DEF vars, main_vars
<1> QED BY <1>1, <1>2, <1>3, <1>4, <1>5, <1>6, <1>7 DEF Next, Run, Over

-----------------------------------------------------------------------------
(* The configuration.                                                       *)

\* Whatever a configuration lacks is an option that main asks for.
LEMMA MissingOptions == TypeOK => Missing \subseteq Options
<1> SUFFICES ASSUME TypeOK PROVE Missing \subseteq Options
  OBVIOUS
<1>1. args \in CommandLine
  BY PosixMainAssumption DEF TypeOK
<1> QED BY <1>1 DEF Missing, CommandLine, Options, Core

\* Each question keeps what is known of the answers, and no later step undoes it.
LEMMA ConfigStep == ASSUME MInv, [Next]_vars PROVE ConfigInStep'
<1>0. TypeOK /\ ConfigInStep /\ Missing \subseteq Options
  BY MissingOptions DEF MInv
<1>a. ASSUME UNCHANGED args
      PROVE  Missing' = Missing
  BY <1>a DEF Missing
<1> USE DEF Goto, Exit, At, Running, UNCHANGED_config
<1>1. CASE Configure
  <2> USE DEF ConfigInStep, Asking, Asked, Complete
  <2>1. CASE ParseArguments
    <3>1. exit = "none" /\ UNCHANGED <<args, config_errors, reported, registered>>
      BY <2>1 DEF ParseArguments
    <3>2. reported = {} /\ registered = {} /\ ~config_errors
      BY <1>0, <2>1, <3>1 DEF ParseArguments
    <3>3. pc' = pc \/ (pc' = "command options" /\ args.argc # 2) \/ (pc' = "read json" /\ args.argc = 2)
      <4>1. \/ pc' = pc
            \/ /\ args.argc = 2 \/ args.argc = 7
               /\ pc' = IF args.argc = 7 THEN "command options" ELSE "read json"
        BY <2>1 DEF ParseArguments
      <4>2. args.argc = 7 => args.argc # 2
        OBVIOUS
      <4> QED BY <4>1, <4>2
    <3>4. pc = "arguments"
      BY <2>1 DEF ParseArguments
    <3> QED BY <1>a, <3>1, <3>2, <3>3, <3>4
  <2>2. CASE CommandOptions
    <3>1. pc = "command options" /\ exit = "none" /\ UNCHANGED <<args, config_errors, reported>>
      BY <2>2 DEF CommandOptions
    <3>2. ~config_errors
      BY <1>0, <3>1
    <3>3. CASE exit' = "1" /\ UNCHANGED <<pc, registered>>
      BY <1>0, <1>a, <3>1, <3>3
    <3>4. CASE pc' = "check" /\ exit' = exit /\ registered' = Directories
      BY <1>0, <1>a, <3>1, <3>2, <3>4
    <3> QED BY <2>2, <3>3, <3>4 DEF CommandOptions
  <2>3. CASE ReadJson
    BY <1>0, <1>a, <2>3 DEF ReadJson
  <2>4. CASE CoreOptions
    BY <1>0, <1>a, <2>4 DEF CoreOptions, Core, Directories
  <2>5. CASE Fonts
    BY <1>0, <1>a, <2>5 DEF Fonts, Directory, Core, Directories
  <2>6. CASE Plugins
    BY <1>0, <1>a, <2>6, ZenonT(30) DEF Plugins, Directory, Core, Directories, Options
  <2>7. CASE MaxExtent
    BY <1>0, <1>a, <2>7 DEF MaxExtent, Core, Directories, Options
  <2>8. CASE CheckConfig
    BY <1>0, <1>a, <2>8 DEF CheckConfig
  <2> QED
    BY <1>1, <2>1, <2>2, <2>3, <2>4, <2>5, <2>6, <2>7, <2>8 DEF Configure
<1>b. ASSUME UNCHANGED <<args, registered>>, Complete, pc' \notin Asking \cup {"check"}
      PROVE  ConfigInStep'
  BY <1>b, <1>a DEF ConfigInStep, Complete, Asking
<1>2. CASE Serve
  <2>1. /\ UNCHANGED <<args, registered>>
        /\ pc \notin Asking \cup {"check"} /\ pc' \notin Asking \cup {"check"}
    BY <1>2
       DEF Serve, BlockSignals, ConstructServer, StartThread, RestoreMask,
           BlockWait, SigWait, StopServer, Join, ReturnFromMain, Asking
  <2> QED BY <1>0, <1>b, <2>1 DEF ConfigInStep
<1>3. CASE UNCHANGED <<args, pc, config_errors, reported, registered, exit>>
  BY <1>0, <1>3, <1>a DEF ConfigInStep, Asked, Complete
<1>4. CASE RunSpawns \/ RunJoins \/ RunReturned \/ RunSpawnThrows
  BY <1>3, <1>4 DEF RunSpawns, RunJoins, RunReturned, RunSpawnThrows, main_vars
<1>5. ASSUME NEW i \in Io, PoolThreadReturns(i) \/ PoolThreadThrows(i)
      PROVE  ConfigInStep'
  BY <1>3, <1>5 DEF PoolThreadReturns, PoolThreadThrows, main_vars
<1>6. ASSUME NEW s \in Signals, Send(s) PROVE ConfigInStep'
  BY <1>3, <1>6 DEF Send
<1>7. CASE UNCHANGED vars
  BY <1>3, <1>7 DEF vars, main_vars
<1> QED BY <1>1, <1>2, <1>4, <1>5, <1>6, <1>7 DEF Next, Run, Over

-----------------------------------------------------------------------------
(* The masks.                                                               *)

\* A mask changes where a thread is created and where main changes its own.
LEMMA MasksStep == ASSUME MInv, [Next]_vars PROVE MasksInStep'
<1>0. TypeOK /\ MasksInStep /\ ThreadsInStep
  BY DEF MInv
<1>a. /\ MainThread \in Threads /\ RunThread \in Threads
      /\ Io \subseteq Threads
      /\ MainThread # RunThread /\ MainThread \notin Io /\ RunThread \notin Io
  BY PoolSizeAssumption DEF MainThread, RunThread, Threads, Io
<1>b. "none" \notin WaitSignals
  BY DEF WaitSignals
<1> USE DEF Goto, Exit, At, Running, MasksInStep, UNCHANGED_signals
<1>1. CASE Configure
  <2>1. /\ UNCHANGED <<run_thread, spawned, mask, killed_by>>
        /\ killed_by = "none"
        /\ pc' \in Asking \cup {"check", "block"}
    BY <1>1
       DEF Configure, ParseArguments, CommandOptions, ReadJson, CoreOptions, Fonts,
           Plugins, Directory, MaxExtent, CheckConfig, Asking, pool_vars
  <2> QED BY <1>0, <1>b, <2>1 DEF Asking, Serving
<1>2. CASE Serve
  <2> USE DEF Serving, pool_vars
  <2>1. CASE BlockSignals
    <3>1. run_thread = "none" /\ spawned = 0
      BY <1>0, <2>1 DEF BlockSignals, ThreadsInStep, Alone
    <3>2. mask'[MainThread] = Signals
      BY <1>0, <2>1, SetMaskTyped DEF BlockSignals
    <3> QED BY <1>0, <2>1, <3>1, <3>2 DEF BlockSignals, Io
  <2>2. CASE ConstructServer
    BY <1>0, <1>b, <2>2 DEF ConstructServer
  <2>3. CASE StartThread
    BY <1>0, <1>a, <1>b, <2>3 DEF StartThread, TypeOK
  <2>4. CASE RestoreMask
    BY <1>0, <1>a, <2>4, SetMaskTyped DEF RestoreMask, TypeOK
  <2>5. CASE BlockWait
    <3>1. mask[MainThread] \cup WaitSignals \in SUBSET Signals
      BY <1>0, <1>a, PosixMainAssumption DEF TypeOK
    <3>2. killed_by' \notin WaitSignals
      BY <1>0, <1>b, <2>5, <3>1, SetMaskTyped DEF BlockWait
    <3> QED BY <1>0, <1>a, <2>5, <3>1, <3>2, SetMaskTyped DEF BlockWait
  <2>6. CASE SigWait
    BY <1>0, <1>b, <2>6 DEF SigWait
  <2>7. CASE StopServer
    BY <1>0, <1>b, <2>7 DEF StopServer, StopNext
  <2>8. CASE Join \/ ReturnFromMain
    BY <1>0, <1>b, <2>8 DEF Join, ReturnFromMain
  <2> QED BY <1>2, <2>1, <2>2, <2>3, <2>4, <2>5, <2>6, <2>7, <2>8 DEF Serve
<1>3. CASE RunSpawns
  <2>1. /\ spawned \in Io /\ spawned' = spawned + 1
        /\ UNCHANGED <<pc, run_thread, killed_by>>
        /\ mask' = [mask EXCEPT ![spawned] = Signals]
    BY <1>0, <1>3, SpawnTyped DEF RunSpawns
  <2>2. mask'[MainThread] = mask[MainThread] /\ mask'[RunThread] = mask[RunThread]
    BY <1>0, <1>a, <2>1 DEF TypeOK
  <2>3. \A i \in Io : i < spawned' => mask'[i] = Signals
    BY <1>0, <1>a, <2>1 DEF TypeOK, Io
  <2> QED BY <1>0, <2>1, <2>2, <2>3
<1>4. CASE RunJoins \/ RunReturned \/ RunSpawnThrows
  BY <1>0, <1>4
     DEF RunJoins, RunReturned, RunSpawnThrows, JoinThread, SpawnThrows, main_vars,
         pool_vars
<1>5. ASSUME NEW i \in Io, PoolThreadReturns(i) \/ PoolThreadThrows(i)
      PROVE  MasksInStep'
  BY <1>0, <1>5
     DEF PoolThreadReturns, PoolThreadThrows, RunReturns, RunThrows, main_vars
<1>6. ASSUME NEW s \in Signals, Send(s) PROVE MasksInStep'
  <2>1. s \in WaitSignals /\ pc \in Serving =>
          \A t \in Threads : Exists(t) => s \in mask[t]
    BY <1>0, <1>6, PoolSizeAssumption
       DEF Exists, ThreadsInStep, Threads, MainThread, RunThread, TypeOK, Io
  <2> QED BY <1>0, <1>b, <1>6, <2>1 DEF Send, pool_vars
<1>7. CASE UNCHANGED vars
  BY <1>0, <1>7 DEF vars, main_vars, pool_vars
<1> QED BY <1>1, <1>2, <1>3, <1>4, <1>5, <1>6, <1>7 DEF Next, Run, Over

-----------------------------------------------------------------------------
(* The threads.                                                             *)

\* Threads are created and joined in order, and main keeps count of them.
LEMMA ThreadsStep == ASSUME MInv, [Next]_vars PROVE ThreadsInStep'
<1>0. TypeOK /\ ThreadsInStep
  BY DEF MInv
<1> USE DEF Goto, Exit, At, Running, ThreadsInStep, Alone, Asking
<1>1. CASE Configure
  BY <1>0, <1>1
     DEF Configure, ParseArguments, CommandOptions, ReadJson, CoreOptions, Fonts,
         Plugins, Directory, MaxExtent, CheckConfig, pool_vars
<1>2. CASE Serve
  BY <1>0, <1>2
     DEF Serve, BlockSignals, ConstructServer, StartThread, RestoreMask, BlockWait,
         SigWait, StopServer, StopNext, Join, ReturnFromMain, pool_vars
<1>3. CASE RunSpawns
  <2>1. /\ spawned \in Io /\ spawned' = spawned + 1
        /\ thread' = [thread EXCEPT ![spawned] = "running"]
        /\ UNCHANGED <<pc, run_thread, joined, exit>>
        /\ run_thread = "running"
    BY <1>0, <1>3, SpawnTyped DEF RunSpawns
  <2>2. \A i \in Io : thread'[i] = "none" <=> i >= spawned'
    <3> SUFFICES ASSUME NEW i \in Io PROVE thread'[i] = "none" <=> i >= spawned'
      OBVIOUS
    <3>1. thread[i] = "none" <=> i >= spawned
      BY <1>0
    <3>2. thread'[i] = IF i = spawned THEN "running" ELSE thread[i]
      BY <1>0, <2>1 DEF TypeOK
    <3>3. i >= spawned' <=> i >= spawned /\ i # spawned
      BY <2>1 DEF Io
    <3> QED BY <3>1, <3>2, <3>3
  <2>3. \A i \in Io : i < joined' => thread'[i] = "returned"
    <3> SUFFICES ASSUME NEW i \in Io, i < joined PROVE thread'[i] = "returned"
      BY <2>1
    <3>1. thread[i] = "returned"
      BY <1>0
    <3>2. i # spawned
      <4>1. thread[spawned] = "none"
        <5>1. spawned >= spawned
          BY <2>1 DEF Io
        <5> QED BY <1>0, <2>1, <5>1
      <4> QED BY <3>1, <4>1
    <3> QED BY <1>0, <2>1, <3>1, <3>2 DEF TypeOK
  <2> QED BY <1>0, <2>1, <2>2, <2>3
<1>4. CASE RunSpawnThrows
  BY <1>0, <1>4 DEF RunSpawnThrows, SpawnThrows, main_vars
<1>5. CASE RunJoins
  <2>1. /\ joined' = joined + 1 /\ thread[joined] = "returned"
        /\ UNCHANGED <<pc, run_thread, spawned, thread, exit>>
        /\ run_thread = "running"
    BY <1>5 DEF RunJoins, JoinThread, main_vars
  <2>2. \A i \in Io : i < joined' => thread'[i] = "returned"
    <3> SUFFICES ASSUME NEW i \in Io, i < joined + 1 PROVE thread[i] = "returned"
      BY <2>1
    <3>0. joined \in 0 .. PoolSize
      BY <1>0 DEF TypeOK
    <3>1. i < joined \/ i = joined
      BY <3>0, PoolSizeAssumption DEF Io
    <3> QED BY <1>0, <2>1, <3>1
  <2> QED BY <1>0, <2>1, <2>2
<1>6. CASE RunReturned
  BY <1>0, <1>6 DEF RunReturned, RunCompleted, pool_vars
<1>7. ASSUME NEW i \in Io, PoolThreadReturns(i) PROVE ThreadsInStep'
  BY <1>0, <1>7 DEF PoolThreadReturns, RunReturns, main_vars, TypeOK
<1>8. ASSUME NEW i \in Io, PoolThreadThrows(i) PROVE ThreadsInStep'
  BY <1>0, <1>8, PoolSizeAssumption
     DEF PoolThreadThrows, RunThrows, main_vars, TypeOK, Io
<1>9. ASSUME NEW s \in Signals, Send(s) PROVE ThreadsInStep'
  BY <1>0, <1>9 DEF Send, pool_vars
<1>10. CASE UNCHANGED vars
  BY <1>0, <1>10 DEF vars, main_vars, pool_vars
<1> QED
  BY <1>1, <1>2, <1>3, <1>4, <1>5, <1>6, <1>7, <1>8, <1>9, <1>10 DEF Next, Run, Over

-----------------------------------------------------------------------------
(* The theorems.                                                            *)

\* The invariant holds in every reachable state.
LEMMA Inductive == Spec => []MInv
<1>1. ASSUME MInv, [Next]_vars PROVE MInv'
  BY <1>1, TypeStep, ConfigStep, MasksStep, ThreadsStep DEF MInv
<1> QED BY InitMInv, <1>1, PTL DEF Spec

\* Type correctness of main and its threads.
THEOREM TypeCorrect == Spec => []TypeOK
BY Inductive, PTL DEF MInv

\* From the moment main waits for it, SIGINT, SIGQUIT or SIGTERM cannot kill the
\* process, and no thread of the server ever takes a signal.
THEOREM SignalsReachMain == Spec => []StopsInOrder
<1>1. MInv => StopsInOrder
  BY PoolSizeAssumption
     DEF MInv, MasksInStep, ThreadsInStep, StopsInOrder, Exists, Threads, MainThread,
         RunThread, Io, TypeOK
<1> QED BY Inductive, <1>1, PTL

\* No exit of main's own pulls the process from under a thread of the server.
THEOREM ThreadsAreJoined == Spec => []NoThreadLeftBehind
<1>1. MInv => NoThreadLeftBehind
  BY PoolSizeAssumption DEF MInv, ThreadsInStep, NoThreadLeftBehind, TypeOK, Io
<1> QED BY Inductive, <1>1, PTL

\* All that a configuration lacks is reported in one run.
THEOREM ReportIsComplete == Spec => []ReportsAll
<1>1. MInv => ReportsAll
  BY MissingOptions DEF MInv, ConfigInStep, ReportsAll
<1> QED BY Inductive, <1>1, PTL

\* No server is constructed on an incomplete configuration.
THEOREM ConfiguredInFull == Spec => []ServesOnlyConfigured
<1>1. MInv => ServesOnlyConfigured
  BY DEF MInv, ConfigInStep, ServesOnlyConfigured, Complete, FromFile, Serving, Asking
<1> QED BY Inductive, <1>1, PTL
=============================================================================
