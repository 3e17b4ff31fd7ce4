------------------------------- MODULE IbfRun -------------------------------
(***************************************************************************)
(* The interactive launcher ibfrun, src/bluefog/run/interactive_run.py:    *)
(* parse_args() and main().  An invocation checks its arguments and its    *)
(* environment, and on one machine starts an ipcontroller in the           *)
(* background, sleeps, runs `bfrun -np N ipengine <command>` in the        *)
(* foreground, and exits with status 0.                                    *)
(*                                                                         *)
(* `ibfrun start` stays in the foreground for as long as its engines run,  *)
(* so `ibfrun stop` is a second invocation on the same machine: the module *)
(* runs several invocations side by side over the processes they start.    *)
(* ipcluster, ipcontroller, ipengine and bfrun are other programs; they    *)
(* are the environment of the model and do whatever a process can do (come *)
(* up, exit, return with some status, or never return).                    *)
(*                                                                         *)
(* Of the arguments the model keeps what main() branches on.  A command    *)
(* line is a sequence of words; the host arguments are abstracted to       *)
(* whether network_util.filter_local_addresses leaves a remote host.       *)
(***************************************************************************)
EXTENDS Integers, Sequences

CONSTANTS
    Invocation,     \* the ibfrun processes the user starts
    Args,           \* the argument records they can be started with
    None            \* the value of an argument that is not given

ASSUME \A a \in Args :
          /\ a.version \in BOOLEAN     \* -v given
          /\ a.np \in Int \cup {None} \* -np, type=int and no default
          /\ a.command \in Seq(STRING) \* the REMAINDER words
          /\ a.remote \in BOOLEAN      \* -H / -hostfile names a remote host

VARIABLES
    args,        \* [Invocation -> Args]
    openMpi,     \* env_util.is_open_mpi_installed()
    ipyparallel, \* env_util.is_ipyparallel_installed()
    pc,          \* [Invocation -> label]: the statement each is about to run
    status,      \* [Invocation -> "running" | "exit 0" | "exit 2" | an exception]
    nbextension, \* [Invocation -> "none" | "running" | "returned"]: ipcluster
    controller,  \* [Invocation -> "none" | "spawned" | "listening" | "exited"]
    engines      \* [Invocation -> "none" | "running" | "returned"]

vars == <<args, openMpi, ipyparallel, pc, status, nbextension, controller, engines>>

Labels ==
    {"parse_args", "version", "open_mpi", "ipyparallel", "command", "hosts",
     "nbextension", "popen", "sleep", "run", "wait", "end"}

Statuses == {"running", "exit 0", "exit 2", "Exception", "ValueError", "RuntimeError"}

TypeOK ==
    /\ args \in [Invocation -> Args]
    /\ openMpi \in BOOLEAN
    /\ ipyparallel \in BOOLEAN
    /\ pc \in [Invocation -> Labels]
    /\ status \in [Invocation -> Statuses]
    /\ nbextension \in [Invocation -> {"none", "running", "returned"}]
    /\ controller \in [Invocation -> {"none", "spawned", "listening", "exited"}]
    /\ engines \in [Invocation -> {"none", "running", "returned"}]

Init ==
    /\ args \in [Invocation -> Args]
    /\ openMpi \in BOOLEAN
    /\ ipyparallel \in BOOLEAN
    /\ pc = [i \in Invocation |-> "parse_args"]
    /\ status = [i \in Invocation |-> "running"]
    /\ nbextension = [i \in Invocation |-> "none"]
    /\ controller = [i \in Invocation |-> "none"]
    /\ engines = [i \in Invocation |-> "none"]

-----------------------------------------------------------------------------
(* The statements of one invocation *)

Goto(i, label) ==
    /\ pc' = [pc EXCEPT ![i] = label]
    /\ UNCHANGED status

\* exit(n), parser.error(...) or an uncaught exception: the process ends.
\* The children it has started are not waited for.
End(i, how) ==
    /\ pc' = [pc EXCEPT ![i] = "end"]
    /\ status' = [status EXCEPT ![i] = how]

\* What main() accepts as the last command.
IsStartOrStop(command) ==
    Len(command) = 1 /\ command[1] \in {"start", "stop"}

\* What an invocation is given, and what it has started.
given == <<args, openMpi, ipyparallel>>
started == <<nbextension, controller, engines>>

\* The statement at `at` starts nothing and goes on at `next`.
Passes(i, at, next) ==
    /\ pc[i] = at
    /\ Goto(i, next)
    /\ UNCHANGED <<given, started>>

\* The statement at `at` ends the process with `how`.
Ends(i, at, how) ==
    /\ pc[i] = at
    /\ End(i, how)
    /\ UNCHANGED <<given, started>>

\* The statement at `at` goes on at `next` if `ok` holds, and ends the
\* process with `how` if not.
Check(i, at, ok, next, how) ==
    IF ok THEN Passes(i, at, next) ELSE Ends(i, at, how)

\* `parsed_args.np is None`: true only of an -np that is not given.
NpIsNone(np) == np = None

\* `not parsed_args.np`: true of an -np that is not given, and of -np 0.
NoNp(np) == np \in {None, 0}

\* The usage error ends the process with status 1.
ParseArgsExitOne(i) ==
    Check(i, "parse_args", args[i].version \/ ~NoNp(args[i].np), "version", "exit 1")

\* parse_args(): -np is required unless -v is given.
ParseArgs(i) ==
    Check(i, "parse_args", args[i].version \/ ~NoNp(args[i].np), "version", "exit 2")

\* if args.version: print(bluefog.__version__); exit(0)
Version(i) == Check(i, "version", ~args[i].version, "open_mpi", "exit 0")

\* The host lists are computed, then: if not env_util.is_open_mpi_installed()
CheckOpenMpi(i) == Check(i, "open_mpi", openMpi, "ipyparallel", "Exception")

\* The check of lines 111-115 is left out.
CheckIpyparallelSkipped(i) == Passes(i, "ipyparallel", "command")

\* if not env_util.is_ipyparallel_installed()
CheckIpyparallel(i) == Check(i, "ipyparallel", ipyparallel, "command", "Exception")

\* The environment of the children is prepared, then the command is checked.
CheckCommand(i) ==
    Check(i, "command", IsStartOrStop(args[i].command), "hosts", "ValueError")

\* if not remote_host_names: the commands are built, and `start` first sets
\* the controller up.  With a remote host the RuntimeError of line 146 is
\* raised; the statements after it are never run.
Hosts(i) ==
    Check(i, "hosts", ~args[i].remote,
          IF args[i].command = <<"start">> THEN "nbextension" ELSE "run",
          "RuntimeError")

\* subprocess.run('ipcluster nbextension enable --user'): ipcluster is
\* started ...
EnableNbextension(i) ==
    /\ pc[i] = "nbextension"
    /\ nbextension' = [nbextension EXCEPT ![i] = "running"]
    /\ Goto(i, "popen")
    /\ UNCHANGED <<given, controller, engines>>

\* ... and waited for, its return code not looked at; then
\* subprocess.Popen(ipcontroller_command): started and not waited for.
PopenController(i) ==
    /\ pc[i] = "popen"
    /\ nbextension[i] = "returned"
    /\ controller' = [controller EXCEPT ![i] = "spawned"]
    /\ Goto(i, "sleep")
    /\ UNCHANGED <<given, nbextension, engines>>

\* time.sleep(3): returns after three seconds, whatever the controller does.
Sleep(i) == Passes(i, "sleep", "run")

\* subprocess.run(ipengine_command): bfrun is started ...
RunEngines(i) ==
    /\ pc[i] = "run"
    /\ engines' = [engines EXCEPT ![i] = "running"]
    /\ Goto(i, "wait")
    /\ UNCHANGED <<given, nbextension, controller>>

\* ... and waited for; then exit(0), whatever bfrun returned.
Exit(i) == engines[i] = "returned" /\ Ends(i, "wait", "exit 0")

Main(i) ==
    \/ ParseArgs(i) \/ Version(i)
    \/ CheckOpenMpi(i) \/ CheckIpyparallel(i) \/ CheckCommand(i) \/ Hosts(i)
    \/ EnableNbextension(i) \/ PopenController(i) \/ Sleep(i)
    \/ RunEngines(i) \/ Exit(i)

-----------------------------------------------------------------------------
(* The environment: the processes an invocation has started *)

\* The controller finishes its start-up and accepts engines.
ControllerListens(i) ==
    /\ controller[i] = "spawned"
    /\ controller' = [controller EXCEPT ![i] = "listening"]
    /\ UNCHANGED <<given, pc, status, nbextension, engines>>

\* The controller ends by itself (it fails to start, or the user kills it).
ControllerExits(i) ==
    /\ controller[i] \in {"spawned", "listening"}
    /\ controller' = [controller EXCEPT ![i] = "exited"]
    /\ UNCHANGED <<given, pc, status, nbextension, engines>>

\* ipcluster returns, with any status.
NbextensionReturns(i) ==
    /\ nbextension[i] = "running"
    /\ nbextension' = [nbextension EXCEPT ![i] = "returned"]
    /\ UNCHANGED <<given, pc, status, controller, engines>>

\* bfrun returns, with any status.
EnginesReturn(i) ==
    /\ engines[i] = "running"
    /\ engines' = [engines EXCEPT ![i] = "returned"]
    /\ UNCHANGED <<given, pc, status, nbextension, controller>>

Environment(i) ==
    \/ NbextensionReturns(i) \/ ControllerListens(i) \/ ControllerExits(i)
    \/ EnginesReturn(i)

Next == \E i \in Invocation : Main(i) \/ Environment(i)

\* Nothing is assumed of the environment: ipcluster and bfrun may never
\* return, and a controller may never come up.
Spec == Init /\ [][Next]_vars

-----------------------------------------------------------------------------
(* Properties *)

\* The arguments and the environment with which main() reaches the local
\* launch of lines 124-142.
Launchable(a) ==
    /\ ~a.version
    /\ ~NoNp(a.np)
    /\ openMpi
    /\ ipyparallel
    /\ a.command \in {<<"start">>, <<"stop">>}
    /\ ~a.remote

\* The status an invocation ends with is decided by its arguments and the
\* environment, in the order main() looks at them: -v exits 0 whatever else
\* is wrong; -np 0 is refused as if -np were missing, and any other count,
\* a negative one included, is taken; a missing Open MPI or ipyparallel is reported before a bad
\* command, a bad command before a remote host; and exit(0) without -v
\* means that bfrun was run and has returned.
StatusFollowsArguments ==
    \A i \in Invocation :
        LET a == args[i] IN
        pc[i] = "end" =>
            /\ status[i] = "exit 2" <=> ~a.version /\ a.np \in {None, 0}
            /\ status[i] = "exit 0" <=> a.version \/ Launchable(a)
            /\ status[i] = "exit 0" /\ ~a.version => engines[i] = "returned"
            /\ status[i] = "ValueError" => openMpi /\ ipyparallel
            /\ status[i] = "RuntimeError" =>
                  a.remote /\ a.command \in {<<"start">>, <<"stop">>}

\* No process is started by an invocation that main() should have refused:
\* the checks of lines 84-122 and the branch of line 124 all come before
\* the first subprocess call, only `start` sets a controller up, and it
\* does so when ipcluster has returned (subprocess.run, line 135, waits;
\* subprocess.Popen, line 137, does not).
NothingStartedUnchecked ==
    \A i \in Invocation :
        /\ engines[i] # "none" => Launchable(args[i])
        /\ nbextension[i] # "none" =>
              Launchable(args[i]) /\ args[i].command = <<"start">>
        /\ controller[i] # "none" => nbextension[i] = "returned"

\* `ibfrun stop` stops what `ibfrun start` has started: once a stop has
\* exited with status 0, no controller is left running.
StopLeavesNoController ==
    \A i, j \in Invocation :
        (pc[i] = "end" /\ status[i] = "exit 0" /\ args[i].command = <<"stop">>
            /\ ~args[i].version)
        => controller[j] \notin {"spawned", "listening"}

=============================================================================
