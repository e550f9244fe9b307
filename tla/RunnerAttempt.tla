---------------------------- MODULE RunnerAttempt ----------------------------
(***************************************************************************)
(* One call of run_configured_runner after another: an executable runner   *)
(* is prepared, started, waited for or timed out, and its outcome becomes  *)
(* a RunnerResult.  Five runners do this in code of their own.             *)
(*                                                                         *)
(* The runner's processes are the one ALab starts (leader) and one it      *)
(* starts in turn (child), which may leave the process group, close its    *)
(* ends of the output pipes, or ignore SIGTERM.  Waiting for a process     *)
(* means waiting for its exit and for the end of file on the pipes.        *)
(***************************************************************************)
EXTENDS Naturals, FiniteSets

CONSTANT MaxAttempts    \* bound: calls of the runner

ASSUME RunnerConstants == MaxAttempts \in Nat \ {0}

VARIABLES
    kind,       \* runner.type of the attempt
    stage,      \* where run_configured_runner is
    attempts,   \* calls made so far
    pyEnv,      \* the cached Python environment the evaluator's dependencies need
    inputs,     \* what an image would be built from now
    images,     \* tags of the images in docker's store that ALab built
    leader,     \* the process ALab starts
    child,      \* a descendant of it
    container,  \* is a container up?
    exitCode,   \* of leader
    result      \* RunnerResult

runnerVars == <<kind, stage, attempts, pyEnv, inputs, images, leader, child, container, exitCode, result>>

\* own: the Dockerfile, the settings and the files that no line of
\* .dockerignore names.  nested: a file in a subdirectory; ignored: does a line
\* without a slash have its name?
Inputs == [own : {"a", "b"}, nested : {"a", "b"}, ignored : BOOLEAN]
DockerKinds == {"docker", "harbor", "skydiscover_docker"}
Kinds == {"local", "skydiscover_python"} \cup DockerKinds
Stages == {"idle", "setup", "install", "running", "terminated", "killed", "returned"}
ExitCodes == {0, 1, 125}
\* What the evaluator leaves where the reward is looked for: a number, none,
\* not a number, an integer too large for float(), bytes that are not UTF-8,
\* JSON that is not an object; or the reward is the exit code itself.
Outputs == {"reward", "none", "garbage", "huge", "undecodable", "no object"}
NoExit == 999
\* ignoresTerm: SIGTERM does not end it; late: it started after SIGTERM
NoChild == [state |-> "none", inGroup |-> FALSE, holdsPipe |-> FALSE, ignoresTerm |-> FALSE,
            late |-> FALSE]
Child == [state : {"none", "alive", "dead"}, inGroup : BOOLEAN,
          holdsPipe : BOOLEAN, ignoresTerm : BOOLEAN, late : BOOLEAN]
NoResult == [status |-> "none", parse |-> "none", exit |-> NoExit, output |-> "none"]
Result(status, parse, exit, output) ==
    [status |-> status, parse |-> parse, exit |-> exit, output |-> output]

---------------------------------------------------------------------------
(* From exit code and output to a result                                   *)

\* parse_reward: every exception is an invalid reward
Parsed(output) ==
    CASE output \in {"reward", "exit code"} -> "parsed" [] output = "none" -> "missing" [] OTHER -> "invalid"

StatusOfReward(exit, parse) ==    \* mutant: the exit code is not looked at
    IF parse = "parsed" THEN "passed" ELSE IF exit = 0 THEN "error" ELSE "failed"

LocalStatus(exit, parse) ==
    IF exit # 0 THEN "failed" ELSE IF parse = "parsed" THEN "passed" ELSE "error"

\* 125 is docker's own failure
DockerStatus(exit, parse) == IF exit = 125 THEN "error" ELSE LocalStatus(exit, parse)

Measured(status, exit, output) == Result(status, Parsed(output), exit, output)

\* _parse_harbor_reward: float() of a huge integer raises where nothing catches it
HarborOutcome(exit, output) ==
    IF output = "huge" THEN Result("raised", "none", exit, output)
    ELSE Measured(LocalStatus(exit, Parsed(output)), exit, output)

\* The output is JSON on stdout; only JSONDecodeError is caught.
SkyDockerOutcome(exit, output) ==
    IF exit # 0 THEN Result("error", "not_attempted", exit, output)
    ELSE CASE output \in {"undecodable", "huge"} -> Result("raised", "none", exit, output)
           [] output = "garbage" -> Result("error", "error", exit, output)
           [] output \in {"none", "no object"} -> Result("error", "missing", exit, output)
           [] output = "reward" -> Result("passed", "parsed", exit, output)

\* The same in an envelope, decoded and taken for an object before the exit
\* code is looked at; it may say that the evaluator raised ("not ok").
SkyPythonOutcome(exit, output) ==
    CASE output \in {"undecodable", "no object"} -> Result("raised", "none", exit, output)
      [] output = "garbage" -> Result("error", "error", exit, output)
      [] output = "not ok" -> Result("error", "not_attempted", exit, output)
      [] OTHER -> SkyDockerOutcome(exit, output)

RunnerOutcome(exit, output) ==
    CASE kind = "local" -> Measured(LocalStatus(exit, Parsed(output)), exit, output)
      [] kind = "docker" -> Measured(DockerStatus(exit, Parsed(output)), exit, output)
      [] kind = "harbor" -> HarborOutcome(exit, output)
      [] kind = "skydiscover_docker" -> SkyDockerOutcome(exit, output)
      [] kind = "skydiscover_python" -> SkyPythonOutcome(exit, output)

OutputsOf == Outputs \cup (CASE kind \in {"local", "docker"} -> {"exit code"}
                             [] kind = "skydiscover_python" -> {"not ok"}
                             [] OTHER -> {})

---------------------------------------------------------------------------
(* Preparing                                                               *)

RunnerInit ==
    /\ kind = "local"
    /\ stage = "idle" /\ attempts = 0
    /\ pyEnv = "absent" /\ inputs = [own |-> "a", nested |-> "a", ignored |-> FALSE]
    /\ images = {}
    /\ leader = "none" /\ child = NoChild /\ container = FALSE
    /\ exitCode = NoExit /\ result = NoResult

Return(r) == stage' = "returned" /\ result' = r

SetupError == Result("error", "not_attempted", NoExit, "none")

Call(k) ==
    /\ stage = "idle" /\ attempts < MaxAttempts
    /\ kind' = k /\ stage' = "setup" /\ attempts' = attempts + 1
    /\ UNCHANGED <<pyEnv, inputs, images, leader, child, container, exitCode, result>>

\* A missing working directory, an unresolvable task, docker or uv not
\* installed, a failed pull or build are results.
SetupFails ==
    /\ stage = "setup" /\ Return(SetupError)
    /\ UNCHANGED <<kind, attempts, pyEnv, inputs, images, leader, child, container, exitCode>>

\* A program that is missing, a working directory outside the workspace (of a
\* docker runner, looked at after the build) and a full disk are exceptions.
SetupRaises ==
    /\ stage = "setup" /\ Return(Result("raised", "none", NoExit, "none"))
    /\ UNCHANGED <<kind, attempts, pyEnv, inputs, images, leader, child, container, exitCode>>

\* _prepare_skydiscover_python_env: an interpreter in place is a cache hit; a
\* directory without one is removed; dependencies are installed afterwards.
CreateVenv ==
    /\ stage = "setup" /\ kind = "skydiscover_python" /\ pyEnv = "absent"
    /\ \/ pyEnv' = "interpreter" /\ stage' = "install" /\ UNCHANGED result
       \/ UNCHANGED pyEnv /\ Return(SetupError)
    /\ UNCHANGED <<kind, attempts, inputs, images, leader, child, container, exitCode>>

InstallDependencies ==
    /\ stage = "install"
    /\ \/ pyEnv' = "complete" /\ stage' = "setup" /\ UNCHANGED result
       \/ UNCHANGED pyEnv /\ Return(SetupError)    \* failed, or timed out
    /\ UNCHANGED <<kind, attempts, inputs, images, leader, child, container, exitCode>>

Launch ==
    /\ stage = "setup" /\ kind \notin DockerKinds
    /\ kind = "skydiscover_python" => pyEnv # "absent"
    /\ leader' = "alive" /\ stage' = "running"
    /\ UNCHANGED <<kind, attempts, pyEnv, inputs, images, child, container, exitCode, result>>

\* The client and the container, which --rm removes when it exits.
LaunchContainer ==
    /\ leader' = "alive" /\ container' = TRUE /\ stage' = "running"
    /\ UNCHANGED <<kind, attempts, pyEnv, inputs, images, child, exitCode, result>>

\* An image that is named is inspected, and pulled if it is missing.
LaunchNamed ==
    /\ stage = "setup" /\ kind \in {"docker", "harbor"}
    /\ LaunchContainer

\* The hash reads .dockerignore, whose text is in it, like a .gitignore: a name
\* without a slash is left out at any depth.  (Docker, which gets the whole
\* context, leaves it out at the top only.)
Hashed(i) == [i EXCEPT !.nested = IF i.ignored THEN "left out" ELSE @]

\* Each runner hashes the same things under a prefix of its own.
DockerKey(i) == <<"docker", Hashed(i)>>
HarborKey(i) == <<"harbor", Hashed(i)>>
SkyDiscoverKey(i) == <<"skydiscover_docker", Hashed(i)>>

CacheKey(k, i) == CASE k = "docker" -> DockerKey(i)
                    [] k = "harbor" -> HarborKey(i)
                    [] k = "skydiscover_docker" -> SkyDiscoverKey(i)

Tags == {CacheKey(k, i) : k \in DockerKinds, i \in Inputs}

Cached == CacheKey(kind, inputs) \in images

\* One that is built is tagged with its cache key and found by it, the next
\* time too; what comes after the build may fail.
BuildImage ==
    /\ stage = "setup" /\ kind \in DockerKinds
    /\ ~Cached
    /\ images' = images \cup {CacheKey(kind, inputs)}
    /\ UNCHANGED <<kind, stage, attempts, pyEnv, inputs, leader, child, container,
                   exitCode, result>>

LaunchBuilt ==
    /\ stage = "setup" /\ kind \in DockerKinds
    /\ Cached /\ LaunchContainer

---------------------------------------------------------------------------
(* Running                                                                 *)

ProcessKinds == {"local", "skydiscover_python"}

\* The leader starts a process, or a descendant starts one and exits; also
\* between SIGTERM and SIGKILL.  Only the local runner makes its process a
\* group leader; a descendant of the Python evaluator is in ALab's own group,
\* which is never signalled.  bound: one descendant at a time
Fork(c) ==
    /\ stage \in {"running", "terminated", "killed"} /\ kind \in ProcessKinds
    /\ \/ leader = "alive" /\ child.state # "alive" /\ (c.inGroup => kind = "local")
       \/ child.state = "alive" /\ (c.inGroup => child.inGroup) /\ (c.holdsPipe => child.holdsPipe)
    /\ c.state = "alive" /\ c.late = (stage # "running")
    /\ child' = c
    /\ UNCHANGED <<kind, stage, attempts, pyEnv, inputs, images, leader, container, exitCode, result>>

\* A docker client that is killed or loses its daemon ends with a failure and
\* leaves the container up.
LeaderExits(code) ==
    /\ stage \in {"running", "terminated"} /\ leader = "alive"
    /\ leader' = "dead" /\ exitCode' = code
    /\ container' \in IF code = 0 THEN {FALSE} ELSE {FALSE, container}
    /\ UNCHANGED <<kind, stage, attempts, pyEnv, inputs, images, child, result>>

ChildExits ==
    /\ child.state = "alive"
    /\ child' = [child EXCEPT !.state = "dead"]
    /\ UNCHANGED <<kind, stage, attempts, pyEnv, inputs, images, leader, container, exitCode, result>>

\* communicate() returns: the process has exited and nobody holds its pipes.
Drained == leader = "dead" /\ ~(child.state = "alive" /\ child.holdsPipe)

Completes(output) ==
    /\ stage = "running" /\ Drained
    /\ Return(RunnerOutcome(exitCode, output))
    /\ UNCHANGED <<kind, attempts, pyEnv, inputs, images, leader, child, container, exitCode>>

---------------------------------------------------------------------------
(* Timing out                                                              *)

TimedOutWithCode == Result("timeout", "not_attempted", exitCode, "none")    \* mutant
TimedOut == Result("timeout", "not_attempted", NoExit, "none")

\* Mutant: the leader is signalled, not its group.
TerminateLeader ==
    /\ stage = "running" /\ kind = "local" /\ ~Drained
    /\ leader' \in {leader, "dead"}
    /\ stage' = "terminated"
    /\ UNCHANGED <<kind, attempts, pyEnv, inputs, images, child, container, exitCode, result>>

\* _terminate_local_process_group: SIGTERM, two seconds, SIGKILL, wait
Terminate ==
    /\ stage = "running" /\ kind = "local" /\ ~Drained
    /\ leader' \in {leader, "dead"}    \* it may ignore SIGTERM
    /\ child' = IF child.inGroup /\ ~child.ignoresTerm
                THEN [child EXCEPT !.state = "dead"] ELSE child
    /\ stage' = "terminated"
    /\ UNCHANGED <<kind, attempts, pyEnv, inputs, images, container, exitCode, result>>

Kill ==
    /\ stage = "terminated" /\ ~Drained
    /\ leader' = "dead"
    /\ child' = IF child.inGroup THEN [child EXCEPT !.state = "dead"] ELSE child
    /\ stage' = "killed"
    /\ UNCHANGED <<kind, attempts, pyEnv, inputs, images, container, exitCode, result>>

ReturnTimeout ==
    /\ stage \in {"terminated", "killed"} /\ Drained
    /\ Return(TimedOut)
    /\ UNCHANGED <<kind, attempts, pyEnv, inputs, images, leader, child, container, exitCode>>

\* subprocess.run kills the process it started, and that one only.
EvaluatorTimesOut ==
    /\ stage = "running" /\ kind = "skydiscover_python" /\ ~Drained
    /\ leader' = "dead"
    /\ Return(TimedOut)
    /\ UNCHANGED <<kind, attempts, pyEnv, inputs, images, child, container, exitCode>>

\* The docker client is killed, then the container removed; a failure to
\* remove it is swallowed.
ContainerTimesOut ==
    /\ stage = "running" /\ kind \in DockerKinds /\ ~Drained
    /\ leader' = "dead"
    /\ container' \in {FALSE, container}
    /\ Return(TimedOut)
    /\ UNCHANGED <<kind, attempts, pyEnv, inputs, images, child, exitCode>>

\* The caller is done with the result, or ALab is killed: the next call finds
\* the caches as they are.
Again ==
    /\ stage # "idle"
    /\ stage' = "idle"
    /\ leader' = "none" /\ child' = NoChild /\ container' = FALSE
    /\ exitCode' = NoExit /\ result' = NoResult
    /\ UNCHANGED <<kind, attempts, pyEnv, inputs, images>>

\* Another submission, or another config version: a workspace is a clone of
\* its own, and nothing changes while a runner uses it.
OtherInputs(i) ==
    /\ stage = "idle" /\ inputs' = i
    /\ UNCHANGED <<kind, stage, attempts, pyEnv, images, leader, child, container,
                   exitCode, result>>

\* cache prune: one entry, by prune_docker_image or with its directory.
PruneEnvironment ==
    /\ stage = "idle" /\ pyEnv' = "absent"
    /\ UNCHANGED <<kind, stage, attempts, inputs, images, leader, child, container,
                   exitCode, result>>

PruneImage(tag) ==
    /\ stage = "idle" /\ images' = images \ {tag}
    /\ UNCHANGED <<kind, stage, attempts, pyEnv, inputs, leader, child, container, exitCode, result>>

RunnerNext ==
    \/ \E k \in Kinds : Call(k)
    \/ SetupFails \/ SetupRaises \/ CreateVenv \/ InstallDependencies
    \/ Launch \/ LaunchNamed \/ BuildImage \/ LaunchBuilt
    \/ \E c \in Child : Fork(c)
    \/ \E code \in ExitCodes : LeaderExits(code)
    \/ ChildExits
    \/ \E output \in OutputsOf : Completes(output)
    \/ Terminate \/ Kill \/ ReturnTimeout \/ EvaluatorTimesOut \/ ContainerTimesOut
    \/ Again
    \/ \E i \in Inputs : OtherInputs(i)
    \/ PruneEnvironment \/ \E tag \in images : PruneImage(tag)

RunnerSpec == RunnerInit /\ [][RunnerNext]_runnerVars

---------------------------------------------------------------------------
(* Properties                                                              *)

\* A result is one the services can store: only a runner that returned has
\* one, exit codes and parse statuses go with the statuses they can go with.
RunnerTypeOK ==
    /\ kind \in Kinds /\ stage \in Stages /\ attempts \in 0..MaxAttempts
    /\ pyEnv \in {"absent", "interpreter", "complete"} /\ inputs \in Inputs
    /\ images \subseteq Tags
    /\ leader \in {"none", "alive", "dead"} /\ child \in Child /\ container \in BOOLEAN
    /\ exitCode \in ExitCodes \cup {NoExit}
    /\ result.status \in {"none", "passed", "failed", "error", "timeout", "raised"}
    /\ result.status = "none" <=> stage # "returned"
    /\ result.status \in {"passed", "failed"} => result.exit \in ExitCodes
    /\ result.status = "timeout" => result.exit = NoExit /\ result.parse = "not_attempted"

\* What may outlive a runner that returned.  ALab's own child never does.  A
\* descendant does if it holds no pipe and was not killed: it ran on after a
\* normal exit, left the group, or ignored SIGTERM, or was started after it,
\* while everybody else was gone within the two seconds; or it belongs to an
\* evaluator that timed out.  A container does only when docker rm failed after
\* a timeout, or the docker client failed.
SurvivorsExplained ==
    stage = "returned" =>
        /\ leader # "alive"
        /\ container => kind \in DockerKinds /\ (result.status = "timeout" \/ exitCode # 0)
        /\ child.state = "alive" =>
              \/ kind = "skydiscover_python" /\ result.status = "timeout"
              \/ ~child.holdsPipe /\ (\/ result.status # "timeout"
                                      \/ ~child.inGroup
                                      \/ child.ignoresTerm \/ child.late)

\* Whatever the runner, a passed result was measured: the process exited with
\* 0, a reward was found, and a container that timed out, docker's own
\* failures and output that cannot be read never pass.
PassedIsMeasured ==
    result.status = "passed" =>
        /\ exitCode = 0 /\ result.exit = 0 /\ leader = "dead" /\ ~container
        /\ result.parse = "parsed" /\ result.output \in {"reward", "exit code"}

=============================================================================
