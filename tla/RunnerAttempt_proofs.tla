------------------------ MODULE RunnerAttempt_proofs ------------------------
(***************************************************************************)
(* For any number of attempts: results are well formed, what outlives a    *)
(* runner is explained, and a passed run was measured.                     *)
(***************************************************************************)
EXTENDS RunnerAttempt, TLAPS

\* Nothing runs before a launch, and what was launched is forgotten after it.
NothingStarted ==
    stage \in {"idle", "setup", "install"} =>
        /\ leader = "none" /\ child = NoChild /\ ~container
        /\ exitCode = NoExit

\* Who may have a container, a child, and which children are in the group.
Belongings ==
    /\ container => kind \in DockerKinds
    /\ child # NoChild => kind \in ProcessKinds
    /\ child.inGroup => kind = "local"
    /\ stage \in {"terminated", "killed"} => kind = "local"
    /\ stage = "install" => kind = "skydiscover_python"

\* While the runner waits: an exited leader has its code, and no container if
\* that is 0; of the group of a leader that was terminated, only what SIGTERM
\* does not end or did not meet lives on.
Waiting ==
    /\ stage = "running" => leader \in {"alive", "dead"}
    /\ stage = "running" /\ leader = "dead" => exitCode \in ExitCodes /\ (exitCode = 0 => ~container)
    /\ stage \in {"terminated", "killed"} /\ child.state = "alive" =>
          ~child.inGroup \/ child.ignoresTerm \/ child.late

RunnerInv ==
    /\ RunnerTypeOK /\ NothingStarted /\ Belongings /\ Waiting
    /\ SurvivorsExplained /\ PassedIsMeasured

\* The first call finds nothing.
LEMMA RunnerInitInv == RunnerInit => RunnerInv
<1> SUFFICES ASSUME RunnerInit PROVE RunnerInv
  OBVIOUS
<1> USE DEF RunnerInit
<1>1. NoChild \in Child /\ NoChild.state = "none" /\ ~NoChild.inGroup
  BY DEF NoChild, Child
<1>2. RunnerTypeOK
  <2>1. attempts \in 0..MaxAttempts
    BY RunnerConstants
  <2>2. inputs \in Inputs
    BY DEF Inputs
  <2>3. result.status = "none"
    BY DEF NoResult
  <2>4. QED
    BY <1>1, <2>1, <2>2, <2>3 DEF RunnerTypeOK, Kinds, Stages
<1>3. NothingStarted /\ Belongings /\ Waiting
  BY <1>1 DEF NothingStarted, Belongings, Waiting
<1>4. SurvivorsExplained /\ PassedIsMeasured
  BY DEF SurvivorsExplained, PassedIsMeasured, NoResult
<1>5. QED
  BY <1>2, <1>3, <1>4 DEF RunnerInv

\* A call starts from idle, where nothing runs.
LEMMA CallKeeps == ASSUME RunnerInv, NEW k \in Kinds, Call(k) PROVE RunnerInv'
<1> USE DEF Call, RunnerInv
<1>1. RunnerTypeOK'
  BY RunnerConstants DEF RunnerTypeOK, Stages
<1>2. NothingStarted' /\ Belongings' /\ Waiting'
  BY DEF NothingStarted, Belongings, Waiting, ProcessKinds, DockerKinds, Kinds, NoChild, Child
<1>3. SurvivorsExplained' /\ PassedIsMeasured'
  BY DEF RunnerTypeOK, NothingStarted, SurvivorsExplained, PassedIsMeasured
<1>4. QED
  BY <1>1, <1>2, <1>3

\* Setup that fails returns an error that was not measured, with nothing started.
LEMMA SetupFailsKeeps == ASSUME RunnerInv, SetupFails PROVE RunnerInv'
<1> USE DEF SetupFails, Return, SetupError, Result, RunnerInv
<1>1. RunnerTypeOK'
  BY DEF RunnerTypeOK, Stages
<1>2. NothingStarted' /\ Belongings' /\ Waiting'
  BY DEF NothingStarted, Belongings, Waiting
<1>3. SurvivorsExplained' /\ PassedIsMeasured'
  BY DEF RunnerTypeOK, NothingStarted, SurvivorsExplained, PassedIsMeasured, NoChild
<1>4. QED
  BY <1>1, <1>2, <1>3

\* Setup that raises returns nothing that could pass.
LEMMA SetupRaisesKeeps == ASSUME RunnerInv, SetupRaises PROVE RunnerInv'
<1> USE DEF SetupRaises, Return, SetupError, Result, RunnerInv
<1>1. RunnerTypeOK'
  BY DEF RunnerTypeOK, Stages
<1>2. NothingStarted' /\ Belongings' /\ Waiting'
  BY DEF NothingStarted, Belongings, Waiting
<1>3. SurvivorsExplained' /\ PassedIsMeasured'
  BY DEF RunnerTypeOK, NothingStarted, SurvivorsExplained, PassedIsMeasured, NoChild
<1>4. QED
  BY <1>1, <1>2, <1>3

\* A new environment, or an error result; nothing started.
LEMMA CreateVenvKeeps == ASSUME RunnerInv, CreateVenv PROVE RunnerInv'
<1> USE DEF CreateVenv, Return, SetupError, Result, RunnerInv
<1>1. RunnerTypeOK'
  BY DEF RunnerTypeOK, Stages
<1>2. NothingStarted' /\ Belongings' /\ Waiting'
  BY DEF NothingStarted, Belongings, Waiting
<1>3. SurvivorsExplained' /\ PassedIsMeasured'
  BY DEF RunnerTypeOK, NothingStarted, SurvivorsExplained, PassedIsMeasured, NoChild
<1>4. QED
  BY <1>1, <1>2, <1>3

\* Installed, or an error result; nothing started.
LEMMA InstallDependenciesKeeps == ASSUME RunnerInv, InstallDependencies PROVE RunnerInv'
<1> USE DEF InstallDependencies, Return, SetupError, Result, RunnerInv
<1>1. RunnerTypeOK'
  BY DEF RunnerTypeOK, Stages
<1>2. NothingStarted' /\ Belongings' /\ Waiting'
  BY DEF NothingStarted, Belongings, Waiting
<1>3. SurvivorsExplained' /\ PassedIsMeasured'
  BY DEF RunnerTypeOK, NothingStarted, SurvivorsExplained, PassedIsMeasured, NoChild
<1>4. QED
  BY <1>1, <1>2, <1>3

\* The leader starts, without a container.
LEMMA LaunchKeeps == ASSUME RunnerInv, Launch PROVE RunnerInv'
<1> USE DEF Launch, RunnerInv
<1>1. RunnerTypeOK'
  BY DEF RunnerTypeOK, Stages
<1>2. NothingStarted' /\ Belongings' /\ Waiting'
  BY DEF NothingStarted, Belongings, Waiting
<1>3. SurvivorsExplained' /\ PassedIsMeasured'
  BY DEF RunnerTypeOK, NothingStarted, SurvivorsExplained, PassedIsMeasured
<1>4. QED
  BY <1>1, <1>2, <1>3

\* A container of an image that ALab did not build.
LEMMA LaunchNamedKeeps == ASSUME RunnerInv, LaunchNamed PROVE RunnerInv'
<1> USE DEF LaunchNamed, LaunchContainer, RunnerInv
<1>1. RunnerTypeOK'
  BY DEF RunnerTypeOK, Stages
<1>2. NothingStarted' /\ Belongings' /\ Waiting'
  BY DEF NothingStarted, Belongings, Waiting, DockerKinds
<1>3. SurvivorsExplained' /\ PassedIsMeasured'
  BY DEF RunnerTypeOK, NothingStarted, SurvivorsExplained, PassedIsMeasured
<1>4. QED
  BY <1>1, <1>2, <1>3

\* One image more, under the key of the inputs there are now.
LEMMA BuildImageKeeps == ASSUME RunnerInv, BuildImage PROVE RunnerInv'
<1> USE DEF BuildImage, RunnerInv
<1>1. RunnerTypeOK'
  <2>1. CacheKey(kind, inputs) \in Tags
    BY DEF RunnerTypeOK, Tags
  <2>2. QED
    BY <2>1 DEF RunnerTypeOK, Stages
<1>2. NothingStarted' /\ Belongings' /\ Waiting'
  BY DEF NothingStarted, Belongings, Waiting
<1>3. SurvivorsExplained' /\ PassedIsMeasured'
  BY DEF RunnerTypeOK, NothingStarted, SurvivorsExplained, PassedIsMeasured
<1>4. QED
  BY <1>1, <1>2, <1>3

\* A child of a runner that has processes.
LEMMA ForkKeeps == ASSUME RunnerInv, NEW c \in Child, Fork(c) PROVE RunnerInv'
<1> USE DEF Fork, RunnerInv
<1>1. RunnerTypeOK'
  BY DEF RunnerTypeOK, Stages
<1>2. NothingStarted' /\ Belongings' /\ Waiting'
  BY DEF NothingStarted, Belongings, Waiting
<1>3. SurvivorsExplained' /\ PassedIsMeasured'
  BY DEF RunnerTypeOK, NothingStarted, SurvivorsExplained, PassedIsMeasured
<1>4. QED
  BY <1>1, <1>2, <1>3

\* An exit leaves its code; only a failed client leaves a container.
LEMMA LeaderExitsKeeps == ASSUME RunnerInv, NEW code \in ExitCodes, LeaderExits(code) PROVE RunnerInv'
<1> USE DEF LeaderExits, RunnerInv
<1>1. RunnerTypeOK'
  BY DEF RunnerTypeOK
<1>2. NothingStarted'
  BY DEF NothingStarted
<1>3. Belongings'
  BY DEF Belongings
<1>4. Waiting'
  BY DEF Waiting
<1>5. SurvivorsExplained' /\ PassedIsMeasured'
  BY DEF RunnerTypeOK, SurvivorsExplained, PassedIsMeasured
<1>6. QED
  BY <1>1, <1>2, <1>3, <1>4, <1>5

\* A killed child is a child that differs in its state only.
LEMMA DeadChild == ASSUME child \in Child
                   PROVE  LET dead == [child EXCEPT !.state = "dead"] IN
                          /\ dead \in Child /\ dead.state = "dead"
                          /\ dead.inGroup = child.inGroup
                          /\ dead.holdsPipe = child.holdsPipe
                          /\ dead.ignoresTerm = child.ignoresTerm
BY DEF Child

\* A child may exit whenever it lives.
LEMMA ChildExitsKeeps == ASSUME RunnerInv, ChildExits PROVE RunnerInv'
<1> USE DEF ChildExits, RunnerInv
<1>1. /\ child' \in Child /\ child'.state = "dead"
      /\ child'.inGroup = child.inGroup /\ child # NoChild
  BY DeadChild DEF RunnerTypeOK, NoChild
<1>2. RunnerTypeOK'
  BY <1>1 DEF RunnerTypeOK
<1>3. NothingStarted'
  BY <1>1 DEF NothingStarted
<1>4. Belongings'
  BY <1>1 DEF Belongings
<1>5. Waiting'
  BY <1>1 DEF Waiting
<1>6. SurvivorsExplained' /\ PassedIsMeasured'
  BY <1>1 DEF SurvivorsExplained, PassedIsMeasured
<1>7. QED
  BY <1>2, <1>3, <1>4, <1>5, <1>6

\* SIGTERM leaves alive, of the group, only what it does not end.
LEMMA TerminateKeeps == ASSUME RunnerInv, Terminate PROVE RunnerInv'
<1> USE DEF Terminate, RunnerInv
<1>1. /\ child' \in Child
      /\ child'.inGroup = child.inGroup /\ child'.ignoresTerm = child.ignoresTerm
      /\ child'.state = "alive" => ~child.inGroup \/ child.ignoresTerm
      /\ child' # NoChild => child # NoChild
  <2>1. child \in Child
    BY DEF RunnerTypeOK
  <2>2. CASE child.inGroup /\ ~child.ignoresTerm
    <3>1. child' = [child EXCEPT !.state = "dead"]
      BY <2>2
    <3>2. child # NoChild
      BY <2>2 DEF NoChild
    <3>3. QED
      BY <2>1, <2>2, <3>1, <3>2, DeadChild
  <2>3. CASE ~(child.inGroup /\ ~child.ignoresTerm)
    BY <2>1, <2>3
  <2>4. QED
    BY <2>2, <2>3
<1>2. RunnerTypeOK'
  BY <1>1 DEF RunnerTypeOK, Stages
<1>3. NothingStarted'
  BY <1>1 DEF NothingStarted
<1>4. Belongings'
  BY <1>1 DEF Belongings, ProcessKinds
<1>5. Waiting'
  BY <1>1 DEF Waiting
<1>6. SurvivorsExplained' /\ PassedIsMeasured'
  BY DEF RunnerTypeOK, SurvivorsExplained, PassedIsMeasured
<1>7. QED
  BY <1>2, <1>3, <1>4, <1>5, <1>6

\* SIGKILL leaves nobody of the group alive.
LEMMA KillKeeps == ASSUME RunnerInv, Kill PROVE RunnerInv'
<1> USE DEF Kill, RunnerInv
<1>1. /\ child' \in Child
      /\ child'.inGroup = child.inGroup /\ child'.ignoresTerm = child.ignoresTerm
      /\ child'.state = "alive" => ~child.inGroup
      /\ child' # NoChild => child # NoChild
  <2>1. child \in Child
    BY DEF RunnerTypeOK
  <2>2. CASE child.inGroup
    <3>1. child' = [child EXCEPT !.state = "dead"]
      BY <2>2
    <3>2. child # NoChild
      BY <2>2 DEF NoChild
    <3>3. QED
      BY <2>1, <2>2, <3>1, <3>2, DeadChild
  <2>3. CASE ~(child.inGroup)
    BY <2>1, <2>3
  <2>4. QED
    BY <2>2, <2>3
<1>2. RunnerTypeOK'
  BY <1>1 DEF RunnerTypeOK, Stages
<1>3. NothingStarted'
  BY <1>1 DEF NothingStarted
<1>4. Belongings'
  BY <1>1 DEF Belongings
<1>5. Waiting'
  BY <1>1 DEF Waiting
<1>6. SurvivorsExplained' /\ PassedIsMeasured'
  BY DEF RunnerTypeOK, SurvivorsExplained, PassedIsMeasured
<1>7. QED
  BY <1>2, <1>3, <1>4, <1>5, <1>6

\* Who survived the signals left the group, ignored SIGTERM or came after it,
\* and holds no pipe.
LEMMA ReturnTimeoutKeeps == ASSUME RunnerInv, ReturnTimeout PROVE RunnerInv'
<1> USE DEF ReturnTimeout, Return, TimedOut, Result, RunnerInv
<1>1. RunnerTypeOK'
  BY DEF RunnerTypeOK, Stages
<1>2. NothingStarted' /\ Belongings' /\ Waiting'
  BY DEF NothingStarted, Belongings, Waiting
<1>3. SurvivorsExplained'
  BY DEF Drained, Belongings, Waiting, SurvivorsExplained, DockerKinds
<1>4. PassedIsMeasured'
  BY DEF PassedIsMeasured
<1>5. QED
  BY <1>1, <1>2, <1>3, <1>4

\* Only the evaluator is killed; its child may live on.
LEMMA EvaluatorTimesOutKeeps == ASSUME RunnerInv, EvaluatorTimesOut PROVE RunnerInv'
<1> USE DEF EvaluatorTimesOut, Return, TimedOut, Result, RunnerInv
<1>1. RunnerTypeOK'
  BY DEF RunnerTypeOK, Stages
<1>2. NothingStarted' /\ Belongings' /\ Waiting'
  BY DEF NothingStarted, Belongings, Waiting
<1>3. SurvivorsExplained'
  BY DEF Belongings, SurvivorsExplained, DockerKinds
<1>4. PassedIsMeasured'
  BY DEF PassedIsMeasured
<1>5. QED
  BY <1>1, <1>2, <1>3, <1>4

\* The container may stay up when docker rm fails.
LEMMA ContainerTimesOutKeeps == ASSUME RunnerInv, ContainerTimesOut PROVE RunnerInv'
<1> USE DEF ContainerTimesOut, Return, TimedOut, Result, RunnerInv
<1>1. RunnerTypeOK'
  BY DEF RunnerTypeOK, Stages
<1>2. NothingStarted' /\ Belongings' /\ Waiting'
  BY DEF NothingStarted, Belongings, Waiting
<1>3. SurvivorsExplained'
  BY DEF Belongings, SurvivorsExplained, DockerKinds, ProcessKinds, NoChild
<1>4. PassedIsMeasured'
  BY DEF PassedIsMeasured
<1>5. QED
  BY <1>1, <1>2, <1>3, <1>4

\* Nothing of the last attempt is left but the caches.
LEMMA AgainKeeps == ASSUME RunnerInv, Again PROVE RunnerInv'
<1> USE DEF Again, RunnerInv
<1>1. NoChild \in Child /\ NoChild.state = "none" /\ ~NoChild.inGroup
  BY DEF NoChild, Child
<1>2. RunnerTypeOK'
  BY <1>1 DEF RunnerTypeOK, Stages, NoResult
<1>3. NothingStarted' /\ Belongings' /\ Waiting'
  BY <1>1 DEF NothingStarted, Belongings, Waiting
<1>4. SurvivorsExplained' /\ PassedIsMeasured'
  BY DEF SurvivorsExplained, PassedIsMeasured, NoResult
<1>5. QED
  BY <1>2, <1>3, <1>4

\* Inputs change between calls.
LEMMA OtherInputsKeeps == ASSUME RunnerInv, NEW i \in Inputs, OtherInputs(i) PROVE RunnerInv'
<1> USE DEF OtherInputs, RunnerInv
<1>1. RunnerTypeOK'
  BY DEF RunnerTypeOK, Stages
<1>2. NothingStarted' /\ Belongings' /\ Waiting'
  BY DEF NothingStarted, Belongings, Waiting
<1>3. SurvivorsExplained' /\ PassedIsMeasured'
  BY DEF RunnerTypeOK, NothingStarted, SurvivorsExplained, PassedIsMeasured
<1>4. QED
  BY <1>1, <1>2, <1>3

\* A prune while nothing runs.
LEMMA PruneEnvironmentKeeps == ASSUME RunnerInv, PruneEnvironment PROVE RunnerInv'
<1> USE DEF PruneEnvironment, RunnerInv
<1>1. RunnerTypeOK'
  BY DEF RunnerTypeOK, Stages
<1>2. NothingStarted' /\ Belongings' /\ Waiting'
  BY DEF NothingStarted, Belongings, Waiting
<1>3. SurvivorsExplained' /\ PassedIsMeasured'
  BY DEF RunnerTypeOK, NothingStarted, SurvivorsExplained, PassedIsMeasured
<1>4. QED
  BY <1>1, <1>2, <1>3

\* Fewer images.
LEMMA PruneImageKeeps == ASSUME RunnerInv, NEW tag \in images, PruneImage(tag) PROVE RunnerInv'
<1> USE DEF PruneImage, RunnerInv
<1>1. RunnerTypeOK'
  BY DEF RunnerTypeOK, Stages
<1>2. NothingStarted' /\ Belongings' /\ Waiting'
  BY DEF NothingStarted, Belongings, Waiting
<1>3. SurvivorsExplained' /\ PassedIsMeasured'
  BY DEF RunnerTypeOK, NothingStarted, SurvivorsExplained, PassedIsMeasured
<1>4. QED
  BY <1>1, <1>2, <1>3

\* A container of an image in docker's store.
LEMMA LaunchBuiltKeeps == ASSUME RunnerInv, LaunchBuilt PROVE RunnerInv'
<1> USE DEF LaunchBuilt, LaunchContainer, RunnerInv
<1>1. RunnerTypeOK'
  BY DEF RunnerTypeOK, Stages
<1>2. NothingStarted' /\ Belongings' /\ Waiting'
  BY DEF NothingStarted, Belongings, Waiting
<1>3. SurvivorsExplained' /\ PassedIsMeasured'
  BY DEF RunnerTypeOK, NothingStarted, SurvivorsExplained, PassedIsMeasured
<1>4. QED
  BY <1>1, <1>2, <1>3

\* Whatever the runner makes of an exit code and an output, it is a final
\* status with that exit code, it is no timeout, and it passes a reward only.
LEMMA OutcomeSound ==
    ASSUME kind \in Kinds, NEW exit \in ExitCodes, NEW output \in OutputsOf
    PROVE  /\ RunnerOutcome(exit, output).status \in {"passed", "failed", "error", "raised"}
           /\ RunnerOutcome(exit, output).exit = exit
           /\ RunnerOutcome(exit, output).status = "passed" =>
                 /\ exit = 0 /\ RunnerOutcome(exit, output).parse = "parsed"
                 /\ RunnerOutcome(exit, output).output \in {"reward", "exit code"}
<1> USE DEF Result
<1>1. \A p : /\ LocalStatus(exit, p) \in {"passed", "failed", "error"}
             /\ LocalStatus(exit, p) = "passed" => exit = 0 /\ p = "parsed"
  BY DEF LocalStatus
<1>2. Parsed(output) = "parsed" => output \in {"reward", "exit code"}
  BY DEF Parsed
<1>3. CASE kind = "local"
  BY <1>1, <1>2, <1>3 DEF RunnerOutcome, Measured
<1>4. CASE kind = "docker"
  BY <1>1, <1>2, <1>4 DEF RunnerOutcome, Measured, DockerStatus
<1>5. CASE kind = "harbor"
  BY <1>1, <1>2, <1>5 DEF RunnerOutcome, Measured, HarborOutcome
<1>6. CASE kind = "skydiscover_docker"
  BY <1>6 DEF RunnerOutcome, SkyDockerOutcome, OutputsOf, Outputs
<1>7. CASE kind = "skydiscover_python"
  BY <1>7 DEF RunnerOutcome, SkyPythonOutcome, SkyDockerOutcome, OutputsOf, Outputs
<1>8. QED
  BY <1>3, <1>4, <1>5, <1>6, <1>7 DEF Kinds, DockerKinds

\* A runner that drained its process returns what it makes of its outcome.
LEMMA CompletesKeeps ==
    ASSUME RunnerInv, NEW output \in OutputsOf, Completes(output) PROVE RunnerInv'
<1> USE DEF Completes, Return, Drained, RunnerInv
<1>1. exitCode \in ExitCodes /\ (exitCode = 0 => ~container) /\ kind \in Kinds
  BY DEF Waiting, RunnerTypeOK
<1>2. /\ result'.status \in {"passed", "failed", "error", "raised"}
      /\ result'.exit = exitCode
      /\ result'.status = "passed" =>
            exitCode = 0 /\ result'.parse = "parsed" /\ result'.output \in {"reward", "exit code"}
  BY <1>1, OutcomeSound
<1>3. RunnerTypeOK'
  BY <1>1, <1>2 DEF RunnerTypeOK, Stages
<1>4. NothingStarted' /\ Belongings' /\ Waiting'
  BY DEF NothingStarted, Belongings, Waiting
<1>5. SurvivorsExplained'
  BY <1>1, <1>2 DEF Belongings, SurvivorsExplained
<1>6. PassedIsMeasured'
  BY <1>1, <1>2 DEF PassedIsMeasured
<1>7. QED
  BY <1>3, <1>4, <1>5, <1>6

\* Every action keeps the invariant, and so does a step that changes nothing.
LEMMA RunnerNextKeeps == RunnerInv /\ [RunnerNext]_runnerVars => RunnerInv'
<1> SUFFICES ASSUME RunnerInv, [RunnerNext]_runnerVars PROVE RunnerInv'
  OBVIOUS
<1>1. ASSUME NEW k \in Kinds, Call(k) PROVE RunnerInv'
  BY <1>1, CallKeeps
<1>2. CASE SetupFails
  BY <1>2, SetupFailsKeeps
<1>3. CASE SetupRaises
  BY <1>3, SetupRaisesKeeps
<1>4. CASE CreateVenv
  BY <1>4, CreateVenvKeeps
<1>5. CASE InstallDependencies
  BY <1>5, InstallDependenciesKeeps
<1>6. CASE Launch
  BY <1>6, LaunchKeeps
<1>7. CASE LaunchNamed
  BY <1>7, LaunchNamedKeeps
<1>8. CASE BuildImage
  BY <1>8, BuildImageKeeps
<1>9. CASE LaunchBuilt
  BY <1>9, LaunchBuiltKeeps
<1>10. ASSUME NEW c \in Child, Fork(c) PROVE RunnerInv'
  BY <1>10, ForkKeeps
<1>11. ASSUME NEW code \in ExitCodes, LeaderExits(code) PROVE RunnerInv'
  BY <1>11, LeaderExitsKeeps
<1>12. CASE ChildExits
  BY <1>12, ChildExitsKeeps
<1>13. ASSUME NEW output \in OutputsOf, Completes(output) PROVE RunnerInv'
  BY <1>13, CompletesKeeps
<1>14. CASE Terminate
  BY <1>14, TerminateKeeps
<1>15. CASE Kill
  BY <1>15, KillKeeps
<1>16. CASE ReturnTimeout
  BY <1>16, ReturnTimeoutKeeps
<1>17. CASE EvaluatorTimesOut
  BY <1>17, EvaluatorTimesOutKeeps
<1>18. CASE ContainerTimesOut
  BY <1>18, ContainerTimesOutKeeps
<1>19. CASE Again
  BY <1>19, AgainKeeps
<1>20. ASSUME NEW i \in Inputs, OtherInputs(i) PROVE RunnerInv'
  BY <1>20, OtherInputsKeeps
<1>21. CASE PruneEnvironment
  BY <1>21, PruneEnvironmentKeeps
<1>22. ASSUME NEW tag \in images, PruneImage(tag) PROVE RunnerInv'
  BY <1>22, PruneImageKeeps
<1>23. CASE UNCHANGED runnerVars
  <2>1. RunnerTypeOK'
    BY <1>23 DEF runnerVars, RunnerInv, RunnerTypeOK
  <2>2. NothingStarted' /\ Belongings' /\ Waiting'
    BY <1>23 DEF runnerVars, RunnerInv, NothingStarted, Belongings, Waiting
  <2>3. SurvivorsExplained' /\ PassedIsMeasured'
    BY <1>23 DEF runnerVars, RunnerInv, SurvivorsExplained, PassedIsMeasured
  <2>4. QED
    BY <2>1, <2>2, <2>3 DEF RunnerInv
<1>24. QED
  BY <1>1, <1>2, <1>3, <1>4, <1>5, <1>6, <1>7, <1>8, <1>9, <1>10, <1>11, <1>12,
     <1>13, <1>14, <1>15, <1>16, <1>17, <1>18, <1>19, <1>20, <1>21, <1>22, <1>23
     DEF RunnerNext

\* The inductive invariant holds of run_configured_runner, called any number
\* of times.
THEOREM RunnerInvariance == RunnerSpec => []RunnerInv
BY RunnerInitInv, RunnerNextKeeps, PTL DEF RunnerSpec

\* Results, exit codes and parse statuses stay well formed in every call.
THEOREM RunnerTyped == RunnerSpec => []RunnerTypeOK
<1>1. RunnerInv => RunnerTypeOK
  BY DEF RunnerInv
<1>2. QED
  BY <1>1, RunnerInvariance, PTL

\* Every process and container that outlives run_configured_runner is one of
\* those that its five ways of timing out and waiting leave behind.
THEOREM RunnerSurvivors == RunnerSpec => []SurvivorsExplained
<1>1. RunnerInv => SurvivorsExplained
  BY DEF RunnerInv
<1>2. QED
  BY <1>1, RunnerInvariance, PTL

\* No runner returns "passed" without an exit code of 0 and a reward it read.
THEOREM RunnerMeasures == RunnerSpec => []PassedIsMeasured
<1>1. RunnerInv => PassedIsMeasured
  BY DEF RunnerInv
<1>2. QED
  BY <1>1, RunnerInvariance, PTL

=============================================================================
