---------------------------- MODULE SelurCompose ----------------------------
(***************************************************************************)
(* The selur-compose command line.  Every command is a process of its own:  *)
(* it loads the compose file and then calls podman step by step, while the  *)
(* containers change on their own and other commands run on the same host.  *)
(* up, build and pull walk the plan; down, ps and logs start from a listing *)
(* of the project's containers.                                             *)
(***************************************************************************)
EXTENDS Podman

CONSTANTS
    Jobs,           \* the command lines that may be typed
    Job,            \* what each says, and the files and environment it finds
    MaxCommands,    \* bound: commands started
    MaxFaults,      \* bound: podman calls that fail for reasons of their own
    LogLines,       \* lines in a container's log
    ErrLines,       \* those of them that it wrote to stderr
    Buffer          \* channel slots for each service of a logs command

Commands == {"up", "down", "build", "pull", "ps", "logs", "config", "version"}
Environ == UNION {[A -> Text] : A \in SUBSET Text}
\* A file is an option, <<>> when it cannot be opened.  here: the two default
\* names in the working directory.  dot_env: .env beside the compose file.
CommandLine ==
    [command : Commands, file : Option(Option(Compose)), here : Seq(Option(Compose)),
     process : Environ, dot_env : Option(Seq(Text)), env_files : Seq(Option(Seq(Text))),
     profiles : Seq(Text), project_name : Option(Text), services : Seq(Services),
     dry_run : BOOLEAN, no_build : BOOLEAN, no_pull : BOOLEAN, follow : BOOLEAN]
ASSUME ComposeAssumption ==
    /\ \A j \in Jobs : Job[j].command \in Commands
    /\ MaxCommands \in Nat /\ MaxFaults \in Nat /\ LogLines \in Nat /\ Buffer \in Nat \ {0}
    /\ ErrLines \subseteq 1..LogLines
-----------------------------------------------------------------------------
(* Loading: find the file, validate it, read the environment, interpolate,   *)
(* plan.                                                                     *)
ResolveComposeFile(explicit, here) ==
    IF explicit # <<>> THEN explicit[1]
    ELSE LET found == SelectInSeq(here, LAMBDA f : f # <<>>)
         IN  IF found = 0 THEN <<>> ELSE here[found]

\* What a command finds is a Compose, and texts.
ASSUME FilesAssumption ==
    \A j \in Jobs : LET file == ResolveComposeFile(Job[j].file, Job[j].here) IN
        /\ file # <<>> =>
              /\ DOMAIN file[1].services \subseteq Services
              /\ \A s \in DOMAIN file[1].services : file[1].services[s] \in Service
              /\ file[1].networks \in Named(Network) /\ file[1].volumes \in Named(Volume)
              /\ file[1].secrets \in Named(Secret) /\ file[1].project \in Option(Text)
        /\ Job[j].dot_env \in Option(Seq(Text)) /\ Job[j].env_files \in Seq(Option(Seq(Text)))
        /\ \A v \in DOMAIN Job[j].process : Job[j].process[v] \in Text
        /\ Job[j].project_name \in Option(Text)

Load(job) ==
    LET file == ResolveComposeFile(job.file, job.here)
        opts == [profiles |-> job.profiles, project_name |-> job.project_name,
                 services |-> job.services]
    IN  AndThen(IF file = <<>> THEN Err("NoFile") ELSE Ok(file[1]), LAMBDA source :
        AndThen(Validate(source), LAMBDA compose :
        AndThen(BuildEnv(job.process, job.dot_env, job.env_files), LAMBDA env :
        AndThen(Interpolate(compose, env), LAMBDA read :
        AndThen(Plan(read, opts), LAMBDA plan : Ok([compose |-> read, plan |-> plan]))))))

Loads == [j \in Jobs |-> Load(Job[j])]
Project(j) == Loads[j].val.plan.project

\* What up, build and pull perform of the plan.
UpSkips(job, o) == (o.op = "build" /\ job.no_build) \/ (o.op = "pull" /\ job.no_pull)
Performs(job, o) ==
    CASE job.command = "up" -> ~UpSkips(job, o)
      [] job.command = "build" -> o.op = "build"
      [] job.command = "pull" -> o.op = "pull"
      [] OTHER -> FALSE
Performed(job, ops) == AtPlaces(ops, {i \in DOMAIN ops : Performs(job, ops[i])})
Steps == [j \in Jobs |-> IF Loads[j].ok THEN Performed(Job[j], Loads[j].val.plan.ops) ELSE <<>>]
-----------------------------------------------------------------------------
VARIABLES
    cli,            \* the commands started so far, in order
    faults          \* podman calls that have failed
vars == <<containers, made, networks, volumes, images, turns, cli, faults>>

\* before: the containers there were when the command was typed (history only).
\* A log line is its service and its number; 0 is the driver's error line.
\* broken: the readers that an error has ended (history only).
Line == Services \X (0..LogLines)
TailState == [want : Partial(Services, Ids), opened : SUBSET Services, stuck : SUBSET Services,
              ended : SUBSET Services, broken : SUBSET Services, sent : [Services -> 0..LogLines],
              chan : Seq(Line), out : Seq(Line)]
Process ==
    [job : Jobs, phase : {"ops", "list", "stop", "rm", "tail", "done"}, ok : BOOLEAN,
     at : Nat \ {0}, ran : Partial(Services, Ids), gated : SUBSET Services, late : BOOLEAN,
     before : SUBSET Ids, seen : SUBSET Ids, left : SUBSET Ids, victim : 0..MaxContainers,
     log : TailState]

NoLog == [want |-> [s \in {} |-> 0], opened |-> {}, stuck |-> {}, ended |-> {}, broken |-> {},
          sent |-> [s \in Services |-> 0], chan |-> <<>>, out |-> <<>>]

Init == PodmanInit /\ cli = <<>> /\ faults = 0

\* A command is typed.  version loads nothing and cannot fail, config only
\* prints what it has loaded.
Start(j, phase, ok) ==
    /\ Len(cli) < MaxCommands
    /\ cli' = Append(cli,
            [job |-> j, phase |-> phase, ok |-> ok, at |-> 1, ran |-> [s \in {} |-> 0],
             gated |-> {}, late |-> FALSE, before |-> DOMAIN containers, seen |-> {},
             left |-> {}, victim |-> 0, log |-> NoLog])
    /\ UNCHANGED <<podman, faults>>
Typed(j, commands) == Job[j].command \in commands

Version(j) == Typed(j, {"version"}) /\ Start(j, "done", TRUE)
NotLoaded(j) == Typed(j, Commands \ {"version"}) /\ ~Loads[j].ok /\ Start(j, "done", FALSE)
Config(j) == Typed(j, {"config"}) /\ Loads[j].ok /\ Start(j, "done", TRUE)
\* up, build and pull go through their operations
CarryOut(j) ==
    /\ Typed(j, {"up", "build", "pull"}) /\ Loads[j].ok
    /\ Start(j, IF Job[j].dry_run \/ Steps[j] = <<>> THEN "done" ELSE "ops", TRUE)
Down(j) ==
    /\ Typed(j, {"down"}) /\ Loads[j].ok
    /\ Start(j, IF Job[j].dry_run THEN "done" ELSE "list", TRUE)
Look(j) == Typed(j, {"ps", "logs"}) /\ Loads[j].ok /\ Start(j, "list", TRUE)
Invoke(j) == Version(j) \/ NotLoaded(j) \/ Config(j) \/ CarryOut(j) \/ Down(j) \/ Look(j)

In(p, phase) == p \in DOMAIN cli /\ cli[p].phase = phase
Abort(p) == cli' = [cli EXCEPT ![p].phase = "done", ![p].ok = FALSE]
-----------------------------------------------------------------------------
(* execute: one operation of the plan after the other, the first error ends  *)
(* it.  The build and pull commands walk their operations in the same way.   *)
Pending(p) == IF In(p, "ops") THEN {Steps[cli[p].job][cli[p].at]} ELSE {}
AdvancedPast(c) == [c EXCEPT !.at = @ + 1, !.late = FALSE]      \* mutant: no end of the plan
Advanced(c) ==
    [c EXCEPT !.at = @ + 1, !.late = FALSE,
              !.phase = IF c.at < Len(Steps[c.job]) THEN "ops" ELSE "done"]
Advance(p) == cli' = [cli EXCEPT ![p] = Advanced(@)] /\ UNCHANGED faults

NetworkStep(p) == \E o \in Pending(p) : o.op = "network" /\ CreateNetwork(o) /\ Advance(p)
VolumeStep(p) == \E o \in Pending(p) : o.op = "volume" /\ CreateVolume(o) /\ Advance(p)
BuildStep(p) == \E o \in Pending(p) : o.op = "build" /\ BuildImage(o) /\ Advance(p)
PullStep(p) == \E o \in Pending(p) : o.op = "pull" /\ PullImage(o.image) /\ Advance(p)

RunStep(p) ==
    \E o \in Pending(p) :
        /\ o.op = "run" /\ RunContainer(o)
        /\ cli' = [cli EXCEPT ![p] = [Advanced(cli[p]) EXCEPT !.ran = Put(@, o.service, made')]]
        /\ UNCHANGED faults

\* The registry has no such image, or podman run names what it cannot find.
Refused(p) ==
    /\ \E o \in Pending(p) :
        \/ o.op = "pull" /\ o.image \notin Remote
        \/ o.op = "run" /\ ~Runnable(RunArgv(o))
    /\ Abort(p) /\ UNCHANGED <<podman, faults>>

\* wait_healthy: a container without a healthcheck passes at once.
Awaited(p, o) == cli[p].ran[o.service]
GatePasses(p) ==
    \E o \in Pending(p) :
        /\ o.op = "wait" /\ Inspectable(Awaited(p, o))
        /\ Inspect(Awaited(p, o)) \in {<<>>, <<"healthy">>}
        /\ cli' = [cli EXCEPT ![p] = [Advanced(cli[p]) EXCEPT !.gated = @ \cup {o.service}]]
        /\ UNCHANGED <<podman, faults>>

GateFails(p) ==
    /\ \E o \in Pending(p) :
        /\ o.op = "wait"
        /\ \/ ~Inspectable(Awaited(p, o))
           \/ /\ Inspectable(Awaited(p, o))
              /\ Inspect(Awaited(p, o)) \in {<<"unhealthy">>}
                    \cup (IF cli[p].late THEN {<<"starting">>} ELSE {})
    /\ Abort(p) /\ UNCHANGED <<podman, faults>>

DeadlineNever(p) == FALSE /\ UNCHANGED vars             \* mutant: no deadline
Deadline(p) ==
    /\ \E o \in Pending(p) : o.op = "wait"
    /\ ~cli[p].late /\ cli' = [cli EXCEPT ![p].late = TRUE]
    /\ UNCHANGED <<podman, faults>>
-----------------------------------------------------------------------------
(* ps is a listing; down a listing, then its containers one by one.          *)
Listing(p, command) == In(p, "list") /\ Job[cli[p].job].command = command
Found(p) == Ps(Project(cli[p].job))

PsList(p) ==
    /\ Listing(p, "ps")
    /\ cli' = [cli EXCEPT ![p].seen = Found(p), ![p].phase = "done"]
    /\ UNCHANGED <<podman, faults>>
DownList(p) ==
    /\ Listing(p, "down")
    /\ \E found \in {Found(p)} :
            cli' = [cli EXCEPT ![p].seen = found, ![p].left = found,
                               ![p].phase = IF found = {} THEN "done" ELSE "stop"]
    /\ UNCHANGED <<podman, faults>>

\* podman's order of the listing is not fixed
StopStep(p, id) ==
    /\ In(p, "stop") /\ id \in cli[p].left /\ StopContainer(id)
    /\ cli' = [cli EXCEPT ![p].phase = "rm", ![p].victim = id]
    /\ UNCHANGED faults
StopMissing(p, id) ==
    /\ In(p, "stop") /\ id \in cli[p].left \ DOMAIN containers
    /\ Abort(p) /\ UNCHANGED <<podman, faults>>
RemoveStep(p) ==
    /\ In(p, "rm") /\ RemoveContainer(cli[p].victim)
    /\ LET left == cli[p].left \ {cli[p].victim}
       IN  cli' = [cli EXCEPT ![p].left = left,
                              ![p].phase = IF left = {} THEN "done" ELSE "stop"]
    /\ UNCHANGED faults
-----------------------------------------------------------------------------
(* logs: one reader for each listed service sends its lines into a bounded   *)
(* channel, which is drained only when every reader has been started.        *)
LogsList(p) ==
    /\ Listing(p, "logs")
    /\ \E found \in {Found(p)} :
        LET asked == ToSet(Job[cli[p].job].services)
            shown == {containers[id].service : id \in found}
                        \cap (IF asked = {} THEN Services ELSE asked)
        \* of two containers of a service the one listed last
        IN  \E want \in {w \in [shown -> found] : \A s \in shown : containers[w[s]].service = s} :
                cli' = [cli EXCEPT ![p].seen = found, ![p].log.want = want,
                                   ![p].phase = IF shown = {} THEN "done" ELSE "tail"]
    /\ UNCHANGED <<podman, faults>>

Wanted(p) == DOMAIN cli[p].log.want
Room(p) == Len(cli[p].log.chan) < Buffer * Cardinality(Wanted(p))
Starting(p, s) ==
    In(p, "tail") /\ cli[p].log.stuck = {} /\ s \in Wanted(p) \ cli[p].log.opened
Reading(p, s) == In(p, "tail") /\ s \in cli[p].log.opened \ cli[p].log.ended

OpenStream(p, s) ==
    /\ Starting(p, s)
    /\ cli' = [cli EXCEPT ![p].log.opened = @ \cup {s}]
    /\ UNCHANGED <<podman, faults>>
\* The reader cannot be started: an error line goes into the channel instead,
\* and until it fits nothing else is started or drained.
SpawnFails(p, s) ==
    /\ Starting(p, s) /\ faults < MaxFaults /\ faults' = faults + 1
    /\ cli' = [cli EXCEPT ![p].log.stuck = {s}]
    /\ UNCHANGED podman
SendError(p, s) ==
    /\ In(p, "tail") /\ s \in cli[p].log.stuck /\ Room(p)
    /\ cli' = [cli EXCEPT ![p].log.stuck = {}, ![p].log.opened = @ \cup {s},
                          ![p].log.ended = @ \cup {s}, ![p].log.chan = Append(@, <<s, 0>>)]
    /\ UNCHANGED <<podman, faults>>

\* The next line of the log is one that the container wrote to stdout, or to stderr.
Prints(p, s) == LET next == cli[p].log.sent[s] + 1 IN next <= LogLines /\ next \notin ErrLines
Warns(p, s) == cli[p].log.sent[s] + 1 \in ErrLines
ForwardLossy(p, s) ==                                   \* mutant: a full channel drops the line
    /\ Reading(p, s) /\ Prints(p, s)
    /\ cli' = [cli EXCEPT ![p].log.sent[s] = @ + 1,
                          ![p].log.chan = IF Room(p) THEN Append(@, <<s, cli[p].log.sent[s] + 1>>)
                                          ELSE @]
    /\ UNCHANGED <<podman, faults>>
Forward(p, s) ==
    /\ Reading(p, s) /\ Prints(p, s) /\ Room(p)
    /\ cli' = [cli EXCEPT ![p].log.sent[s] = @ + 1,
                          ![p].log.chan = Append(@, <<s, cli[p].log.sent[s] + 1>>)]
    /\ UNCHANGED <<podman, faults>>
\* podman logs puts it on its own stderr, a pipe that the driver opens and drops.
LoseLine(p, s) ==
    /\ Reading(p, s) /\ Warns(p, s)
    /\ cli' = [cli EXCEPT ![p].log.sent[s] = @ + 1]
    /\ UNCHANGED <<podman, faults>>
\* A read fails (a line is not UTF-8), or podman logs dies, of its closed stderr
\* for one, whose status is never asked for: the reader ends as at the log's end.
ReadBreaks(p, s) ==
    /\ Reading(p, s) /\ faults < MaxFaults /\ faults' = faults + 1
    /\ cli' = [cli EXCEPT ![p].log.ended = @ \cup {s}, ![p].log.broken = @ \cup {s}]
    /\ UNCHANGED podman
\* With --follow a stream ends only with its container.
Eof(p, s) ==
    LET id == cli[p].log.want[s]
        up == id \in DOMAIN containers /\ containers[id].state = "running"
    IN  /\ Reading(p, s)
        /\ cli[p].log.sent[s] = LogLines \/ id \notin DOMAIN containers
        /\ Job[cli[p].job].follow => ~up
        /\ cli' = [cli EXCEPT ![p].log.ended = @ \cup {s}]
        /\ UNCHANGED <<podman, faults>>

AllOpened(p) == In(p, "tail") /\ cli[p].log.opened = Wanted(p)
Drain(p) ==
    /\ AllOpened(p) /\ cli[p].log.chan # <<>>
    /\ cli' = [cli EXCEPT ![p].log.chan = Tail(@),
                          ![p].log.out = Append(@, Head(cli[p].log.chan))]
    /\ UNCHANGED <<podman, faults>>
TailEnds(p) ==
    /\ AllOpened(p) /\ cli[p].log.ended = Wanted(p) /\ cli[p].log.chan = <<>>
    /\ cli' = [cli EXCEPT ![p].phase = "done"]
    /\ UNCHANGED <<podman, faults>>
-----------------------------------------------------------------------------
(* Faults: a call fails without effect, or podman run creates a container    *)
(* that it cannot start (a port in use, a privileged port).                  *)
CallFails(p) ==
    /\ p \in DOMAIN cli /\ cli[p].phase \in {"ops", "list", "stop", "rm"}
    /\ faults < MaxFaults /\ faults' = faults + 1
    /\ Abort(p) /\ UNCHANGED podman
RunFails(p) ==
    /\ \E o \in Pending(p) : o.op = "run" /\ RunAborted(o)
    /\ faults < MaxFaults /\ faults' = faults + 1
    /\ Abort(p)

ExitOf(id) == Exit(id) /\ UNCHANGED <<cli, faults>>
ProbeOf(id, reported) == Probe(id, reported) /\ UNCHANGED <<cli, faults>>
-----------------------------------------------------------------------------
Executes(p) ==
    \/ NetworkStep(p) \/ VolumeStep(p) \/ BuildStep(p) \/ PullStep(p) \/ RunStep(p)
    \/ GatePasses(p) \/ GateFails(p) \/ Refused(p)
Lists(p) == PsList(p) \/ DownList(p) \/ LogsList(p) \/ RemoveStep(p)
            \/ \E id \in Ids : StopStep(p, id) \/ StopMissing(p, id)
Tails(p) == Drain(p) \/ TailEnds(p)
            \/ \E s \in Services :
                \/ OpenStream(p, s) \/ SendError(p, s)
                \/ Forward(p, s) \/ LoseLine(p, s) \/ Eof(p, s)
Proceed(p) == Executes(p) \/ Lists(p) \/ Tails(p)
Fails(p) == CallFails(p) \/ RunFails(p) \/ \E s \in Services : SpawnFails(p, s) \/ ReadBreaks(p, s)
World == \E id \in DOMAIN containers :
            ExitOf(id) \/ \E reported \in {"healthy", "unhealthy"} : ProbeOf(id, reported)

Numbers == 1..MaxCommands
Next == \/ \E j \in Jobs : Invoke(j)
        \/ \E p \in Numbers : Proceed(p) \/ Deadline(p) \/ Fails(p)
        \/ World

Spec == Init /\ [][Next]_vars
\* A command that can take its next step takes it, and time passes.
Fairness == \A p \in Numbers : WF_vars(Proceed(p)) /\ WF_vars(Deadline(p))
FairSpec == Spec /\ Fairness
-----------------------------------------------------------------------------
TypeOK ==
    /\ PodmanType
    /\ cli \in Seq(Process) /\ Len(cli) <= MaxCommands
    /\ faults \in 0..MaxFaults
    /\ \A p \in DOMAIN cli : cli[p].phase = "ops" => cli[p].at \in DOMAIN Steps[cli[p].job]

\* What service s of job j depends on, and what it wants healthy.
Service_(j, s) == Loads[j].val.compose.services[s]
Dependencies(j, s) == {d[1] : d \in ToSet(DepsOf(Service_(j, s)))}
Conditions(j, s, d) == {e[2] : e \in {x \in ToSet(DepsOf(Service_(j, s))) : x[1] = d}}

\* An up starts a service only after all it depends on, and after the barrier
\* of each dependency it wants healthy, whatever fails and whoever else runs.
StartOrder ==
    \A p \in DOMAIN cli : \A s \in DOMAIN cli[p].ran :
        \A d \in Dependencies(cli[p].job, s) :
            /\ d \in DOMAIN cli[p].ran /\ cli[p].ran[d] < cli[p].ran[s]
            /\ "healthy" \in Conditions(cli[p].job, s, d) => d \in cli[p].gated

\* What the proofs take of a plan: a service's container comes once, after the
\* containers it depends on and the barriers of those it wants healthy.
Comes(ops, i, op, s) == \E k \in 1..(i - 1) : ops[k].op = op /\ ops[k].service = s
StepsOrdered ==
    \A j \in Jobs : \A ops \in {Steps[j]} : \A i \in DOMAIN ops : ops[i].op = "run" =>
        /\ ~Comes(ops, i, "run", ops[i].service)
        /\ \A d \in Dependencies(j, ops[i].service) :
              /\ Comes(ops, i, "run", d)
              /\ "healthy" \in Conditions(j, ops[i].service, d) => Comes(ops, i, "wait", d)

\* The services that the profiles of a command select, and what the proofs take
\* of the plan of an up: it runs a container of each of them, and of no other.
Selected(j) ==
    {s \in DOMAIN Loads[j].val.compose.services :
        LET profiles == ToSet(Service_(j, s).profiles)
        IN  profiles = {} \/ profiles \cap ToSet(Job[j].profiles) # {}}
StepsComplete ==
    \A j \in Jobs : Job[j].command = "up" /\ Loads[j].ok =>
        Selected(j) = {s \in Services : Comes(Steps[j], Len(Steps[j]) + 1, "run", s)}

\* An up that reports success has started every service its profiles select,
\* each in a container of its own.
UpComplete ==
    \A p \in DOMAIN cli :
        LET j == cli[p].job
            ran == cli[p].ran
        IN  Job[j].command = "up" /\ ~Job[j].dry_run /\ cli[p].phase = "done" /\ cli[p].ok =>
                /\ DOMAIN ran = Selected(j)
                /\ \A s, t \in DOMAIN ran : ran[s] = ran[t] => s = t

\* A down that reports success leaves none of the project's containers that
\* there were when it was typed, running or not, whoever had created them.
DownClears ==
    \A p \in DOMAIN cli :
        LET j == cli[p].job
        IN  Job[j].command = "down" /\ ~Job[j].dry_run /\ cli[p].phase = "done" /\ cli[p].ok =>
                \A id \in cli[p].before \cap DOMAIN containers : containers[id].project # Project(j)

\* Only a command of a container's own project removes it.
OwnProject ==
    [][\A id \in DOMAIN containers \ DOMAIN containers' :
            \E p \in DOMAIN cli : /\ cli[p].phase = "rm" /\ cli[p].victim = id
                                  /\ containers[id].project = Project(cli[p].job)]_vars

\* What logs prints of a service are the lines its container wrote to stdout, from
\* the first on, in order and without a gap or a repetition, or the driver's error
\* line alone.  When logs ends it is all of them, unless a reader broke off, which
\* logs does not report, or the container has been removed.
LinesOf(q, s) == {q[i][2] : i \in {k \in DOMAIN q : q[k][1] = s}}
Rising(q, s) ==
    \A i, k \in DOMAIN q : i < k /\ q[i][1] = s /\ q[k][1] = s => q[i][2] < q[k][2]
Printed(p, s) == LinesOf(cli[p].log.out, s)
ReadToEnd(p, s) ==
    cli[p].phase = "done" /\ cli[p].ok /\ s \notin cli[p].log.broken
        /\ cli[p].log.want[s] \in DOMAIN containers
LogsFaithful ==
    \A p \in DOMAIN cli : \A s \in Wanted(p) :
        /\ Rising(cli[p].log.out, s)
        /\ Printed(p, s) = {0} \/ \E n \in 0..LogLines : Printed(p, s) = (1..n) \ ErrLines
        /\ ReadToEnd(p, s) => Printed(p, s) \in {{0}, (1..LogLines) \ ErrLines}

\* Every command ends, unless it follows the logs of a running container or a
\* reader of it could not be started.
Excused(p) == Job[cli[p].job].follow \/ cli[p].log.stuck # {}
CommandEnds ==
    \A p \in Numbers :
        (p \in DOMAIN cli) ~> (p \in DOMAIN cli /\ (cli[p].phase = "done" \/ Excused(p)))
=============================================================================
