-------------------------------- MODULE Podman --------------------------------
(***************************************************************************)
(* selur-compose-driver: what PodmanCli asks podman for and what becomes of *)
(* it.  An operator named ...Argv is what a command line tells podman; the  *)
(* state and its changes are podman's own, taken from how the driver uses   *)
(* them.  Podman may also fail any call; that is left to the caller.        *)
(***************************************************************************)
EXTENDS ComposePlan

CONSTANTS
    Leftover,       \* containers that earlier commands left on the host
    Remote,         \* images a registry supplies
    Probed,         \* images that define a HEALTHCHECK
    MaxContainers,  \* bound: containers created
    MaxTurns        \* bound: changes of health or exits of containers
ASSUME PodmanAssumption ==
    /\ Remote \subseteq Text /\ Probed \subseteq Text
    /\ MaxContainers \in Nat /\ MaxTurns \in Nat
    /\ \E n \in 0..MaxContainers : DOMAIN Leftover = 1..n

VARIABLES
    containers,     \* existing containers, by id
    made,           \* ids given out so far
    networks,       \* networks that exist
    volumes,        \* volumes that exist
    images,         \* images in local storage
    turns           \* changes the containers made on their own

podman == <<containers, made, networks, volumes, images, turns>>

States == {"created", "running", "exited"}
Health == Option({"starting", "healthy", "unhealthy"})      \* <<>>: no healthcheck
Container == [name : Text, project : Text, service : Services, state : States, health : Health]
Ids == 1..MaxContainers
ASSUME LeftoverAssumption == Leftover \in [DOMAIN Leftover -> Container]

PodmanType ==
    /\ DOMAIN containers \subseteq Ids /\ containers \in [DOMAIN containers -> Container]
    /\ made \in 0..MaxContainers /\ DOMAIN containers \subseteq 1..made
    /\ networks \subseteq Text /\ volumes \subseteq Text /\ images \subseteq Text
    /\ turns \in 0..MaxTurns

PodmanInit ==
    /\ containers \in {[id \in {} |-> {}], Leftover} /\ made = Cardinality(DOMAIN containers)
    /\ networks = {} /\ volumes = {} /\ images = {} /\ turns = 0
-----------------------------------------------------------------------------
(* Images, networks and volumes.                                            *)
BuildArgv(spec) == [tag |-> spec.tag, file |-> spec.dockerfile, target |-> spec.target,
                    args |-> spec.args, context |-> spec.context, no_cache |-> spec.no_cache]
BuildImage(spec) ==
    /\ images' = images \cup {BuildArgv(spec).tag}
    /\ UNCHANGED <<containers, made, networks, volumes, turns>>

PullImage(image) ==
    /\ image \in Remote
    /\ images' = images \cup {image}
    /\ UNCHANGED <<containers, made, networks, volumes, turns>>

NetworkCreateArgv(spec) == [driver |-> spec.driver, label |-> spec.project, name |-> spec.name]
\* an existing network is no error
CreateNetwork(spec) ==
    /\ networks' = networks \cup {NetworkCreateArgv(spec).name}
    /\ UNCHANGED <<containers, made, volumes, images, turns>>

VolumeCreateArgv(spec) == [driver |-> spec.driver, label |-> spec.project, name |-> spec.name]
CreateVolume(spec) ==
    /\ volumes' = volumes \cup {VolumeCreateArgv(spec).name}
    /\ UNCHANGED <<containers, made, networks, images, turns>>
-----------------------------------------------------------------------------
(* Containers.                                                              *)
RunArgv(spec) ==
    [name |-> spec.name,
     network |-> IF spec.network_mode # <<>> THEN spec.network_mode ELSE spec.networks,
     restart |-> IF spec.restart = "no" THEN <<>> ELSE <<spec.restart>>, env |-> spec.environment,
     volume |-> spec.volumes, publish |-> spec.ports,
     label |-> [project |-> spec.project, service |-> spec.service],
     entrypoint |-> spec.entrypoint, image |-> spec.image, command |-> spec.command]

Named_(name) == {id \in DOMAIN containers : containers[id].name = name}

\* podman refuses a name in use, an unknown network and an image it cannot get.
Runnable(argv) ==
    /\ Named_(argv.name) = {}
    /\ argv.image \in images \cup Remote
    /\ \A n \in ToSet(argv.network) :
            n \in Text => n \in networks \cup {<<"default">>}

\* a started container, or one that podman created and could not start
NewContainer(argv, state) ==
    /\ made < MaxContainers
    /\ made' = made + 1
    /\ containers' = Put(containers, made',
                        [name |-> argv.name, project |-> argv.label.project,
                         service |-> argv.label.service, state |-> state,
                         health |-> IF argv.image \in Probed THEN <<"starting">> ELSE <<>>])
    /\ images' = images \cup {argv.image}
    /\ UNCHANGED <<networks, volumes, turns>>

\* run: the id of the new container is made'
RunContainer(spec) == Runnable(RunArgv(spec)) /\ NewContainer(RunArgv(spec), "running")
RunAborted(spec) == Runnable(RunArgv(spec)) /\ NewContainer(RunArgv(spec), "created")

\* inspect: the health of a container that exists
Inspectable(id) == id \in DOMAIN containers
Inspect(id) == containers[id].health

StopArgv(id) == id
StopContainer(id) ==
    /\ id \in DOMAIN containers
    /\ containers' = [containers EXCEPT ![StopArgv(id)].state = "exited"]
    /\ UNCHANGED <<made, networks, volumes, images, turns>>

\* rm without --force: a running container is refused, a missing one is no error
Removable(id) == id \in DOMAIN containers => containers[id].state # "running"
RemoveContainer(id) ==
    /\ Removable(id)
    /\ containers' = [i \in DOMAIN containers \ {id} |-> containers[i]]
    /\ UNCHANGED <<made, networks, volumes, images, turns>>

\* ps --all --filter label=project
PsRunning(project) ==                                                \* mutant: no --all
    {id \in DOMAIN containers :
        containers[id].project = project /\ containers[id].state = "running"}
PsEvery(project) == DOMAIN containers                                \* mutant: no filter
Ps(project) == {id \in DOMAIN containers : containers[id].project = project}
-----------------------------------------------------------------------------
(* What containers do on their own.                                         *)
Exit(id) ==
    /\ turns < MaxTurns /\ turns' = turns + 1
    /\ containers[id].state = "running"
    /\ containers' = [containers EXCEPT ![id].state = "exited"]
    /\ UNCHANGED <<made, networks, volumes, images>>

Probe(id, reported) ==
    /\ turns < MaxTurns /\ turns' = turns + 1
    /\ containers[id].state = "running"
    /\ containers[id].health \notin {<<>>, << reported >>}
    /\ containers' = [containers EXCEPT ![id].health = << reported >>]
    /\ UNCHANGED <<made, networks, volumes, images>>
=============================================================================
