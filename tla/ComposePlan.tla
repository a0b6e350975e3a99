----------------------------- MODULE ComposePlan -----------------------------
(***************************************************************************)
(* selur-compose-plan: the pure function from a compose file to the ordered *)
(* operations that bring the stack up.  Services are filtered by profile,   *)
(* their references checked, layered by depends_on with Kahn's algorithm,   *)
(* and laid out wave by wave with a barrier before a wave that needs an     *)
(* earlier service healthy.  The config-hash label, which nothing reads     *)
(* back, is left out.                                                       *)
(***************************************************************************)
EXTENDS ComposeFile

CONSTANT Name       \* the text of each service's name
ASSUME NameAssumption == Name \in [Services -> Text]

PlanOptions == [profiles : Seq(Text), project_name : Option(Text), services : Seq(Services)]
-----------------------------------------------------------------------------
(* profiles.rs                                                              *)
FilterUnlisted(compose, enabled) ==            \* mutant: profiles are never enabled
    Ok([s \in {t \in DOMAIN compose.services : compose.services[t].profiles = <<>>} |->
            compose.services[s]])
FilterServices(compose, enabled) ==
    LET Profiles(s) == ToSet(compose.services[s].profiles)
        all == UNION {Profiles(s) : s \in DOMAIN compose.services}
        active == {s \in DOMAIN compose.services :
                      Profiles(s) = {} \/ Profiles(s) \cap ToSet(enabled) # {}}
    IN  IF ~(ToSet(enabled) \subseteq all) THEN Err("UnknownProfile")
        ELSE Ok([s \in active |-> compose.services[s]])
-----------------------------------------------------------------------------
(* dag.rs                                                                   *)
DepsOf(svc) ==
    CASE svc.depends_on.form = "empty" -> <<>>
      [] svc.depends_on.form = "list" -> ForEach(LAMBDA s : <<s, "started">>, svc.depends_on.names)
      [] svc.depends_on.form = "map" ->
            ForEach(LAMBDA s : <<s, svc.depends_on.specs[s]>>, InOrder(DOMAIN svc.depends_on.specs))

NoDependencies(svc) == <<>>                                                   \* mutant
HealthyDependencies(svc) ==
    IF svc.depends_on.form # "map" THEN <<>>
    ELSE InOrder({s \in DOMAIN svc.depends_on.specs : svc.depends_on.specs[s] = "healthy"})

\* An edge goes from a dependency to the service that needs it; a list that
\* names a dependency twice gives two.
BuildGraph(active) ==
    LET EdgesOf(s) == ForEach(LAMBDA d : [from |-> d[1], to |-> s, kind |-> d[2]],
                              DepsOf(active[s]))
        edges == FlattenSeq(ForEach(EdgesOf, InOrder(DOMAIN active)))
    IN  IF \E i \in DOMAIN edges : edges[i].from \notin DOMAIN active
        THEN Err("MissingDependency")
        ELSE Ok([names |-> DOMAIN active, edges |-> edges,
                 in_degree |-> [s \in DOMAIN active |->
                                   Cardinality({i \in DOMAIN edges : edges[i].to = s})]])

\* mutant: a successor is ready as soon as one of its dependencies is placed
EagerWaves(graph) ==
    LET round[k \in Nat] ==
            IF k = 0 THEN {n \in graph.names : graph.in_degree[n] = 0}
            ELSE {graph.edges[i].to : i \in {j \in DOMAIN graph.edges :
                                                graph.edges[j].from \in round[k - 1]}}
        waves == SelectSeq([k \in 1..Cardinality(graph.names) |-> InOrder(round[k - 1])],
                           LAMBDA wave : wave # <<>>)
    IN  Ok(waves)

\* Kahn's algorithm.  A round holds the in-degrees left when its wave is drained
\* and the wave: what dropped to zero when the wave before was placed.
FirstRound(graph) ==
    [left |-> graph.in_degree, wave |-> {n \in graph.names : graph.in_degree[n] = 0}]
NextRound(graph, before) ==
    LET Placed(n) == {i \in DOMAIN graph.edges :
                        graph.edges[i].from \in before.wave /\ graph.edges[i].to = n}
        left == [n \in graph.names |-> before.left[n] - Cardinality(Placed(n))]
    IN  [left |-> left, wave |-> {n \in graph.names : left[n] = 0 /\ before.left[n] # 0}]
Rounds(graph) ==
    LET round[k \in Nat] ==
            IF k = 0 THEN FirstRound(graph) ELSE NextRound(graph, round[k - 1])
    IN  round

\* The loop goes on until a wave is empty, at the latest when all are placed.
TopologicalWaves(graph) ==
    LET round == Rounds(graph)
        n == Cardinality(graph.names)
        drained == {k \in 1..n : \A i \in 1..k : round[i - 1].wave # {}}
        stuck == {s \in graph.names : round[n].left[s] > 0}
    IN  IF stuck # {} THEN [ok |-> FALSE, val |-> "Cycle", path |-> InOrder(stuck)]
        ELSE Ok([k \in drained |-> InOrder(round[k - 1].wave)])
-----------------------------------------------------------------------------
(* lib.rs: references.  "default" is the implicit network; short mounts     *)
(* whose source begins with . or / are bind mounts.                         *)
KnownNetworks(compose) == Keys(compose.networks) \cup {<<"default">>}

NamedVolumes(svc) ==
    LET Source(m) ==
            IF m.form = "short"
            THEN LET colon == SelectInSeq(m.text, LAMBDA b : b = ":")
                 IN  <<IF colon = 0 THEN m.text ELSE SubSeq(m.text, 1, colon - 1)>>
            ELSE IF m.mount_type = "volume" THEN m.source ELSE <<>>
        Bind(m) == m.form = "short" /\ Source(m)[1] # <<>> /\ Source(m)[1][1] \in {".", "/"}
    IN  UNION {ToSet(Source(m)) : m \in {x \in ToSet(svc.volumes) : ~Bind(x)}}

ValidateReferences(compose, active) ==
    CASE \E s \in DOMAIN active : ~(ToSet(active[s].networks) \subseteq KnownNetworks(compose)) ->
            Err("UnknownNetwork")
      [] \E s \in DOMAIN active : ~(NamedVolumes(active[s]) \subseteq Keys(compose.volumes)) ->
            Err("UnknownVolume")
      [] OTHER -> Ok(active)
-----------------------------------------------------------------------------
(* lib.rs: operations, with the labels they carry and without the ones for   *)
(* stopping and removing, which no plan contains.                            *)
Op ==
    [op : {"network", "volume"}, name : Text, driver : Option(Text), project : Text]
    \cup [op : {"build"}, service : Services, context : Text, dockerfile : Option(Text),
          args : Dict, target : Option(Text), tag : Text, no_cache : BOOLEAN]
    \cup [op : {"pull"}, service : Services, image : Text]
    \cup [op : {"run"}, service : Services, project : Text, image : Text, name : Text,
          environment : Seq(Text), ports : Seq(Text), volumes : Seq(Text), networks : Seq(Text),
          network_mode : Option(NetworkMode), command : Option(Seq(Text)),
          entrypoint : Option(Seq(Text)), restart : RestartPolicy]
    \cup [op : {"wait"}, service : Services, name : Text]

ContainerName(project, s) == project \o <<"_">> \o Name[s]
Tag(project, s) == ContainerName(project, s) \o <<":", "latest">>

NetworkOps(compose, project) ==
    ForEach(LAMBDA n : [op |-> "network", name |-> n[1], driver |-> n[2].driver,
                       project |-> project],
         compose.networks)
VolumeOps(compose, project) ==
    ForEach(LAMBDA v : [op |-> "volume", name |-> v[1], driver |-> v[2].driver,
                       project |-> project],
         compose.volumes)

BuildOp(project, s, build) ==
    [op |-> "build", service |-> s, context |-> build.context, dockerfile |-> build.dockerfile,
     args |-> build.args, target |-> build.target, tag |-> Tag(project, s),
     no_cache |-> build.no_cache]
ImageOps(active, project) ==
    ForEach(LAMBDA s : IF active[s].build # <<>> THEN BuildOp(project, s, active[s].build[1])
                    ELSE [op |-> "pull", service |-> s, image |-> active[s].image[1]],
         InOrder(DOMAIN active))

\* One barrier for each service that wave k needs healthy and that has none yet.
Wanted_(waves, k, active) ==
    FlattenSeq(ForEach(LAMBDA s : HealthyDependencies(active[s]), waves[k]))
WaitOps(waves, k, active, project) ==
    LET wanted == Wanted_(waves, k, active)
        emitted == UNION {ToSet(Wanted_(waves, j, active)) : j \in 1..(k - 1)}
        fresh == {i \in DOMAIN wanted : /\ wanted[i] \notin emitted
                                        /\ \A h \in 1..(i - 1) : wanted[h] # wanted[i]}
    IN  ForEach(LAMBDA d : [op |-> "wait", service |-> d, name |-> ContainerName(project, d)],
                AtPlaces(wanted, fresh))

Environment(em) ==
    CASE em.form = "empty" -> <<>>
      [] em.form = "list" -> em.items
      [] em.form = "map" ->
            ForEach(LAMBDA kv : IF kv[2] = <<>> THEN kv[1] ELSE kv[1] \o <<"=">> \o kv[2][1],
                    em.items)
PortText(port) ==
    LET proto == <<"/">> \o (IF port.protocol = <<>> THEN <<"tcp">> ELSE port.protocol[1])
        host == IF port.host_ip = <<>> THEN <<>> ELSE port.host_ip[1] \o <<":">>
    IN  CASE port.form = "short" -> port.text
          [] port.form = "long" /\ port.published # <<>> ->
                host \o port.published[1] \o <<":">> \o port.target \o proto
          [] OTHER -> port.target \o proto
MountText(mount) ==
    IF mount.form = "short" THEN mount.text
    ELSE (IF mount.source = <<>> THEN <<>> ELSE mount.source[1]) \o <<":">> \o mount.target
         \o (IF mount.read_only THEN <<":", "ro">> ELSE <<>>)
AsList(sol) == IF sol.form = "string" THEN <<sol.text>> ELSE sol.items

\* What a container is run with.  healthcheck, env_file, secrets, user and the
\* other texts of a service have no place in it.
RunOp(project, s, svc) ==
    [op |-> "run", service |-> s, project |-> project,
     image |-> IF svc.build # <<>> THEN Tag(project, s) ELSE svc.image[1],
     name |-> ContainerName(project, s),
     environment |-> Environment(svc.environment),
     ports |-> ForEach(PortText, svc.ports), volumes |-> ForEach(MountText, svc.volumes),
     networks |-> IF svc.network_mode # <<>> THEN <<>> ELSE svc.networks,
     network_mode |-> svc.network_mode,
     command |-> ForEach(AsList, svc.command), entrypoint |-> ForEach(AsList, svc.entrypoint),
     restart |-> svc.restart]

WaveOpsLate(waves, k, active, project) ==             \* mutant: barriers after the wave
    ForEach(LAMBDA s : RunOp(project, s, active[s]), waves[k])
        \o WaitOps(waves, k, active, project)
WaveOps(waves, k, active, project) ==
    WaitOps(waves, k, active, project)
        \o ForEach(LAMBDA s : RunOp(project, s, active[s]), waves[k])

ProjectName(compose, opts) ==
    CASE opts.project_name # <<>> -> opts.project_name[1]
      [] opts.project_name = <<>> /\ compose.project # <<>> -> compose.project[1]
      [] OTHER -> <<"project">>
KnownServices(active, wanted) ==
    IF ToSet(wanted) \subseteq DOMAIN active THEN Ok(active) ELSE Err("UnknownService")

Layout(compose, active, waves, project) ==
    [ops |-> NetworkOps(compose, project) \o VolumeOps(compose, project)
             \o ImageOps(active, project)
             \o FlattenSeq([k \in DOMAIN waves |-> WaveOps(waves, k, active, project)]),
     waves |-> waves, project |-> project]

Plan(compose, opts) ==
    AndThen(FilterServices(compose, opts.profiles), LAMBDA active :
    AndThen(KnownServices(active, opts.services), LAMBDA asked :
    AndThen(ValidateReferences(compose, active), LAMBDA valid :
    AndThen(BuildGraph(active), LAMBDA graph :
    AndThen(TopologicalWaves(graph), LAMBDA waves :
        Ok(Layout(compose, active, waves, ProjectName(compose, opts))))))))
=============================================================================
