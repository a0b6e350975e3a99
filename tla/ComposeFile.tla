----------------------------- MODULE ComposeFile -----------------------------
(***************************************************************************)
(* selur-compose-schema and the visitor of selur-compose-interp: what a     *)
(* compose file may say, when parse_str accepts it, and which of its texts  *)
(* are interpolated.  Services are numbers in the order of their names, the *)
(* order of every BTreeMap here; other maps are sequences of pairs in the   *)
(* order of their keys.  Durations, modes, uids and TOML syntax are left    *)
(* out.                                                                     *)
(***************************************************************************)
EXTENDS Interp

CONSTANT Services       \* the numbers of the services that may occur
ASSUME ServicesAssumption == Services \subseteq Nat /\ IsFiniteSet(Services)

Dict == Seq(Text \X Text)
Partial(D, S) == UNION {[A -> S] : A \in SUBSET D}
-----------------------------------------------------------------------------
(* The types of the schema.                                                 *)
Build == [context : Text, dockerfile : Option(Text), args : Dict,
          target : Option(Text), labels : Dict, no_cache : BOOLEAN]

RestartPolicy == {"no", "always", "on-failure", "unless-stopped"}
EnvBlock == [form : {"empty"}] \cup [form : {"list"}, items : Seq(Text)]
            \cup [form : {"map"}, items : Seq(Text \X Option(Text))]
StringOrList == [form : {"string"}, text : Text] \cup [form : {"list"}, items : Seq(Text)]

DependsCondition == {"started", "healthy", "completed"}
DependsOn == [form : {"empty"}] \cup [form : {"list"}, names : Seq(Services)]
             \cup [form : {"map"}, specs : Partial(Services, DependsCondition)]

MountLong == [form : {"long"}, mount_type : {"volume", "bind", "tmpfs"},
              source : Option(Text), target : Text, read_only : BOOLEAN]
MountSpec == [form : {"short"}, text : Text] \cup MountLong

PortLong == [form : {"long"}, host_ip : Option(Text), target : Text,
             published : Option(Text), protocol : Option(Text)]
PortBinding == [form : {"short"}, text : Text] \cup PortLong

NetworkMode == [kind : {"bridge", "host", "none"}]
               \cup [kind : {"container", "custom"}, arg : Text]
Network == [driver : Option(Text), driver_opts : Dict, external : BOOLEAN,
            name : Option(Text), labels : Dict]
Volume == Network       \* the same fields

Healthcheck == [test : Seq(Text), disable : BOOLEAN]
Secret == [name : Option(Text), external : BOOLEAN]
SecretRef == [form : {"name"}, text : Text]
             \cup [form : {"long"}, source : Text, owner : Option(Text)]

\* text stands for the optional texts (user, working_dir, hostname, stop_signal)
\* and capabilities, which are handled alike.
Service == [image : Option(Text), build : Option(Build),
            command : Option(StringOrList), entrypoint : Option(StringOrList),
            environment : EnvBlock, env_file : Seq(Text), ports : Seq(PortBinding),
            volumes : Seq(MountSpec), networks : Seq(Text),
            network_mode : Option(NetworkMode), depends_on : DependsOn,
            healthcheck : Option(Healthcheck), restart : RestartPolicy,
            profiles : Seq(Text), secrets : Seq(SecretRef), text : Seq(Text)]

Named(S) == {d \in Seq(Text \X S) : \A i, j \in DOMAIN d : d[i][1] = d[j][1] => i = j}
Compose == [project : Option(Text), services : Partial(Services, Service),
            networks : Named(Network), volumes : Named(Volume), secrets : Named(Secret)]

Keys(dict) == {dict[i][1] : i \in DOMAIN dict}

\* parse_str: what serde accepts is a Compose; every service needs an image or a build.
Validate(compose) ==
    IF \E s \in DOMAIN compose.services :
            compose.services[s].image = <<>> /\ compose.services[s].build = <<>>
    THEN Err("MissingImageOrBuild") ELSE Ok(compose)
-----------------------------------------------------------------------------
(* The visitor: x is the function that expands one text.  What is a path, a  *)
(* port, a service name or a key is left as it is.                          *)
Each(x, texts) == [i \in DOMAIN texts |-> x[texts[i]]]
EachValue(x, dict) == [i \in DOMAIN dict |-> <<dict[i][1], x[dict[i][2]]>>]

VisitBuild(b, x) ==
    [b EXCEPT !.args = EachValue(x, @), !.target = Each(x, @), !.labels = EachValue(x, @)]

VisitStringOrList(sol, x) ==
    IF sol.form = "string" THEN [sol EXCEPT !.text = x[@]] ELSE [sol EXCEPT !.items = Each(x, @)]

VisitEnvMap(em, x) ==
    CASE em.form = "empty" -> em
      [] em.form = "list" -> [em EXCEPT !.items = Each(x, @)]
      [] em.form = "map" ->
            [em EXCEPT !.items = [i \in DOMAIN @ |-> <<@[i][1], Each(x, @[i][2])>>]]

VisitMount(m, x) == IF m.form = "short" THEN [m EXCEPT !.text = x[@]] ELSE m

VisitNetworkMode(nm, x) ==
    IF nm.kind \in {"container", "custom"} THEN [nm EXCEPT !.arg = x[@]] ELSE nm

VisitDependsOn(d, x) == d

VisitHealthcheck(h, x) == [h EXCEPT !.test = Each(x, @)]

VisitSecretRef(sr, x) ==
    IF sr.form = "name" THEN [sr EXCEPT !.text = x[@]]
    ELSE [sr EXCEPT !.source = x[@], !.owner = Each(x, @)]

VisitService(s, x) ==
    [s EXCEPT
        !.image = Each(x, @), !.networks = Each(x, @), !.profiles = Each(x, @),
        !.text = Each(x, @),
        !.build = [i \in DOMAIN @ |-> VisitBuild(@[i], x)],
        !.command = [i \in DOMAIN @ |-> VisitStringOrList(@[i], x)],
        !.entrypoint = [i \in DOMAIN @ |-> VisitStringOrList(@[i], x)],
        !.environment = VisitEnvMap(@, x),
        !.volumes = [i \in DOMAIN @ |-> VisitMount(@[i], x)],
        !.network_mode = [i \in DOMAIN @ |-> VisitNetworkMode(@[i], x)],
        !.depends_on = VisitDependsOn(@, x),
        !.healthcheck = [i \in DOMAIN @ |-> VisitHealthcheck(@[i], x)],
        !.secrets = [i \in DOMAIN @ |-> VisitSecretRef(@[i], x)]]

\* networks and volumes
VisitResource(n, x) ==
    [n EXCEPT !.driver = Each(x, @), !.name = Each(x, @),
              !.driver_opts = EachValue(x, @), !.labels = EachValue(x, @)]
VisitSecret(s, x) == [s EXCEPT !.name = Each(x, @)]

VisitCompose(c, x) ==
    LET Table(entries, Visit(_)) ==
            [i \in DOMAIN entries |-> <<entries[i][1], Visit(entries[i][2])>>]
    IN  [project |-> Each(x, c.project),
         services |-> [s \in DOMAIN c.services |-> VisitService(c.services[s], x)],
         networks |-> Table(c.networks, LAMBDA n : VisitResource(n, x)),
         volumes |-> Table(c.volumes, LAMBDA v : VisitResource(v, x)),
         secrets |-> Table(c.secrets, LAMBDA r : VisitSecret(r, x))]

\* The visit fails when a visited text does: marking those changes the result.
Interpolate(c, env) ==
    With([t \in Text |-> Expand(t, env)], LAMBDA x :
        IF VisitCompose(c, [t \in Text |-> TRUE]) = VisitCompose(c, [t \in Text |-> x[t].ok])
        THEN Ok(VisitCompose(c, [t \in Text |-> x[t].val]))
        ELSE Err("Interpolation"))
=============================================================================
