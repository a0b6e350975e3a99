----------------------------- MODULE ComposeLaws -----------------------------
(***************************************************************************)
(* What the pure parts of selur-compose promise: the expansion of texts, the *)
(* environments they are read against, the waves and the plans.  None of it  *)
(* depends on the state, so that it is evaluated before the first command is *)
(* typed.                                                                    *)
(***************************************************************************)
EXTENDS SelurCompose

AtStart == cli = <<>> /\ turns = 0
-----------------------------------------------------------------------------
(* Interpolation.                                                           *)
Short(chars, n) == UNION {[1..k -> chars] : k \in 0..n}
Doubled(t) == FlattenSeq([i \in DOMAIN t |-> IF t[i] = "$" THEN <<"$", "$">> ELSE <<t[i]>>])
Ref(name, modifier) == <<"$", "{">> \o name \o modifier \o <<"}">>
\* nothing is defined, or one name is
Envs == {[k \in {} |-> k]}
        \cup {[k \in {<<"_">>} |-> v] : v \in {<<>>, <<":">>, <<"$", "_">>}}

\* Expansion is exact: a text whose dollars are doubled comes out as it was
\* written; a reference is replaced by its value and nothing in the value, in
\* the default or around it is expanded again or lost.
ExpandLaw == AtStart =>
    /\ \A t \in Short({"$", "{", "_", "}"}, 4), env \in Envs : Expand(Doubled(t), env) = Ok(t)
    /\ \A t \in Short({"{", "}", "_"}, 2), d \in Short({"-", "_", "$"}, 2),
          colon \in BOOLEAN, env \in Envs :
          LET modifier == (IF colon THEN <<":">> ELSE <<>>) \o <<"-">> \o d
              set == <<"_">> \in DOMAIN env
              value == IF set /\ (colon => env[<<"_">>] # <<>>) THEN env[<<"_">>] ELSE d
          IN  /\ Expand(t \o Ref(<<"_">>, modifier) \o t, env) = Ok(t \o value \o t)
              /\ Expand(t \o Ref(<<"_">>, <<>>) \o t, env).ok <=> set
-----------------------------------------------------------------------------
(* Environments.                                                            *)
Assign(v, quote) == <<"_", "=">> \o quote \o v \o quote
Values == {<<":">>, <<" ", "?">>}
Sources == {<<>>} \cup {<< <<Assign(v, q)>> >> : v \in Values, q \in {<<>>, <<"'">>}}

\* What a source that defines the name says of it.
Meant(source) == LET t == Tail2(source[1][1], 3)
                 IN  IF t[1] = "'" THEN SubSeq(t, 2, Len(t) - 1) ELSE t

Given(source) == IF source = <<>> THEN <<>> ELSE <<source>>
\* The name has the value the process gives it, or else what a file says of it.
Sourced(value, own, dot, extra) ==
    LET said == {<<Meant(source)>> : source \in {dot, extra} \ {<<>>}}
    IN  value \in IF <<"_">> \in DOMAIN own THEN {<< own[<<"_">>] >>}
                 ELSE IF said = {} THEN {<<>>} ELSE said

\* No file changes a variable of the process, a name that any file defines has the
\* value that one of them gives it and is otherwise undefined, a quoted value
\* keeps its blanks but not its quotes, and an explicit override beats them all.
EnvLaw == AtStart =>
    \A own \in {[k \in {} |-> k], [k \in {<<"_">>} |-> <<"$">>]},
       dot \in Sources, extra \in Sources :
        LET env == BuildEnv(own, dot, Given(extra)).val
        IN  /\ Sourced(Get(env, <<"_">>), own, dot, extra)
            /\ Get(WithOverrides(env, << << <<"_">>, <<"?">> >> >>), <<"_">>) = << <<"?">> >>

-----------------------------------------------------------------------------
(* Plans, over every way the services can depend on one another.            *)

\* a service that says only what it is made of and whom it needs, and a file of such
Bare == [image |-> <<<<"latest">>>>, build |-> <<>>, command |-> <<>>, entrypoint |-> <<>>,
         environment |-> [form |-> "empty"], env_file |-> <<>>, ports |-> <<>>, volumes |-> <<>>,
         networks |-> <<>>, network_mode |-> <<>>, depends_on |-> [form |-> "empty"],
         healthcheck |-> <<>>, restart |-> "no", profiles |-> <<>>, secrets |-> <<>>,
         text |-> <<>>]
Resource == [driver |-> <<>>, driver_opts |-> <<>>, external |-> FALSE, name |-> <<>>,
             labels |-> <<>>]
File(project, services) ==
    [project |-> project, services |-> services, networks |-> <<>>, volumes |-> <<>>,
     secrets |-> <<>>]
After(deps) == [form |-> "map", specs |-> deps]
Wired(specs) == [s \in Services |-> [Bare EXCEPT !.depends_on = After(specs[s])]]
Wiring(conditions) == [Services -> Partial(Services, conditions)]
WiredFile(specs) ==
    [File(<<>>, Wired(specs)) EXCEPT !.networks = << <<<<"_">>, Resource>> >>,
                                     !.volumes = << <<<<"_">>, Resource>> >>]
\* services that wait for one another
Waits(C, specs) == C # {} /\ \A s \in C : DOMAIN specs[s] \cap C # {}
Knotted(specs) == \E C \in SUBSET Services : Waits(C, specs)

\* waves in which each service has one place, after all it needs and not too late
InLayers(specs, waves) ==
    LET In_(s) == {k \in DOMAIN waves : \E i \in DOMAIN waves[k] : waves[k][i] = s}
    IN  /\ \A k \in DOMAIN waves : \A i, h \in DOMAIN waves[k] : waves[k][i] = waves[k][h] => i = h
        /\ \A s \in Services : \E k \in DOMAIN waves :
              /\ In_(s) = {k}
              /\ \A d \in DOMAIN specs[s] : \E m \in 1..(k - 1) : In_(d) = {m}
              /\ k = 1 \/ \E d \in DOMAIN specs[s] : In_(d) = {k - 1}
Layers(specs, waves) ==
    IF Knotted(specs)
    THEN ~waves.ok /\ \E C \in SUBSET ToSet(waves.path) : Waits(C, specs)
    ELSE waves.ok /\ InLayers(specs, waves.val)

\* Each service is in exactly one wave, after all it depends on, and no later
\* than it must be; planning fails exactly when services wait for one another,
\* and then names some that do.
WavesSound == AtStart =>
    \A specs \in Wiring({"started"}) :
        Layers(specs, TopologicalWaves(BuildGraph(Wired(specs)).val))

\* The plan of an up has a container for each service its profiles select and no
\* other, and everything a container needs comes before it: networks, volumes and
\* images, the containers it depends on, and one barrier between a container it
\* wants healthy and itself.
PlanSound(ops, active) ==
    LET Places(kinds, s) == {i \in DOMAIN ops : ops[i].op \in kinds /\ ops[i].service = s}
        shared == {i \in DOMAIN ops : ops[i].op \in {"network", "volume"}}
        Precede(I, K) == \A i \in I, k \in K : i < k
    IN  /\ Precede(shared, DOMAIN ops \ shared)
        /\ \A i \in DOMAIN ops \ shared : ops[i].service \in DOMAIN active
        /\ \A s \in DOMAIN active :
              /\ \E i \in DOMAIN ops : Places({"run"}, s) = {i}
              /\ \E i \in DOMAIN ops : Places({"build", "pull"}, s) = {i}
              /\ \A t \in DOMAIN active : Precede(Places({"build", "pull"}, t), Places({"run"}, s))
              /\ \A i, k \in Places({"wait"}, s) : i = k
              /\ Precede(Places({"run"}, s), Places({"wait"}, s))
              /\ \A d \in ToSet(DepsOf(active[s])) :
                    /\ Precede(Places({"run"}, d[1]), Places({"run"}, s))
                    /\ d[2] = "healthy" =>
                          /\ Places({"wait"}, d[1]) # {}
                          /\ Precede(Places({"wait"}, d[1]), Places({"run"}, s))
Chosen(j) == [s \in Selected(j) |-> Service_(j, s)]
PlanOrdered == AtStart =>
    /\ StepsOrdered /\ StepsComplete
    /\ \A j \in Jobs : Loads[j].ok => PlanSound(Loads[j].val.plan.ops, Chosen(j))
    /\ \A specs \in Wiring({"started", "healthy"}) : ~Knotted(specs) =>
          LET plan == Plan(WiredFile(specs),
                           [profiles |-> <<>>, project_name |-> <<>>, services |-> <<>>])
          IN  plan.ok /\ PlanSound(plan.val.ops, Wired(specs))
=============================================================================
