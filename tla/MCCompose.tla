------------------------------ MODULE MCCompose ------------------------------
(***************************************************************************)
(* Instances of SelurCompose for TLC, with the laws of ComposeLaws over      *)
(* every dependency graph of three services.                                 *)
(***************************************************************************)
EXTENDS ComposeLaws

MCNameChars == {"a", "b", "i", "n", "v"}
MCServices == 1..3
MCName == [s \in MCServices |-> <<CASE s = 1 -> "a" [] s = 2 -> "b" [] s = 3 -> "n">>]
-----------------------------------------------------------------------------
(* A service that says nothing but its image.                               *)
Plain == [Bare EXCEPT !.image = <<<<"i">>>>]
Built == [Plain EXCEPT !.image = <<>>,
            !.build = <<[context |-> <<".">>, dockerfile |-> <<>>, args |-> <<>>,
                         target |-> <<>>, labels |-> <<>>, no_cache |-> FALSE]>>]

\* service 1 is waited for by 2, which 3 depends on; 3 has a profile
Stack ==
    [File(<<>>, (1 :> [Plain EXCEPT !.image = <<<<"$", "{", "v", "}">>>>,
                         !.healthcheck = <<[test |-> <<<<"a">>>>, disable |-> FALSE]>>])
             @@ (2 :> [Built EXCEPT !.depends_on = After(1 :> "healthy"),
                         !.networks = <<<<"n">>>>, !.volumes = <<[form |-> "short",
                             text |-> <<"v", ":", "/", "a">>]>>])
             @@ (3 :> [Plain EXCEPT !.depends_on = [form |-> "list", names |-> <<2>>],
                         !.profiles = <<<<"b">>>>]))
     EXCEPT !.networks = <<<< <<"n">>, Resource >>>>, !.volumes = <<<< <<"v">>, Resource >>>>]
\* another file that does not name its project either
Other == File(<<>>, (3 :> Plain))
Lone == File(<<<<"b">>>>, (1 :> Plain))
Missing == File(<<>>, (1 :> [Plain EXCEPT !.image = <<<<"n">>>>]))
Unsound == File(<<>>, (1 :> [Plain EXCEPT !.image = <<>>]))
Knot == File(<<>>, (1 :> [Plain EXCEPT !.depends_on = After(1 :> "started")]))

Line_(command, file) ==
    [command |-> command, file |-> <<>>, here |-> << <<>>, <<file>> >>,
     process |-> [k \in {} |-> k], dot_env |-> << << <<"v", "=", "i">> >> >>, env_files |-> <<>>,
     profiles |-> <<>>, project_name |-> <<>>, services |-> <<>>,
     dry_run |-> FALSE, no_build |-> FALSE, no_pull |-> FALSE, follow |-> FALSE]

CommandLines ==
       ("up" :> Line_("up", Stack))
    @@ ("upAll" :> [Line_("up", Stack) EXCEPT !.profiles = <<<<"b">>>>, !.no_pull = TRUE])
    @@ ("upUnbuilt" :> [Line_("up", Stack) EXCEPT !.no_build = TRUE])
    @@ ("upOther" :> Line_("up", Other))
    @@ ("upLone" :> Line_("up", Lone))
    @@ ("pullMissing" :> Line_("pull", Missing))
    @@ ("upKnot" :> Line_("up", Knot))
    @@ ("upDry" :> [Line_("up", Stack) EXCEPT !.dry_run = TRUE])
    @@ ("down" :> Line_("down", Stack))
    @@ ("downLone" :> Line_("down", Lone))
    @@ ("build" :> Line_("build", Stack))
    @@ ("ps" :> Line_("ps", Stack))
    @@ ("logs" :> Line_("logs", Stack))
    @@ ("logsFollow" :> [Line_("logs", Stack) EXCEPT !.follow = TRUE, !.services = <<1>>])
    @@ ("config" :> Line_("config", Stack))
    @@ ("configUnsound" :> Line_("config", Unsound))
    @@ ("version" :> Line_("version", Stack))
MCJob == CommandLines
MCJobs == DOMAIN CommandLines
\* what an earlier up of Stack that did not finish and one of Lone have left
MCLeftover ==
       (1 :> [name |-> <<"project", "_", "a">>, project |-> <<"project">>, service |-> 1,
              state |-> "exited", health |-> <<"unhealthy">>])
    @@ (2 :> [name |-> <<"b", "_", "a">>, project |-> <<"b">>, service |-> 1,
              state |-> "running", health |-> <<"healthy">>])
MCRemote == {<<"i">>}
MCProbed == {<<"i">>}
=============================================================================
