---------------------------- MODULE MCInstances ----------------------------
(* Instances on a machine with three users' worth of environments.         *)
EXTENDS Instances

Symmetry == Permutations(Processes)

Srv == <<"/", "srv">>
Home == <<"/", "home">>
Toml == <<"novelnote.toml">>

Dirs(user) ==
  [config |-> <<"/", user, "config">>, data |-> <<"/", user, "data">>,
   state |-> <<"/", user, "state">>, runtime |-> <<"/", "run", user>>]

(* Started as alice in /srv, with no options.                              *)
Plain(kind) ==
  [kind |-> kind, cwd |-> Srv, user |-> "alice", dirs |-> Dirs("alice"),
   config_file |-> Unset, args |-> <<>>, vars |-> <<>>, overwrite |-> FALSE]

(* The environment sets a relative database directory, and a socket for    *)
(* each of the servers.                                                    *)
Relative(kind) ==
  [Plain(kind) EXCEPT
     !.vars = "database.directory" :> <<"data">> @@
              "admin.socket_path" :> <<"/", "run", "admin.sock">> @@
              "http.bind_address" :> <<".", "http.sock">> @@
              "log.output" :> "file"]

MCLaunches ==
  { Plain("serve"), Plain("backup"), Plain("config-template"),
    Relative("serve"), Relative("backup"),
    [Relative("backup") EXCEPT !.cwd = Home, !.user = Root],
    [Relative("backup") EXCEPT !.user = "bob"],
    \* a second server beside the first, HTTP at the name of the admin socket
    [Plain("serve") EXCEPT !.args =
        "http.bind_address" :> <<"/", "run", "alice", "novelnote_admin.sock">>],
    \* a file given, with a value that health-check does not read; another user
    [Plain("backup") EXCEPT !.config_file = <<"bob.toml">>,
                            !.args = "admin.timeout" :> 7],
    [Plain("health-check") EXCEPT !.user = "bob", !.dirs = Dirs("bob"),
                                  !.config_file = <<"bob.toml">>],
    [Plain("serve") EXCEPT !.config_file = <<"novelnote.conf">>],
    \* a job without XDG_RUNTIME_DIR
    [Plain("health-check") EXCEPT !.dirs.runtime = Unset],
    [Plain("config-template") EXCEPT !.overwrite = TRUE] }

MCConfigFiles ==
  (Srv \o <<"bob.toml">>) :>
     ("admin.socket_path" :> <<"/", "run", "alice", "novelnote_admin.sock">>
      @@ "http.port" :> 70000)
  @@ (<<"/", "etc", "novelnote">> \o Toml) :> ("admin.timeout" :> 60)

MCEdits == { <<Srv \o Toml, "admin.enabled" :> FALSE>> }

MCExisting == {<<"/">>, Srv, Home}
=============================================================================
