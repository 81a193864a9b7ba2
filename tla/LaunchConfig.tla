--------------------------- MODULE LaunchConfig ---------------------------
(***************************************************************************)
(* SparkLauncher::launch: choosing a version, building the Python          *)
(* environment, and merging the layers of configuration into the command   *)
(* line of spark-submit.                                                   *)
(*                                                                         *)
(* A configuration is a partial function from properties to values.  A     *)
(* value is the list of its comma-separated items, and an item remembers   *)
(* the layer it came from and what validate_file_configs sees of it.       *)
(***************************************************************************)
EXTENDS Naturals, Sequences

CONSTANTS
    LayerKeys,    \* the properties the user may set and the administrator force
    JoinedKeys,   \* those the administrator has defaults and merged values for
    UserValues,   \* the shapes (lists of Paths) of a user's values
    Names         \* the names of the configured versions, in order

Paths == {"empty",     \* nothing between two commas
          "remote",    \* has a protocol, and not file://
          "local",     \* has no protocol
          "file"}      \* starts with file://

AppName      == "spark.app.name"
Archives     == "spark.archives"
WorkerPython == "spark.sql.execution.pyspark.python"
FileKeys     == {"spark.files", Archives, "spark.submit.pyFiles"}
InternalKeys == {"spark.connect.authenticate.token", "spark.plug.callback",
                 "spark.plug.idle.timeout", "spark.extraListeners",
                 "spark.connect.grpc.interceptor.classes", "spark.connect.grpc.binding.port"}

ASSUME LaunchAssumption ==
    /\ JoinedKeys \subseteq LayerKeys
    /\ UserValues \subseteq Seq(Paths) \ {<<>>}
    /\ Names \in Seq(STRING) \ {<<>>}

VARIABLES
    pc,        \* where launch() is
    request,   \* its arguments
    version,   \* the chosen SparkVersion
    files,     \* what this launch has in the temporary directory
    orphan,    \* the program that outlived the future that waited for it
    command    \* the arguments of spark-submit

vars == <<pc, request, version, files, orphan, command>>

Item(from, path) == [from |-> from, path |-> path]
One(from) == <<Item(from, "remote")>>
NoValue == <<Item("user", "empty")>>     \* the empty string

Partial(K, V) == UNION {[S -> V] : S \in SUBSET K}

\* The part of a value that matters: its items that are not blank.
Content(v) == {v[i] : i \in {j \in DOMAIN v : v[j].path # "empty"}}

\* Requests: the user's values are lists of any shape at a file property and
\* single items elsewhere.
UserConfigs ==
    {u \in Partial(LayerKeys, {[i \in DOMAIN s |-> Item("user", s[i])] : s \in UserValues}) :
        \A k \in DOMAIN u \ FileKeys : u[k] = One("user")}

Requests == [version : {Names[i] : i \in DOMAIN Names} \cup {"none", "unknown"},
             name : BOOLEAN, packages : BOOLEAN, user : UserConfigs]

SparkVersions == [index : DOMAIN Names, python : BOOLEAN, proxy_user : BOOLEAN,
                  default_configs : Partial(JoinedKeys, {One("default")}),
                  merge_configs : Partial(JoinedKeys, {One("merge")}),
                  override_configs : Partial(LayerKeys, {One("override")})]

Init ==
    /\ pc = "start"
    /\ request \in Requests
    /\ version = <<>>
    /\ files = {}
    /\ orphan = "none"
    /\ command = <<>>

-----------------------------------------------------------------------------
(* The configuration, as operators                                         *)

\* HashMap::extend and insert: f, or the one entry of k, over configs.
Over(f, configs) ==
    [k \in DOMAIN f \cup DOMAIN configs |-> IF k \in DOMAIN f THEN f[k] ELSE configs[k]]
Insert(k, value, configs) == Over([x \in {k} |-> value], configs)

\* Fault-seeded variants: the user's values are applied last; a merged value
\* yields to the user's.
BuildConfUserLast(v, user) ==
    LET configs == Over(user, v.default_configs)
    IN  Over(user, Over(v.override_configs, Over(v.merge_configs, configs)))
BuildConfNoMerge(v, user) ==
    Over(v.override_configs, Over(user, Over(v.merge_configs, v.default_configs)))

\* build_conf: defaults, overwritten by the user's, joined with the merged
\* values, overwritten by the forced ones.
BuildConf(v, user) ==
    LET configs == Over(user, v.default_configs)
        merged  == [k \in DOMAIN v.merge_configs |->
                       IF k \in DOMAIN configs THEN configs[k] \o v.merge_configs[k]
                                               ELSE v.merge_configs[k]]
    IN  Over(v.override_configs, Over(merged, configs))

\* Fault-seeded variant: only the first item of a list is looked at.
ValidateFirstItem(user) ==
    \A k \in FileKeys \cap DOMAIN user : Head(user[k]).path \in {"empty", "remote"}

\* validate_file_configs, which sees the user's layer only.
ValidateFileConfigs(user) ==
    \A k \in FileKeys \cap DOMAIN user :
        \A i \in DOMAIN user[k] : user[k][i].path \in {"empty", "remote"}

\* The name of the request, or one made of the session's id if there is none.
WithAppName(configs, named) ==
    IF ~ named /\ AppName \in DOMAIN configs THEN configs
    ELSE Insert(AppName, One(IF named THEN "request" ELSE "session"), configs)

Internal(configs) == Over([k \in InternalKeys |-> One("internal")], configs)

\* The environment joins the archives and is the workers' Python.
WithVenv(configs) ==
    LET archives == IF Archives \in DOMAIN configs /\ configs[Archives] # NoValue
                    THEN configs[Archives] \o One("venv")
                    ELSE One("venv")
    IN  Insert(WorkerPython, One("venv"), Insert(Archives, archives, configs))

BuildSubmitCommand(v, r, tarball) ==
    LET configs == Internal(WithAppName(BuildConf(v, r.user), r.name))
    IN  [conf |-> IF tarball THEN WithVenv(configs) ELSE configs,
         version |-> v.index,
         runAs |-> IF v.proxy_user THEN "user" ELSE "server"]

-----------------------------------------------------------------------------
(* launch                                                                  *)

\* The version of that name, or the first one.
SelectVersion ==
    /\ pc = "start"
    /\ \/ \E v \in SparkVersions :
             /\ \/ request.version = "none" /\ v.index = 1
                \/ /\ Names[v.index] = request.version
                   /\ \A i \in 1 .. v.index - 1 : Names[i] # request.version
             /\ version' = v
             /\ pc' = IF request.packages THEN "venv" ELSE "build"
       \/ /\ request.version \notin {"none"} \cup {Names[i] : i \in DOMAIN Names}
          /\ pc' = "failed"
          /\ UNCHANGED version
    /\ UNCHANGED <<request, files, orphan, command>>

\* build_python_venv: without an executable there is nothing to do; else the
\* directory is made and `uv venv` started in it.
MakeDirectory ==
    /\ pc = "venv"
    /\ \/ version.python /\ pc' = "create" /\ files' = {"dir"}
       \/ pc' = "failed" /\ UNCHANGED files
    /\ UNCHANGED <<request, version, orphan, command>>

\* A program ends: with success the next one is started, else the function
\* returns and drops the directory.
ProgramEnds(next) ==
    /\ \/ pc' = next /\ UNCHANGED files
       \/ pc' = "failed" /\ files' = files \ {"dir"}
    /\ UNCHANGED <<request, version, orphan, command>>

CreateVenv == pc = "create" /\ ProgramEnds("install")

\* Fault-seeded variant: the directory is not removed by the error.
InstallPackagesKeeping ==
    /\ pc = "install"
    /\ pc' \in {"pack", "failed"}
    /\ UNCHANGED <<request, version, files, orphan, command>>

InstallPackages == pc = "install" /\ ProgramEnds("pack")

\* Fault-seeded variant: an exit status of venv-pack that nobody looks at.
PackVenvUnchecked ==
    /\ pc = "pack"
    /\ pc' = "build"
    /\ files' \in {{}, {"tgz"}}
    /\ UNCHANGED <<request, version, orphan, command>>

\* venv-pack writes the tarball beside the directory, which is deleted when
\* build_python_venv returns.  A failing one may leave a part of it.
PackVenv ==
    /\ pc = "pack"
    /\ \/ pc' = "build" /\ files' = {"tgz"}
       \/ pc' = "failed" /\ files' \in {{}, {"part"}}
    /\ UNCHANGED <<request, version, orphan, command>>

\* The client goes away and the handler's future is dropped while it waits for
\* a program.  The program runs on (kill_on_drop is not set), and the removal
\* of the directory under it may fail, which nobody hears of.
Dropped ==
    /\ pc \in {"create", "install", "pack"}
    /\ pc' = "dropped"
    /\ files' \in {files, files \ {"dir"}}
    /\ orphan' = IF pc = "pack" THEN "venv-pack" ELSE "uv"
    /\ UNCHANGED <<request, version, command>>

\* What such a program leaves when it ends: uv makes the directory again,
\* venv-pack writes all or a part of its tarball, or neither gets anywhere.
OrphanEnds ==
    /\ orphan # "none"
    /\ orphan' = "none"
    /\ \E left \in IF orphan = "uv" THEN {{}, {"dir"}} ELSE {{}, {"part"}, {"tgz"}} :
           files' = files \cup left
    /\ UNCHANGED <<pc, request, version, command>>

BuildCommand ==
    /\ pc = "build"
    /\ \/ /\ ValidateFileConfigs(request.user)
          /\ command' = BuildSubmitCommand(version, request, request.packages)
          /\ pc' = "spawn"
       \/ /\ ~ ValidateFileConfigs(request.user)
          /\ pc' = "failed"
          /\ UNCHANGED command
    /\ UNCHANGED <<request, version, files, orphan>>

Spawn ==
    /\ pc = "spawn"
    /\ pc' \in {"launched", "failed"}
    /\ UNCHANGED <<request, version, files, orphan, command>>

Next ==
    \/ SelectVersion \/ MakeDirectory \/ CreateVenv \/ InstallPackages \/ PackVenv
    \/ Dropped \/ OrphanEnds \/ BuildCommand \/ Spawn

Spec == Init /\ [][Next]_vars

-----------------------------------------------------------------------------
Launched == pc \in {"spawn", "launched"}
Conf == command.conf

\* No item of a user's list that names a file of the server's host gets into
\* the command line, whichever layers its list was joined with
\* (validate_file_configs).
NoLocalUserFile ==
    Launched => \A k \in FileKeys \cap DOMAIN Conf : \A i \in DOMAIN Conf[k] :
                    Conf[k][i].from = "user" => Conf[k][i].path \in {"empty", "remote"}

\* What the server needs for itself is the server's, and what the administrator
\* forces stands, with three exceptions that build_submit_command makes after
\* build_conf: the name of the request replaces a forced spark.app.name, the
\* environment of a request with packages a forced Python of the workers, and
\* it is added to forced archives.  config.yaml promises more, that forced
\* values "cannot be overridden by users and will always be set".
ForcedStands ==
    Launched =>
        /\ \A k \in InternalKeys : Conf[k] = One("internal")
        /\ \A k \in DOMAIN version.override_configs \ InternalKeys :
               \/ Conf[k] = One("override")
               \/ k = AppName /\ request.name /\ Conf[k] = One("request")
               \/ k = WorkerPython /\ request.packages /\ Conf[k] = One("venv")
               \/ k = Archives /\ request.packages /\ Conf[k] = One("override") \o One("venv")

\* Joining layers loses nothing: a value that is not forced keeps the merged
\* items and those of the user, or the default without any, and nothing else
\* comes in but the environment, which replaces the workers' Python
\* (build_conf, build_submit_command).
NothingLost ==
    Launched =>
        \A k \in LayerKeys \ (InternalKeys \cup DOMAIN version.override_configs \cup {AppName}) :
            LET Of(f) == IF k \in DOMAIN f THEN Content(f[k]) ELSE {}
            IN  \/ request.packages /\ k = WorkerPython
                \/ Of(Conf) \ {Item("venv", "remote")} =
                       Of(version.merge_configs) \cup
                       (IF k \in DOMAIN request.user THEN Of(request.user)
                                                     ELSE Of(version.default_configs))

\* A session with packages is submitted with a complete tarball, which is
\* among its archives, last, and is what its workers run (build_python_venv
\* and the venv branch of build_submit_command); a session without has none.
EnvironmentShipped ==
    Launched =>
        /\ request.packages => /\ "tgz" \in files
                               /\ Conf[Archives][Len(Conf[Archives])].from = "venv"
                               /\ Conf[WorkerPython] = One("venv")
        /\ ~ request.packages => \A k \in DOMAIN Conf : Item("venv", "remote") \notin Content(Conf[k])

\* The directory of an environment does not outlive a build that ends by
\* itself, with success or at any of its three programs (the TempDir of
\* build_python_venv).  One that is dropped with a program at work can leave it.
NoDirectoryLeft == "dir" \in files => pc \in {"create", "install", "pack", "dropped"}
=============================================================================
