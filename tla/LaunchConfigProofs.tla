------------------------ MODULE LaunchConfigProofs ------------------------
(***************************************************************************)
(* Proofs about LaunchConfig, for any properties and values of the layers  *)
(* and any list of versions.  The first part says what each operator puts  *)
(* under a property, as the set of the items of its value; the second that *)
(* a launch reaches spark-submit only with a validated request and a       *)
(* command made of it; the third derives the properties.                   *)
(***************************************************************************)
EXTENDS LaunchConfig, SequenceTheorems, TLAPS

Layers == {"default", "user", "merge", "override", "request", "session", "internal", "venv"}
Items == [from : Layers, path : Paths]
ItemsOf(value) == {value[i] : i \in DOMAIN value}
Single(from) == {Item(from, "remote")}

-----------------------------------------------------------------------------
(* Values                                                                  *)

\* A value of one item.
LEMMA OneItem ==
    ASSUME NEW from \in Layers
    PROVE  /\ One(from) \in Seq(Items) /\ One(from) # <<>> /\ Len(One(from)) = 1
           /\ ItemsOf(One(from)) = Single(from)
<1>1. Item(from, "remote") \in Items
  BY DEF Item, Items, Paths
<1>2. One(from) = <<Item(from, "remote")>>
  BY DEF One
<1> HIDE DEF Item
<1> QED
  BY <1>1, <1>2 DEF ItemsOf, Single

\* Joining two values joins their items.
LEMMA JoinedItems ==
    ASSUME NEW s \in Seq(Items), NEW t \in Seq(Items)
    PROVE  /\ s \o t \in Seq(Items)
           /\ ItemsOf(s \o t) = ItemsOf(s) \cup ItemsOf(t)
<1>1. /\ s \o t \in Seq(Items) /\ Len(s \o t) = Len(s) + Len(t)
      /\ \A i \in 1 .. Len(s) + Len(t) :
             (s \o t)[i] = IF i <= Len(s) THEN s[i] ELSE t[i - Len(s)]
  BY ConcatProperties
<1>2. /\ DOMAIN s = 1 .. Len(s) /\ DOMAIN t = 1 .. Len(t)
      /\ DOMAIN (s \o t) = 1 .. Len(s) + Len(t)
      /\ Len(s) \in Nat /\ Len(t) \in Nat
  BY <1>1, LenProperties
<1>3. ASSUME NEW i \in DOMAIN s
      PROVE  s[i] \in ItemsOf(s \o t)
  <2>1. i \in DOMAIN (s \o t) /\ (s \o t)[i] = s[i]
    BY <1>1, <1>2
  <2> QED
    BY <2>1 DEF ItemsOf
<1>4. ASSUME NEW i \in DOMAIN t
      PROVE  t[i] \in ItemsOf(s \o t)
  <2>1. i + Len(s) \in DOMAIN (s \o t) /\ (s \o t)[i + Len(s)] = t[i]
    BY <1>1, <1>2
  <2> QED
    BY <2>1 DEF ItemsOf
<1>5. ASSUME NEW i \in DOMAIN (s \o t)
      PROVE  (s \o t)[i] \in ItemsOf(s) \cup ItemsOf(t)
  <2>1. CASE i <= Len(s)
    <3>1. i \in DOMAIN s /\ (s \o t)[i] = s[i]
      BY <1>1, <1>2, <2>1
    <3> QED
      BY <3>1 DEF ItemsOf
  <2>2. CASE ~ i <= Len(s)
    <3>1. i - Len(s) \in DOMAIN t /\ (s \o t)[i] = t[i - Len(s)]
      BY <1>1, <1>2, <2>2
    <3> QED
      BY <3>1 DEF ItemsOf
  <2> QED
    BY <2>1, <2>2
<1> QED
  BY <1>1, <1>3, <1>4, <1>5 DEF ItemsOf

\* The last item of a value that something was joined to.
LEMMA LastItem ==
    ASSUME NEW s \in Seq(Items), NEW from \in Layers
    PROVE  (s \o One(from))[Len(s \o One(from))] = Item(from, "remote")
<1>1. One(from) \in Seq(Items) /\ Len(One(from)) = 1 /\ One(from)[1] = Item(from, "remote")
  BY OneItem DEF One
<1>2. /\ Len(s) \in Nat /\ Len(s \o One(from)) = Len(s) + 1
      /\ \A i \in 1 .. Len(s) + 1 :
             (s \o One(from))[i] = IF i <= Len(s) THEN s[i] ELSE One(from)[i - Len(s)]
  BY <1>1, ConcatProperties, LenProperties
<1> QED
  BY <1>1, <1>2

\* The part of a value that matters, by its items.
LEMMA ContentItems ==
    ASSUME NEW value
    PROVE  Content(value) = {x \in ItemsOf(value) : x.path # "empty"}
BY DEF Content, ItemsOf

-----------------------------------------------------------------------------
(* Layers                                                                  *)

\* A layer is a function to its values.
LEMMA PartialAt ==
    ASSUME NEW K, NEW V, NEW f \in Partial(K, V)
    PROVE  DOMAIN f \subseteq K /\ \A k \in DOMAIN f : f[k] \in V
BY DEF Partial

\* Every value of a version's layers is one item of that layer.
LEMMA VersionLayers ==
    ASSUME NEW v \in SparkVersions
    PROVE  /\ \A k \in DOMAIN v.default_configs : v.default_configs[k] = One("default")
           /\ \A k \in DOMAIN v.merge_configs : v.merge_configs[k] = One("merge")
           /\ \A k \in DOMAIN v.override_configs : v.override_configs[k] = One("override")
<1>1. /\ v.default_configs \in Partial(JoinedKeys, {One("default")})
      /\ v.merge_configs \in Partial(JoinedKeys, {One("merge")})
      /\ v.override_configs \in Partial(LayerKeys, {One("override")})
  BY DEF SparkVersions
<1> QED
  BY <1>1, PartialAt

\* Every value of a request is a list of the user's items.
LEMMA UserLayer ==
    ASSUME NEW user \in UserConfigs, NEW k \in DOMAIN user
    PROVE  /\ user[k] \in Seq(Items)
           /\ \A x \in ItemsOf(user[k]) : x.from = "user"
<1>1. user[k] \in {[i \in DOMAIN s |-> Item("user", s[i])] : s \in UserValues}
  BY PartialAt DEF UserConfigs
<1>2. PICK s \in UserValues : user[k] = [i \in DOMAIN s |-> Item("user", s[i])]
  BY <1>1
<1>3. s \in Seq(Paths)
  BY LaunchAssumption
<1>4. Len(s) \in Nat /\ DOMAIN s = 1 .. Len(s) /\ \A i \in DOMAIN s : s[i] \in Paths
  BY <1>3, LenProperties, ElementOfSeq
<1>5. \A i \in DOMAIN s : user[k][i] \in Items /\ user[k][i].from = "user"
  BY <1>2, <1>4 DEF Item, Items, Layers
<1>6. user[k] \in [1 .. Len(s) -> Items]
  BY <1>2, <1>4, <1>5
<1>7. user[k] \in Seq(Items)
  BY <1>4, <1>6
<1> QED
  BY <1>2, <1>5, <1>7 DEF ItemsOf

\* What build_conf puts under a property: what is forced, or else the user's
\* value or the default, joined with the merged one.
LEMMA BuildConfAt ==
    ASSUME NEW v \in SparkVersions, NEW user \in UserConfigs, NEW k
    PROVE  LET B == BuildConf(v, user)
           IN  /\ k \in DOMAIN B <=>
                      k \in DOMAIN v.override_configs \cup DOMAIN v.merge_configs
                            \cup DOMAIN user \cup DOMAIN v.default_configs
               /\ k \in DOMAIN B => B[k] \in Seq(Items)
               /\ k \in DOMAIN v.override_configs =>
                      B[k] = One("override") /\ ItemsOf(B[k]) = Single("override")
               /\ k \in DOMAIN B \ DOMAIN v.override_configs =>
                      ItemsOf(B[k]) =
                          (IF k \in DOMAIN v.merge_configs THEN Single("merge") ELSE {}) \cup
                          (IF k \in DOMAIN user THEN ItemsOf(user[k])
                           ELSE IF k \in DOMAIN v.default_configs THEN Single("default") ELSE {})
<1> DEFINE configs == Over(user, v.default_configs)
           merged == [x \in DOMAIN v.merge_configs |->
                         IF x \in DOMAIN configs THEN configs[x] \o v.merge_configs[x]
                                                 ELSE v.merge_configs[x]]
           B == BuildConf(v, user)
<1>1. B = Over(v.override_configs, Over(merged, configs))
  BY DEF BuildConf
<1>2. /\ DOMAIN configs = DOMAIN user \cup DOMAIN v.default_configs
      /\ k \in DOMAIN user => configs[k] = user[k]
      /\ k \in DOMAIN v.default_configs \ DOMAIN user => configs[k] = v.default_configs[k]
  BY DEF Over
<1>3. k \in DOMAIN configs =>
          /\ configs[k] \in Seq(Items)
          /\ ItemsOf(configs[k]) = IF k \in DOMAIN user THEN ItemsOf(user[k]) ELSE Single("default")
  BY <1>2, UserLayer, VersionLayers, OneItem DEF Layers
<1> HIDE DEF configs
<1>4. /\ DOMAIN merged = DOMAIN v.merge_configs
      /\ k \in DOMAIN merged =>
             merged[k] = IF k \in DOMAIN configs THEN configs[k] \o One("merge") ELSE One("merge")
  BY VersionLayers
<1>5. k \in DOMAIN merged =>
          /\ merged[k] \in Seq(Items)
          /\ ItemsOf(merged[k]) = Single("merge") \cup
                                  (IF k \in DOMAIN configs THEN ItemsOf(configs[k]) ELSE {})
  <2>1. One("merge") \in Seq(Items) /\ ItemsOf(One("merge")) = Single("merge")
    BY OneItem DEF Layers
  <2> HIDE DEF merged
  <2>2. CASE k \in DOMAIN merged /\ k \in DOMAIN configs
    <3>1. merged[k] = configs[k] \o One("merge")
      BY <1>4, <2>2
    <3> QED
      BY <1>3, <2>1, <2>2, <3>1, JoinedItems
  <2>3. CASE k \in DOMAIN merged /\ k \notin DOMAIN configs
    BY <1>4, <2>1, <2>3
  <2> QED
    BY <2>2, <2>3
<1> HIDE DEF merged
<1>6. /\ DOMAIN B = DOMAIN v.override_configs \cup DOMAIN merged \cup DOMAIN configs
      /\ k \in DOMAIN v.override_configs => B[k] = v.override_configs[k]
      /\ k \in DOMAIN merged \ DOMAIN v.override_configs => B[k] = merged[k]
      /\ k \in DOMAIN configs \ (DOMAIN v.override_configs \cup DOMAIN merged) => B[k] = configs[k]
  BY <1>1 DEF Over
<1>7. k \in DOMAIN v.override_configs =>
          B[k] = One("override") /\ B[k] \in Seq(Items) /\ ItemsOf(B[k]) = Single("override")
  BY <1>6, VersionLayers, OneItem DEF Layers
<1> HIDE DEF B
<1>8. k \in DOMAIN B => B[k] \in Seq(Items)
  BY <1>3, <1>5, <1>6, <1>7
<1>9. k \in DOMAIN B \ DOMAIN v.override_configs =>
          ItemsOf(B[k]) = (IF k \in DOMAIN v.merge_configs THEN Single("merge") ELSE {}) \cup
                          (IF k \in DOMAIN user THEN ItemsOf(user[k])
                           ELSE IF k \in DOMAIN v.default_configs THEN Single("default") ELSE {})
  BY <1>2, <1>3, <1>4, <1>5, <1>6
<1> QED
  BY <1>2, <1>4, <1>6, <1>7, <1>8, <1>9 DEF B

-----------------------------------------------------------------------------
(* The command                                                             *)

\* The configuration before the environment is added.
Configs(v, r) == Internal(WithAppName(BuildConf(v, r.user), r.name))

\* The server's own properties are its own, the name comes from the request,
\* the session or build_conf, and the rest is what build_conf made of it.
LEMMA ConfigsAt ==
    ASSUME NEW v \in SparkVersions, NEW r \in Requests, NEW k
    PROVE  LET B == BuildConf(v, r.user)
               C == Configs(v, r)
           IN  /\ k \in DOMAIN C <=> k \in InternalKeys \cup {AppName} \cup DOMAIN B
               /\ k \in DOMAIN C => C[k] \in Seq(Items)
               /\ k \in InternalKeys => C[k] = One("internal") /\ ItemsOf(C[k]) = Single("internal")
               /\ k \in DOMAIN C \ InternalKeys =>
                      \/ k \in DOMAIN B /\ C[k] = B[k]
                      \/ /\ k = AppName /\ r.name /\ C[k] = One("request")
                         /\ ItemsOf(C[k]) = Single("request")
                      \/ k = AppName /\ k \notin DOMAIN B /\ ItemsOf(C[k]) = Single("session")
<1> DEFINE B == BuildConf(v, r.user)
           W == WithAppName(B, r.name)
           C == Configs(v, r)
<1>1. k \in DOMAIN B => B[k] \in Seq(Items)
  BY BuildConfAt DEF Requests
<1> HIDE DEF B
<1>2. /\ DOMAIN W = DOMAIN B \cup {AppName}
      /\ k \in DOMAIN W => \/ k \in DOMAIN B /\ W[k] = B[k]
                           \/ k = AppName /\ r.name /\ W[k] = One("request")
                           \/ k = AppName /\ k \notin DOMAIN B /\ W[k] = One("session")
  BY DEF WithAppName, Insert, Over
<1> HIDE DEF W
<1>3. /\ DOMAIN C = InternalKeys \cup DOMAIN W
      /\ k \in InternalKeys => C[k] = One("internal")
      /\ k \in DOMAIN W \ InternalKeys => C[k] = W[k]
  BY DEF Configs, Internal, Over, W, B
<1> HIDE DEF C
<1>4. \A from \in {"request", "session", "internal"} :
          One(from) \in Seq(Items) /\ ItemsOf(One(from)) = Single(from)
  BY OneItem DEF Layers
<1>5. k \in DOMAIN C => C[k] \in Seq(Items)
  BY <1>1, <1>2, <1>3, <1>4
<1>6. k \in InternalKeys => C[k] = One("internal") /\ ItemsOf(C[k]) = Single("internal")
  BY <1>3, <1>4
<1>7. k \in DOMAIN C \ InternalKeys =>
          \/ k \in DOMAIN B /\ C[k] = B[k]
          \/ k = AppName /\ r.name /\ C[k] = One("request") /\ ItemsOf(C[k]) = Single("request")
          \/ k = AppName /\ k \notin DOMAIN B /\ ItemsOf(C[k]) = Single("session")
  BY <1>2, <1>3, <1>4
<1> QED
  BY <1>2, <1>3, <1>5, <1>6, <1>7 DEF B, C

\* Without an environment the command has these configurations.
LEMMA CommandWithout ==
    ASSUME NEW v, NEW r
    PROVE  BuildSubmitCommand(v, r, FALSE).conf = Configs(v, r)
BY DEF BuildSubmitCommand, Configs

\* With one, it is the workers' Python and the last of the archives, and the
\* rest is left alone.
LEMMA CommandWith ==
    ASSUME NEW v \in SparkVersions, NEW r \in Requests
    PROVE  LET C == Configs(v, r)
               D == BuildSubmitCommand(v, r, TRUE).conf
           IN  /\ DOMAIN D = DOMAIN C \cup {Archives, WorkerPython}
               /\ \A k \in DOMAIN C \ {Archives, WorkerPython} : D[k] = C[k]
               /\ D[WorkerPython] = One("venv")
               /\ Archives \in DOMAIN C /\ C[Archives] # NoValue =>
                      D[Archives] = C[Archives] \o One("venv")
               /\ D[Archives] \in Seq(Items)
               /\ D[Archives][Len(D[Archives])] = Item("venv", "remote")
               /\ ItemsOf(D[Archives]) = Single("venv") \cup
                      (IF Archives \in DOMAIN C /\ C[Archives] # NoValue THEN ItemsOf(C[Archives])
                                                                        ELSE {})
<1> DEFINE C == Configs(v, r)
           archives == IF Archives \in DOMAIN C /\ C[Archives] # NoValue
                       THEN C[Archives] \o One("venv") ELSE One("venv")
           D == BuildSubmitCommand(v, r, TRUE).conf
<1>1. Archives \in DOMAIN C => C[Archives] \in Seq(Items)
  BY ConfigsAt
<1>2. D = Insert(WorkerPython, One("venv"), Insert(Archives, archives, C))
  BY DEF BuildSubmitCommand, WithVenv, Configs
<1>3. One("venv") \in Seq(Items) /\ ItemsOf(One("venv")) = Single("venv")
  BY OneItem DEF Layers
<1> HIDE DEF C
<1>4. /\ Archives \in DOMAIN C /\ C[Archives] # NoValue => archives = C[Archives] \o One("venv")
      /\ archives \in Seq(Items)
      /\ archives[Len(archives)] = Item("venv", "remote")
      /\ ItemsOf(archives) = Single("venv") \cup
             (IF Archives \in DOMAIN C /\ C[Archives] # NoValue THEN ItemsOf(C[Archives]) ELSE {})
  <2>1. CASE Archives \in DOMAIN C /\ C[Archives] # NoValue
    <3>1. archives = C[Archives] \o One("venv") /\ C[Archives] \in Seq(Items)
      BY <1>1, <2>1
    <3>2. "venv" \in Layers
      BY DEF Layers
    <3> HIDE DEF archives
    <3>3. archives \in Seq(Items) /\ ItemsOf(archives) = ItemsOf(C[Archives]) \cup Single("venv")
      BY <1>3, <3>1, JoinedItems
    <3>4. archives[Len(archives)] = Item("venv", "remote")
      BY <3>1, <3>2, LastItem
    <3> QED
      BY <2>1, <3>1, <3>3, <3>4
  <2>2. CASE ~ (Archives \in DOMAIN C /\ C[Archives] # NoValue)
    <3>1. archives = One("venv")
      BY <2>2
    <3>2. One("venv")[Len(One("venv"))] = Item("venv", "remote")
      BY DEF One
    <3> HIDE DEF archives
    <3> QED
      BY <1>3, <2>2, <3>1, <3>2
  <2> QED
    BY <2>1, <2>2
<1> HIDE DEF archives
<1>5. Archives # WorkerPython
  BY DEF Archives, WorkerPython
<1>6. /\ DOMAIN D = DOMAIN C \cup {Archives, WorkerPython}
      /\ \A k \in DOMAIN C \ {Archives, WorkerPython} : D[k] = C[k]
      /\ D[WorkerPython] = One("venv")
      /\ D[Archives] = archives
  BY <1>2, <1>5 DEF Insert, Over
<1> HIDE DEF D
<1> QED
  BY <1>4, <1>6 DEF C, D

-----------------------------------------------------------------------------
(* The launch                                                              *)

\* What launch() has when it is at pc: the directory while the three programs
\* run, a whole tarball afterwards if there are packages, and at spark-submit a
\* request that was validated and the command made of it.  A program is alone
\* only when the future that waited for it was dropped.
LaunchInv ==
    /\ pc \in {"start", "venv", "create", "install", "pack", "build", "spawn", "launched",
               "failed", "dropped"}
    /\ request \in Requests
    /\ pc \notin {"start", "failed"} => version \in SparkVersions
    /\ pc \in {"venv", "create", "install", "pack"} => request.packages
    /\ pc \in {"start", "venv"} => files = {}
    /\ pc \in {"create", "install", "pack"} => files = {"dir"}
    /\ pc \in {"build", "spawn", "launched"} =>
           files = IF request.packages THEN {"tgz"} ELSE {}
    /\ pc = "failed" => "dir" \notin files
    /\ orphan # "none" => pc = "dropped"
    /\ Launched => /\ ValidateFileConfigs(request.user)
                   /\ command = BuildSubmitCommand(version, request, request.packages)

\* LaunchInv is an invariant, however the steps of a launch end.
THEOREM LaunchInvariant == Spec => []LaunchInv
<1>1. Init => LaunchInv
  BY DEF Init, LaunchInv, Launched
<1>2. LaunchInv /\ [Next]_vars => LaunchInv'
  <2> SUFFICES ASSUME LaunchInv, [Next]_vars
               PROVE  LaunchInv'
    OBVIOUS
  <2> USE DEF LaunchInv, Launched
  <2>1. CASE SelectVersion
    BY <2>1 DEF SelectVersion
  <2>2. CASE MakeDirectory
    BY <2>2 DEF MakeDirectory
  <2>3. CASE CreateVenv
    BY <2>3 DEF CreateVenv, ProgramEnds
  <2>4. CASE InstallPackages
    BY <2>4 DEF InstallPackages, ProgramEnds
  <2>5. CASE PackVenv
    BY <2>5 DEF PackVenv
  <2>6. CASE Dropped
    BY <2>6 DEF Dropped
  <2>7. CASE OrphanEnds
    BY <2>7 DEF OrphanEnds
  <2>8. CASE BuildCommand
    BY <2>8 DEF BuildCommand
  <2>9. CASE Spawn
    BY <2>9 DEF Spawn
  <2>10. CASE UNCHANGED vars
    BY <2>10 DEF vars
  <2> QED
    BY <2>1, <2>2, <2>3, <2>4, <2>5, <2>6, <2>7, <2>8, <2>9, <2>10 DEF Next
<1> QED
  BY <1>1, <1>2, PTL DEF Spec

\* The temporary directory of an environment is deleted with its build, also
\* when any program of it fails; only a future dropped in the middle, with its
\* program still at work, can leave it behind.
THEOREM NoDirectoryLeftAlways == Spec => []NoDirectoryLeft
<1>1. LaunchInv => NoDirectoryLeft
  BY DEF LaunchInv, NoDirectoryLeft
<1> QED
  BY <1>1, LaunchInvariant, PTL

\* What a launch that got to spark-submit has in its command line.
LEMMA CommandAt ==
    ASSUME LaunchInv, Launched, NEW k
    PROVE  LET C == Configs(version, request)
           IN  /\ k \in DOMAIN Conf <=>
                      k \in DOMAIN C \/ (request.packages /\ k \in {Archives, WorkerPython})
               /\ k \in DOMAIN Conf => Conf[k] \in Seq(Items)
               /\ k \in DOMAIN Conf /\ ~ (request.packages /\ k \in {Archives, WorkerPython})
                      => Conf[k] = C[k]
               /\ request.packages =>
                      /\ Conf[WorkerPython] = One("venv")
                      /\ ItemsOf(Conf[WorkerPython]) = Single("venv")
                      /\ Archives \in DOMAIN C /\ C[Archives] # NoValue =>
                             Conf[Archives] = C[Archives] \o One("venv")
                      /\ ItemsOf(Conf[Archives]) = Single("venv") \cup
                             (IF Archives \in DOMAIN C /\ C[Archives] # NoValue
                              THEN ItemsOf(C[Archives]) ELSE {})
<1> DEFINE C == Configs(version, request)
<1>1. version \in SparkVersions /\ request \in Requests /\ request.packages \in BOOLEAN
  BY DEF LaunchInv, Launched, Requests
<1>2. Conf = BuildSubmitCommand(version, request, request.packages).conf
  BY DEF LaunchInv, Conf
<1>3. k \in DOMAIN C => C[k] \in Seq(Items)
  BY <1>1, ConfigsAt
<1>4. One("venv") \in Seq(Items) /\ ItemsOf(One("venv")) = Single("venv")
  BY OneItem DEF Layers
<1>5. CASE request.packages = FALSE
  <2>1. Conf = C
    BY <1>2, <1>5, CommandWithout
  <2> HIDE DEF C
  <2> QED
    BY <1>3, <1>5, <2>1 DEF C
<1>6. CASE request.packages = TRUE
  <2>1. /\ DOMAIN Conf = DOMAIN C \cup {Archives, WorkerPython}
        /\ \A x \in DOMAIN C \ {Archives, WorkerPython} : Conf[x] = C[x]
        /\ Conf[WorkerPython] = One("venv")
        /\ Archives \in DOMAIN C /\ C[Archives] # NoValue =>
               Conf[Archives] = C[Archives] \o One("venv")
        /\ Conf[Archives] \in Seq(Items)
        /\ ItemsOf(Conf[Archives]) = Single("venv") \cup
               (IF Archives \in DOMAIN C /\ C[Archives] # NoValue THEN ItemsOf(C[Archives]) ELSE {})
    BY <1>1, <1>2, <1>6, CommandWith
  <2> HIDE DEF C
  <2> QED
    BY <1>3, <1>4, <1>6, <2>1 DEF C
<1> QED
  BY <1>1, <1>5, <1>6

-----------------------------------------------------------------------------
(* The properties                                                          *)

\* Where an item of the configurations comes from: the user's are in the
\* user's own layer and not under a property that is forced or the server's,
\* and the environment is not among them.
LEMMA Origin ==
    ASSUME NEW v \in SparkVersions, NEW r \in Requests,
           NEW k \in DOMAIN Configs(v, r), NEW x \in ItemsOf(Configs(v, r)[k])
    PROVE  /\ x.from # "venv"
           /\ x.from = "user" => /\ k \in DOMAIN r.user /\ x \in ItemsOf(r.user[k])
                                 /\ k \notin InternalKeys \cup DOMAIN v.override_configs
<1> DEFINE B == BuildConf(v, r.user)
           C == Configs(v, r)
<1>1. \A from : \A y \in Single(from) : y.from = from
  BY DEF Single, Item
<1>2. r.user \in UserConfigs
  BY DEF Requests
<1>3. CASE k \in InternalKeys
  <2>1. x \in Single("internal")
    BY <1>3, ConfigsAt
  <2> QED
    BY <1>1, <2>1
<1>4. CASE k \notin InternalKeys /\ k \in DOMAIN B /\ C[k] = B[k]
  <2>1. CASE k \in DOMAIN v.override_configs
    <3>1. x \in Single("override")
      BY <1>2, <1>4, <2>1, BuildConfAt
    <3> QED
      BY <1>1, <3>1
  <2>2. CASE k \notin DOMAIN v.override_configs
    <3>1. \/ x \in Single("merge") \/ x \in Single("default")
          \/ k \in DOMAIN r.user /\ x \in ItemsOf(r.user[k])
      BY <1>2, <1>4, <2>2, BuildConfAt
    <3> QED
      BY <1>1, <1>2, <1>4, <2>2, <3>1, UserLayer
  <2> QED
    BY <2>1, <2>2
<1>5. CASE x \in Single("request") \/ x \in Single("session")
  BY <1>1, <1>5
<1> QED
  BY <1>3, <1>4, <1>5, ConfigsAt

\* The same of the command line.
LEMMA CommandOrigin ==
    ASSUME LaunchInv, Launched, NEW k \in DOMAIN Conf, NEW x \in ItemsOf(Conf[k]),
           x.from = "user"
    PROVE  /\ k \in DOMAIN request.user /\ x \in ItemsOf(request.user[k])
           /\ k \notin InternalKeys \cup DOMAIN version.override_configs
<1> DEFINE C == Configs(version, request)
<1>1. version \in SparkVersions /\ request \in Requests
  BY DEF LaunchInv, Launched
<1>2. x \notin Single("venv")
  BY DEF Single, Item
<1>3. k \in DOMAIN C /\ x \in ItemsOf(C[k])
  <2> HIDE DEF C
  <2>1. CASE request.packages /\ k = WorkerPython
    BY <1>2, <2>1, CommandAt
  <2>2. CASE request.packages /\ k = Archives
    BY <1>2, <2>2, CommandAt DEF C
  <2>3. CASE ~ (request.packages /\ k \in {Archives, WorkerPython})
    BY <2>3, CommandAt DEF C
  <2> QED
    BY <2>1, <2>2, <2>3
<1> QED
  BY <1>1, <1>3, Origin

\* No local file of a user's list reaches spark-submit under any property that
\* takes files, whatever the administrator's layers join to that list.
THEOREM NoLocalUserFileAlways == Spec => []NoLocalUserFile
<1>1. LaunchInv => NoLocalUserFile
  <2> SUFFICES ASSUME LaunchInv, Launched, NEW k \in FileKeys \cap DOMAIN Conf,
                      NEW i \in DOMAIN Conf[k], Conf[k][i].from = "user"
               PROVE  Conf[k][i].path \in {"empty", "remote"}
    BY DEF NoLocalUserFile
  <2>1. k \in DOMAIN request.user /\ Conf[k][i] \in ItemsOf(request.user[k])
    BY CommandOrigin DEF ItemsOf
  <2> QED
    BY <2>1 DEF LaunchInv, ValidateFileConfigs, ItemsOf
<1> QED
  BY <1>1, LaunchInvariant, PTL

\* The server's own properties are exactly the server's, and what is forced is
\* exactly what spark-submit gets, but for the name of the request and for the
\* environment of its packages, which come after build_conf.
THEOREM ForcedStandsAlways == Spec => []ForcedStands
<1>1. LaunchInv => ForcedStands
  <2> SUFFICES ASSUME LaunchInv, Launched
               PROVE  /\ \A k \in InternalKeys : Conf[k] = One("internal")
                      /\ \A k \in DOMAIN version.override_configs \ InternalKeys :
                             \/ Conf[k] = One("override")
                             \/ k = AppName /\ request.name /\ Conf[k] = One("request")
                             \/ k = WorkerPython /\ request.packages /\ Conf[k] = One("venv")
                             \/ /\ k = Archives /\ request.packages
                                /\ Conf[k] = One("override") \o One("venv")
    BY DEF ForcedStands
  <2> DEFINE B == BuildConf(version, request.user)
             C == Configs(version, request)
  <2>1. version \in SparkVersions /\ request \in Requests /\ request.user \in UserConfigs
    BY DEF LaunchInv, Launched, Requests
  <2>2. ASSUME NEW k \in InternalKeys
        PROVE  Conf[k] = One("internal")
    <3>1. k \in DOMAIN C /\ C[k] = One("internal")
      BY <2>1, ConfigsAt
    <3>2. k \notin {Archives, WorkerPython}
      BY DEF InternalKeys, Archives, WorkerPython
    <3> QED
      BY <3>1, <3>2, CommandAt
  <2>3. ASSUME NEW k \in DOMAIN version.override_configs \ InternalKeys
        PROVE  \/ Conf[k] = One("override")
               \/ k = AppName /\ request.name /\ Conf[k] = One("request")
               \/ k = WorkerPython /\ request.packages /\ Conf[k] = One("venv")
               \/ k = Archives /\ request.packages /\ Conf[k] = One("override") \o One("venv")
    <3>1. k \in DOMAIN B /\ B[k] = One("override")
      BY <2>1, BuildConfAt
    <3>2. /\ k \in DOMAIN C
          /\ C[k] = One("override") \/ (k = AppName /\ request.name /\ C[k] = One("request"))
      BY <2>1, <3>1, ConfigsAt
    <3>3. CASE ~ (request.packages /\ k \in {Archives, WorkerPython})
      BY <3>2, <3>3, CommandAt
    <3>4. CASE request.packages /\ k = WorkerPython
      BY <3>4, CommandAt
    <3>5. CASE request.packages /\ k = Archives
      <4>1. AppName # Archives /\ C[Archives] = One("override") /\ Archives \in DOMAIN C
        BY <3>2, <3>5 DEF AppName, Archives
      <4>2. One("override") # NoValue
        BY DEF One, NoValue, Item
      <4> QED
        BY <3>5, <4>1, <4>2, CommandAt
    <3> QED
      BY <3>3, <3>4, <3>5
  <2> QED
    BY <2>2, <2>3
<1> QED
  BY <1>1, LaunchInvariant, PTL

\* A session with packages is submitted with its whole tarball as the last of
\* the archives and as the workers' Python; one without has no environment.
THEOREM EnvironmentShippedAlways == Spec => []EnvironmentShipped
<1>1. LaunchInv => EnvironmentShipped
  <2> SUFFICES ASSUME LaunchInv, Launched
               PROVE  /\ request.packages => /\ "tgz" \in files
                                             /\ Conf[Archives][Len(Conf[Archives])].from = "venv"
                                             /\ Conf[WorkerPython] = One("venv")
                      /\ ~ request.packages =>
                             \A k \in DOMAIN Conf : Item("venv", "remote") \notin Content(Conf[k])
    BY DEF EnvironmentShipped
  <2>1. /\ version \in SparkVersions /\ request \in Requests /\ request.packages \in BOOLEAN
        /\ Conf = BuildSubmitCommand(version, request, request.packages).conf
    BY DEF LaunchInv, Launched, Requests, Conf
  <2>2. CASE request.packages = TRUE
    <3>1. "tgz" \in files
      BY <2>2 DEF LaunchInv, Launched
    <3>2. /\ Conf[Archives][Len(Conf[Archives])] = Item("venv", "remote")
          /\ Conf[WorkerPython] = One("venv")
      BY <2>1, <2>2, CommandWith
    <3>3. Item("venv", "remote").from = "venv"
      BY DEF Item
    <3> QED
      BY <2>2, <3>1, <3>2, <3>3
  <2>3. CASE request.packages = FALSE
    <3>1. Conf = Configs(version, request)
      BY <2>1, <2>3, CommandWithout
    <3>2. ASSUME NEW k \in DOMAIN Conf
          PROVE  Item("venv", "remote") \notin ItemsOf(Conf[k])
      <4>1. Item("venv", "remote").from = "venv"
        BY DEF Item
      <4> QED
        BY <2>1, <3>1, <4>1, Origin
    <3> QED
      BY <2>3, <3>2, ContentItems
  <2> QED
    BY <2>1, <2>2, <2>3
<1> QED
  BY <1>1, LaunchInvariant, PTL

\* Joining the layers loses nothing of the user's and the merged items under a
\* property that is not forced, and adds nothing but the environment.
THEOREM NothingLostAlways == Spec => []NothingLost
<1>1. LaunchInv => NothingLost
  <2> SUFFICES ASSUME LaunchInv, Launched,
                      NEW k \in LayerKeys \ (InternalKeys \cup DOMAIN version.override_configs
                                                          \cup {AppName}),
                      ~ (request.packages /\ k = WorkerPython)
               PROVE  LET Of(f) == IF k \in DOMAIN f THEN Content(f[k]) ELSE {}
                      IN  Of(Conf) \ {Item("venv", "remote")} =
                              Of(version.merge_configs) \cup
                              (IF k \in DOMAIN request.user THEN Of(request.user)
                                                            ELSE Of(version.default_configs))
    BY DEF NothingLost
  <2> DEFINE Of(f) == IF k \in DOMAIN f THEN Content(f[k]) ELSE {}
             Joined == Of(version.merge_configs) \cup
                       (IF k \in DOMAIN request.user THEN Of(request.user)
                                                     ELSE Of(version.default_configs))
             B == BuildConf(version, request.user)
             C == Configs(version, request)
  <2>1. version \in SparkVersions /\ request \in Requests /\ request.user \in UserConfigs
    BY DEF LaunchInv, Launched, Requests
  <2>2. \A from \in Layers : Content(One(from)) = Single(from)
    BY OneItem, ContentItems DEF Single, Item
  <2>3. Of(version.merge_configs) = IF k \in DOMAIN version.merge_configs THEN Single("merge") ELSE {}
    BY <2>1, <2>2, VersionLayers DEF Layers
  <2>4. Of(version.default_configs) =
            IF k \in DOMAIN version.default_configs THEN Single("default") ELSE {}
    BY <2>1, <2>2, VersionLayers DEF Layers
  <2>5. Of(B) = Joined
    <3>1. CASE k \in DOMAIN B
      <4>1. ItemsOf(B[k]) =
                (IF k \in DOMAIN version.merge_configs THEN Single("merge") ELSE {}) \cup
                (IF k \in DOMAIN request.user THEN ItemsOf(request.user[k])
                 ELSE IF k \in DOMAIN version.default_configs THEN Single("default") ELSE {})
        BY <2>1, <3>1, BuildConfAt
      <4>2. \A from : \A x \in Single(from) : x.path # "empty"
        BY DEF Single, Item
      <4> QED
        BY <2>3, <2>4, <3>1, <4>1, <4>2, ContentItems
    <3>2. CASE k \notin DOMAIN B
      BY <2>1, <3>2, BuildConfAt
    <3> QED
      BY <3>1, <3>2
  <2>6. Of(C) = Of(B)
    BY <2>1, ConfigsAt
  <2>7. Item("venv", "remote") \notin Of(C)
    BY <2>1, Origin, ContentItems DEF Item
  <2>8. CASE ~ (request.packages /\ k = Archives)
    <3>1. Of(Conf) = Of(C)
      BY <2>8, CommandAt
    <3> QED
      BY <2>5, <2>6, <2>7, <3>1
  <2>9. CASE request.packages /\ k = Archives
    <3>1. C[k] = NoValue => Content(C[k]) = {}
      BY DEF NoValue, Content, Item
    <3>2. /\ k \in DOMAIN Conf
          /\ ItemsOf(Conf[k]) = Single("venv") \cup
                 (IF k \in DOMAIN C /\ C[k] # NoValue THEN ItemsOf(C[k]) ELSE {})
      BY <2>9, CommandAt
    <3>3. \A x \in Single("venv") : x.path # "empty"
      BY DEF Single, Item
    <3>4. Of(Conf) = Single("venv") \cup Of(C)
      <4> HIDE DEF C
      <4> QED
        BY <3>1, <3>2, <3>3, ContentItems
    <3> QED
      BY <2>5, <2>6, <2>7, <3>4 DEF Single
  <2> QED
    BY <2>8, <2>9
<1> QED
  BY <1>1, LaunchInvariant, PTL
=============================================================================
