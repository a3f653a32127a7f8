--------------------------- MODULE BootstrapProofs ---------------------------
(***************************************************************************)
(* Proofs about Bootstrap, for every set of orders the file system may     *)
(* list the rule modules in and any number of edits.                       *)
(***************************************************************************)
EXTENDS Bootstrap, SequenceTheorems, TLAPS

-----------------------------------------------------------------------------
(* What the packages hold.                                                 *)

\* The keys of the container, with the adapter's three ports.
LEMMA KeysAre ==
    Keys = {"GatewayHttpController", "ObservabilityHttpController", "ProbesHttpController",
            "ExecuteQueryPort", "CheckReadinessPort", "ObservabilityRecorder",
            "StdoutRecorder", "InMemoryRecorder", "JsonlFileRecorder", "GatewaySettings",
            "AccessGuard", "QueryExecutor", "QueryValidator", "QueryScrubber"}
<1>1. Injectables("postgres") =
        {GatewayHttpController, ObservabilityHttpController, ProbesHttpController,
         ExecuteQueryUseCase, CheckReadinessUseCase, MultiSinkRecorder, StdoutRecorder,
         InMemoryRecorder, JsonlFileRecorder, GatewaySettings, AssembleAccessGuard,
         PostgresQueryExecutor, PostgresQueryValidator, PostgresQueryScrubber}
    BY DEF Injectables, AdapterPorts
<1>2. Keys = {GatewayHttpController.key, ObservabilityHttpController.key,
              ProbesHttpController.key, ExecuteQueryUseCase.key, CheckReadinessUseCase.key,
              MultiSinkRecorder.key, StdoutRecorder.key, InMemoryRecorder.key,
              JsonlFileRecorder.key, GatewaySettings.key, AssembleAccessGuard.key,
              PostgresQueryExecutor.key, PostgresQueryValidator.key,
              PostgresQueryScrubber.key}
    BY <1>1 DEF Keys
<1> QED
    BY <1>2 DEF GatewayHttpController, ObservabilityHttpController, ProbesHttpController,
        ExecuteQueryUseCase, CheckReadinessUseCase, MultiSinkRecorder, StdoutRecorder,
        InMemoryRecorder, JsonlFileRecorder, GatewaySettings, AssembleAccessGuard,
        PostgresQueryExecutor, PostgresQueryValidator, PostgresQueryScrubber, Injectable

\* A key names one injectable.
LEMMA NeedsOf ==
    ASSUME NEW i \in Injectables("postgres")
    PROVE  i.key \in Keys /\ Needs[i.key] = i.needs
<1>1. \A j \in Injectables("postgres") : j.key = i.key => j = i
    BY DEF Injectables, AdapterPorts, GatewayHttpController, ObservabilityHttpController,
        ProbesHttpController, ExecuteQueryUseCase, CheckReadinessUseCase, MultiSinkRecorder,
        StdoutRecorder, InMemoryRecorder, JsonlFileRecorder, GatewaySettings,
        AssembleAccessGuard, PostgresQueryExecutor, PostgresQueryValidator,
        PostgresQueryScrubber, Injectable
<1>2. i.key \in Keys
    BY DEF Keys
<1>3. (CHOOSE j \in Injectables("postgres") : j.key = i.key) = i
    BY <1>1
<1> QED
    BY <1>2, <1>3 DEF Needs

\* The parameters of every constructor.
LEMMA NeedsAre ==
    /\ Needs["GatewayHttpController"] = {"ExecuteQueryPort"}
    /\ Needs["ObservabilityHttpController"] = {"InMemoryRecorder"}
    /\ Needs["ProbesHttpController"] = {"CheckReadinessPort"}
    /\ Needs["ExecuteQueryPort"] = {"AccessGuard", "ObservabilityRecorder", "GatewaySettings"}
    /\ Needs["CheckReadinessPort"] = {"AccessGuard"}
    /\ Needs["ObservabilityRecorder"]
            = {"StdoutRecorder", "InMemoryRecorder", "JsonlFileRecorder"}
    /\ Needs["StdoutRecorder"] = {}
    /\ Needs["InMemoryRecorder"] = {}
    /\ Needs["JsonlFileRecorder"] = {"GatewaySettings"}
    /\ Needs["GatewaySettings"] = {}
    /\ Needs["AccessGuard"] = {"QueryValidator", "QueryScrubber", "QueryExecutor"}
    /\ Needs["QueryExecutor"] = {"GatewaySettings"}
    /\ Needs["QueryValidator"] = {}
    /\ Needs["QueryScrubber"] = {}
<1>1. \A key, needs :
        Injectable(key, needs) \in Injectables("postgres") => Needs[key] = needs
    <2>1. \A key, needs :
            Injectable(key, needs).key = key /\ Injectable(key, needs).needs = needs
        BY DEF Injectable
    <2> QED
        BY <2>1, NeedsOf
<1>2. /\ GatewayHttpController \in Injectables("postgres")
      /\ ObservabilityHttpController \in Injectables("postgres")
      /\ ProbesHttpController \in Injectables("postgres")
      /\ ExecuteQueryUseCase \in Injectables("postgres")
      /\ CheckReadinessUseCase \in Injectables("postgres")
      /\ MultiSinkRecorder \in Injectables("postgres")
      /\ StdoutRecorder \in Injectables("postgres")
      /\ InMemoryRecorder \in Injectables("postgres")
      /\ JsonlFileRecorder \in Injectables("postgres")
      /\ GatewaySettings \in Injectables("postgres")
      /\ AssembleAccessGuard \in Injectables("postgres")
      /\ PostgresQueryExecutor \in Injectables("postgres")
      /\ PostgresQueryValidator \in Injectables("postgres")
      /\ PostgresQueryScrubber \in Injectables("postgres")
    BY DEF Injectables, AdapterPorts
<1> QED
    BY <1>1, <1>2
    DEF GatewayHttpController, ObservabilityHttpController, ProbesHttpController,
        ExecuteQueryUseCase, CheckReadinessUseCase, MultiSinkRecorder, StdoutRecorder,
        InMemoryRecorder, JsonlFileRecorder, GatewaySettings, AssembleAccessGuard,
        PostgresQueryExecutor, PostgresQueryValidator, PostgresQueryScrubber

LEMMA NeedsAreKeys == \A key \in Keys : Needs[key] \subseteq Keys
BY KeysAre, NeedsAre

\* Without the adapter's ports there is nothing the guard can be made of.
LEMMA OnlyPostgresProvides ==
    ASSUME NEW adapter, adapter # "postgres"
    PROVE  \E key \in {i.key : i \in Injectables(adapter)} :
                ~(Needs[key] \subseteq {i.key : i \in Injectables(adapter)})
<1>1. Injectables(adapter) =
        {GatewayHttpController, ObservabilityHttpController, ProbesHttpController,
         ExecuteQueryUseCase, CheckReadinessUseCase, MultiSinkRecorder, StdoutRecorder,
         InMemoryRecorder, JsonlFileRecorder, GatewaySettings, AssembleAccessGuard}
    BY DEF Injectables, AdapterPorts
<1>2. \A i \in Injectables(adapter) : i.key # "QueryValidator"
    BY <1>1 DEF GatewayHttpController, ObservabilityHttpController, ProbesHttpController,
        ExecuteQueryUseCase, CheckReadinessUseCase, MultiSinkRecorder, StdoutRecorder,
        InMemoryRecorder, JsonlFileRecorder, GatewaySettings, AssembleAccessGuard, Injectable
<1>3. AssembleAccessGuard \in Injectables(adapter) /\ AssembleAccessGuard.key = "AccessGuard"
    BY <1>1 DEF AssembleAccessGuard, Injectable
<1> QED
    BY <1>2, <1>3, NeedsAre

LEMMA ControllersAre ==
    /\ Len(Controllers) = 3
    /\ Controllers \in Seq(Keys)
    /\ \A i \in 1..3 : Controllers[i] \in Keys
    /\ Range(Controllers) = {Controllers[1], Controllers[2], Controllers[3]}
    /\ Controllers[1] = "GatewayHttpController"
    /\ Controllers[2] = "ObservabilityHttpController"
    /\ Controllers[3] = "ProbesHttpController"
BY KeysAre DEF Controllers, Range

-----------------------------------------------------------------------------
(* The inductive invariant.                                                *)

Valid(settings) == Missing(settings) \cup Invalid(settings) = {}

Stages == {"down", "adapter", "import", "controllers", "serving", "exited"}

Ways == {"missing", "invalid", "adapter", "ports", "reread", "path"}

\* What a start has read and imported when it has come this far.
StageInv ==
    /\ stage \in Stages
    /\ env \in Environments
    /\ registered \in Seq(Rules)
    /\ stage \in {"down", "adapter"} => registered = <<>>
    /\ stage \in {"adapter", "import", "controllers", "serving"} =>
        \E settings \in Environments :
            /\ first = {settings} /\ Valid(settings)
            /\ stage # "adapter" => settings.adapter # "absent"
            /\ stage \in {"controllers", "serving"} =>
                settings.adapter = "postgres" /\ Range(registered) = Rules

\* What the container holds: everything once, and with all it needs.
ContainerInv ==
    /\ built \in [Keys -> {0, 1}]
    /\ holds \in [Keys -> SUBSET (Keys \X {1})]
    /\ stage \in {"down", "adapter", "import"} =>
        routers = <<>> /\ second = {} /\ \A key \in Keys : built[key] = 0
    /\ \A key \in Keys : built[key] = 1 =>
        /\ \A need \in Needs[key] : built[need] = 1
        /\ holds[key] = Needs[key] \X {1}

\* The settings of the container, and what was built from them.
SettingsInv ==
    /\ second \subseteq Environments
    /\ \A settings \in second : second = {settings} /\ Valid(settings)
    /\ built["GatewaySettings"] = 1 => second # {}
    /\ built["JsonlFileRecorder"] = 1 => \A settings \in second : settings.path = "usable"
    /\ built["GatewaySettings"] = 0 => second = {}

\* The routers are those of the controllers that are built, in their order.
RoutersInv ==
    /\ routers \in Seq(Keys)
    /\ Len(routers) <= Len(Controllers)
    /\ \A i \in 1..Len(routers) : routers[i] = Controllers[i] /\ built[routers[i]] = 1
    /\ stage = "serving" => Len(routers) = Len(Controllers)

\* The cause of a failure is gone, or what the message is about.
Settled(way) ==
    /\ way \in {"missing", "reread"} => Missing(env) \subseteq told
    /\ way \in {"invalid", "reread"} => Invalid(env) \subseteq told
    /\ way \in {"adapter", "ports"} =>
        /\ env.adapter = "postgres" \/ "adapter" \in told
        /\ \A settings \in first : settings.adapter = "postgres" \/ "adapter" \in told
    /\ way = "path" =>
        /\ env.path = "usable" \/ "path" \in told
        /\ \A settings \in second : settings.path = "usable" \/ "path" \in told

FailuresInv ==
    /\ failures \in Seq(Ways)
    /\ told \subseteq {"adapter", "url", "numbers", "path"}
    /\ stage # "exited" => told = {}
    /\ IsInjective(failures)
    /\ \A i \in DOMAIN failures : Settled(failures[i])

IInv == StageInv /\ ContainerInv /\ SettingsInv /\ RoutersInv /\ FailuresInv

-----------------------------------------------------------------------------
(* What many steps have in common.                                         *)

LEMMA EnvironmentsAre ==
    ASSUME NEW e \in Environments
    PROVE  /\ DOMAIN e = {"adapter", "url", "numbers", "path"}
           /\ e.adapter \in {"missing", "absent", "sql", "postgres.rules", "postgres"}
           /\ e.url \in {"missing", "set"}
           /\ e.numbers \in {"valid", "invalid"}
           /\ e.path \in {"usable", "unusable"}
           /\ Missing(e) \subseteq {"adapter", "url"}
           /\ Invalid(e) \subseteq {"numbers"}
BY DEF Environments, Missing, Invalid

\* A step that leaves the container alone keeps what is known of it.
LEMMA ContainerStays ==
    ASSUME ContainerInv, SettingsInv, RoutersInv,
           UNCHANGED containerVars,
           stage' \in {"down", "adapter", "import"} => stage \in {"down", "adapter", "import"},
           stage' # "serving"
    PROVE  ContainerInv' /\ SettingsInv' /\ RoutersInv'
<1>1. UNCHANGED <<second, built, holds, routers>>
    BY DEF containerVars
<1>2. ContainerInv'
    BY <1>1 DEF ContainerInv
<1>3. SettingsInv'
    BY <1>1 DEF SettingsInv, Valid, Missing, Invalid
<1>4. RoutersInv'
    BY <1>1 DEF RoutersInv
<1> QED
    BY <1>2, <1>3, <1>4

\* What was settled stays settled while the settings that were read do.
LEMMA SettledStays ==
    ASSUME NEW way, Settled(way),
           UNCHANGED env, told \subseteq told',
           \A settings \in first' : settings \in first \/ settings = env,
           \A settings \in second' : settings \in second \/ settings = env
    PROVE  Settled(way)'
<1>1. Missing(env)' = Missing(env) /\ Invalid(env)' = Invalid(env)
    BY DEF Missing, Invalid
<1> QED
    BY <1>1 DEF Settled

\* A step that does not fail.
LEMMA FailuresStay ==
    ASSUME FailuresInv,
           UNCHANGED <<env, told, failures>>, stage' # "exited" => stage # "exited",
           \A settings \in first' : settings \in first \/ settings = env,
           \A settings \in second' : settings \in second \/ settings = env
    PROVE  FailuresInv'
<1>1. \A i \in DOMAIN failures : Settled(failures[i])'
    BY SettledStays DEF FailuresInv
<1>2. IsInjective(failures)'
    BY DEF FailuresInv, IsInjective
<1> QED
    BY <1>1, <1>2 DEF FailuresInv, Settled

\* A start that fails in a way that is settled now, and was not before.
LEMMA ExitKeeps ==
    ASSUME IInv, stage # "exited",
           NEW way \in Ways, NEW names, names \subseteq {"adapter", "url", "numbers", "path"},
           Exit(way, names), UNCHANGED <<env, first, registered, containerVars>>,
           ~Settled(way), Settled(way)'
    PROVE  IInv'
<1>1. /\ stage' = "exited" /\ told' = names /\ failures' = Append(failures, way)
      /\ told = {} /\ failures \in Seq(Ways)
    BY DEF Exit, IInv, FailuresInv
<1>2. StageInv'
    BY <1>1 DEF IInv, StageInv, Stages
<1>3. ContainerInv' /\ SettingsInv' /\ RoutersInv'
    BY <1>1, ContainerStays DEF IInv
<1>4. failures' \in Seq(Ways)
    BY <1>1
<1>5. \A w : Settled(w) => Settled(w)'
    <2>1. UNCHANGED <<env, first, second>>
        BY DEF containerVars
    <2> QED
        BY <1>1, <2>1, SettledStays
<1>6. /\ DOMAIN failures' = 1..Len(failures) + 1 /\ DOMAIN failures = 1..Len(failures)
      /\ Len(failures) \in Nat
      /\ \A i \in DOMAIN failures : failures'[i] = failures[i]
      /\ failures'[Len(failures) + 1] = way
    BY <1>1
<1>7. \A i \in DOMAIN failures' : i \in DOMAIN failures \/ i = Len(failures) + 1
    BY <1>6
<1>8. (\A i \in DOMAIN failures : Settled(failures[i]))'
    <2>1. \A w : (\E i \in DOMAIN failures' : failures'[i] = w) => Settled(w)'
        BY <1>5, <1>6, <1>7 DEF IInv, FailuresInv
    <2> QED
        BY <2>1
<1>9. IsInjective(failures)'
    <2>1. \A i \in DOMAIN failures : failures[i] # way
        BY DEF IInv, FailuresInv
    <2>2. \A a, b \in DOMAIN failures : failures[a] = failures[b] => a = b
        BY DEF IInv, FailuresInv, IsInjective
    <2>3. \A a, b \in DOMAIN failures' : failures'[a] = failures'[b] => a = b
        BY <1>6, <1>7, <2>1, <2>2
    <2> QED
        BY <2>3 DEF IsInjective
<1>10. FailuresInv'
    BY <1>1, <1>4, <1>8, <1>9 DEF FailuresInv
<1> QED
    BY <1>2, <1>3, <1>10 DEF IInv

-----------------------------------------------------------------------------
(* Every step keeps the invariant.                                         *)

LEMMA InitHolds ==
    ASSUME Init
    PROVE  IInv
<1>1. "GatewaySettings" \in Keys /\ "JsonlFileRecorder" \in Keys
    BY KeysAre
<1>2. StageInv
    BY DEF Init, NothingBuilt, StageInv, Stages
<1>3. ContainerInv
    BY DEF Init, NothingBuilt, ContainerInv
<1>4. SettingsInv
    BY <1>1 DEF Init, NothingBuilt, SettingsInv
<1>5. RoutersInv
    BY ControllersAre DEF Init, NothingBuilt, RoutersInv
<1>6. FailuresInv
    BY DEF Init, FailuresInv, IsInjective
<1> QED
    BY <1>2, <1>3, <1>4, <1>5, <1>6 DEF IInv

LEMMA LoadSettingsKeeps ==
    ASSUME IInv, LoadSettings
    PROVE  IInv'
<1>0. /\ stage = "down" /\ UNCHANGED <<env, registered, second, built, holds, routers>>
      /\ env \in Environments /\ told = {} /\ registered = <<>>
      /\ UNCHANGED containerVars
    BY DEF LoadSettings, IInv, StageInv, FailuresInv, containerVars
<1>1. CASE Missing(env) # {}
    <2>1. Exit("missing", Missing(env)) /\ UNCHANGED first
        BY <1>1 DEF LoadSettings
    <2>2. ~Settled("missing")
        BY <1>0, <1>1 DEF Settled
    <2>3. Settled("missing")'
        BY <1>0, <2>1 DEF Settled, Exit, Missing
    <2> QED
        BY <1>0, <2>1, <2>2, <2>3, EnvironmentsAre, ExitKeeps DEF Ways
<1>2. CASE Missing(env) = {} /\ Invalid(env) # {}
    <2>1. Exit("invalid", Invalid(env)) /\ UNCHANGED first
        BY <1>2 DEF LoadSettings
    <2>2. ~Settled("invalid")
        BY <1>0, <1>2 DEF Settled
    <2>3. Settled("invalid")'
        BY <1>0, <2>1 DEF Settled, Exit, Invalid
    <2> QED
        BY <1>0, <2>1, <2>2, <2>3, EnvironmentsAre, ExitKeeps DEF Ways
<1>3. CASE Missing(env) \cup Invalid(env) = {}
    <2>1. first' = {env} /\ stage' = "adapter" /\ UNCHANGED <<told, failures>>
        BY <1>3 DEF LoadSettings, Continue
    <2>2. StageInv'
        BY <1>0, <1>3, <2>1 DEF IInv, StageInv, Stages, Valid, Missing, Invalid
    <2>3. ContainerInv' /\ SettingsInv' /\ RoutersInv'
        BY <1>0, <2>1, ContainerStays DEF IInv
    <2>4. FailuresInv'
        BY <1>0, <2>1, FailuresStay DEF IInv
    <2> QED
        BY <2>2, <2>3, <2>4 DEF IInv
<1> QED
    BY <1>1, <1>2, <1>3

LEMMA LoadAdapterKeeps ==
    ASSUME IInv, LoadAdapter
    PROVE  IInv'
<1>0. /\ stage = "adapter" /\ UNCHANGED <<env, first, registered, second, built, holds, routers>>
      /\ env \in Environments /\ told = {} /\ registered = <<>>
      /\ UNCHANGED containerVars
    BY DEF LoadAdapter, IInv, StageInv, FailuresInv, containerVars
<1>1. PICK settings \in Environments :
        /\ first = {settings} /\ Valid(settings)
        /\ \/ settings.adapter = "absent" /\ Exit("adapter", {"adapter"})
           \/ settings.adapter # "absent" /\ Continue("import")
    BY <1>0 DEF LoadAdapter, IInv, StageInv
<1>2. CASE settings.adapter = "absent"
    <2>1. Exit("adapter", {"adapter"})
        BY <1>1, <1>2
    <2>2. ~Settled("adapter")
        BY <1>0, <1>1, <1>2 DEF Settled
    <2>3. Settled("adapter")'
        BY <2>1 DEF Settled, Exit
    <2> QED
        BY <1>0, <2>1, <2>2, <2>3, ExitKeeps DEF Ways
<1>3. CASE settings.adapter # "absent"
    <2>1. stage' = "import" /\ UNCHANGED <<told, failures>>
        BY <1>1, <1>3 DEF Continue
    <2>2. StageInv'
        BY <1>0, <1>1, <1>3, <2>1 DEF IInv, StageInv, Stages, Valid, Missing, Invalid
    <2>3. ContainerInv' /\ SettingsInv' /\ RoutersInv'
        BY <1>0, <2>1, ContainerStays DEF IInv
    <2>4. FailuresInv'
        BY <1>0, <2>1, FailuresStay DEF IInv
    <2> QED
        BY <2>2, <2>3, <2>4 DEF IInv
<1> QED
    BY <1>2, <1>3

LEMMA ImportRuleKeeps ==
    ASSUME IInv, NEW rule \in Rules, ImportRule(rule)
    PROVE  IInv'
<1>0. /\ stage = "import" /\ registered' = Append(registered, rule)
      /\ UNCHANGED <<env, stage, first, second, built, holds, routers, told, failures>>
      /\ UNCHANGED containerVars
    BY DEF ImportRule, containerVars, historyVars
<1>2. StageInv'
    BY <1>0 DEF IInv, StageInv, Stages, Valid, Missing, Invalid
<1>3. ContainerInv' /\ SettingsInv' /\ RoutersInv'
    BY <1>0, ContainerStays DEF IInv
<1>4. FailuresInv'
    BY <1>0, FailuresStay DEF IInv
<1> QED
    BY <1>2, <1>3, <1>4 DEF IInv

LEMMA CreateContainerKeeps ==
    ASSUME IInv, CreateContainer
    PROVE  IInv'
<1> DEFINE provided(adapter) == {i.key : i \in Injectables(adapter)}
<1>0. /\ stage = "import" /\ UNCHANGED <<env, first, registered, second, built, holds, routers>>
      /\ env \in Environments /\ told = {} /\ registered \in Seq(Rules)
      /\ UNCHANGED containerVars
    BY DEF CreateContainer, IInv, StageInv, FailuresInv, containerVars
<1>1. PICK settings \in Environments :
        /\ first = {settings} /\ Valid(settings) /\ settings.adapter # "absent"
        /\ RuleModules(settings.adapter) \subseteq Range(registered)
        /\ \/ /\ \A key \in provided(settings.adapter) : Needs[key] \subseteq provided(settings.adapter)
              /\ Continue("controllers")
           \/ /\ \E key \in provided(settings.adapter) :
                    ~(Needs[key] \subseteq provided(settings.adapter))
              /\ Exit("ports", {"adapter"})
    BY <1>0 DEF CreateContainer, IInv, StageInv
<1>2. CASE settings.adapter = "postgres"
    <2>1. provided("postgres") = Keys
        BY DEF Keys
    <2>2. stage' = "controllers" /\ UNCHANGED <<told, failures>>
        BY <1>1, <1>2, <2>1, NeedsAreKeys DEF Continue
    <2>3. Range(registered) = Rules
        <3>1. \A i \in 1..Len(registered) : registered[i] \in Rules
            BY <1>0
        <3>2. Range(registered) \subseteq Rules
            BY <1>0, <3>1 DEF Range
        <3> QED
            BY <1>1, <1>2, <3>2 DEF RuleModules
    <2>4. StageInv'
        BY <1>0, <1>1, <1>2, <2>2, <2>3 DEF StageInv, Stages, Valid, Missing, Invalid
    <2>5. ContainerInv' /\ SettingsInv' /\ RoutersInv'
        BY <1>0, <2>2, ContainerStays DEF IInv
    <2>6. FailuresInv'
        BY <1>0, <2>2, FailuresStay DEF IInv
    <2> QED
        BY <2>4, <2>5, <2>6 DEF IInv
<1>3. CASE settings.adapter # "postgres"
    <2>1. Exit("ports", {"adapter"})
        BY <1>1, <1>3, OnlyPostgresProvides
    <2>2. ~Settled("ports")
        BY <1>0, <1>1, <1>3 DEF Settled
    <2>3. Settled("ports")'
        BY <2>1 DEF Settled, Exit
    <2> QED
        BY <1>0, <2>1, <2>2, <2>3, ExitKeeps DEF Ways
<1> QED
    BY <1>2, <1>3

\* What is built is built once, after everything it needs.
LEMMA ConstructKeeps ==
    ASSUME IInv, NEW key \in Keys, Due(key), Construct(key), UNCHANGED stage
    PROVE  /\ ContainerInv' /\ RoutersInv'
           /\ built' = [built EXCEPT ![key] = 1]
           /\ stage = "controllers" /\ built[key] = 0
           /\ \A need \in Needs[key] : built[need] = 1
<1>1. /\ stage = "controllers" /\ built[key] = 0
      /\ \A need \in Needs[key] : built[need] > 0
    BY DEF Due
<1>2. built \in [Keys -> {0, 1}] /\ holds \in [Keys -> SUBSET (Keys \X {1})]
    BY DEF IInv, ContainerInv
<1>3. Needs[key] \subseteq Keys
    BY NeedsAreKeys
<1>4. \A need \in Needs[key] : built[need] = 1
    BY <1>1, <1>2, <1>3
<1>5. built' = [built EXCEPT ![key] = 1] /\ built' \in [Keys -> {0, 1}]
    BY <1>1, <1>2 DEF Construct
<1>6. holds' = [holds EXCEPT ![key] = Needs[key] \X {1}]
    <2>1. {<<need, built[need]>> : need \in Needs[key]} = Needs[key] \X {1}
        BY <1>4
    <2> QED
        BY <2>1 DEF Construct
<1>7. holds' \in [Keys -> SUBSET (Keys \X {1})]
    BY <1>2, <1>3, <1>6
<1>8. ASSUME NEW k \in Keys, built'[k] = 1
      PROVE  (\A need \in Needs[k] : built'[need] = 1) /\ holds'[k] = Needs[k] \X {1}
    <2>1. \A other \in Keys : built[other] = 1 => built'[other] = 1
        BY <1>2, <1>5
    <2>2. CASE k = key
        BY <1>2, <1>3, <1>4, <1>6, <2>1, <2>2
    <2>3. CASE k # key
        <3>1. built[k] = 1 /\ holds'[k] = holds[k]
            BY <1>2, <1>5, <1>6, <1>8, <2>3
        <3>2. Needs[k] \subseteq Keys
            BY NeedsAreKeys
        <3> QED
            BY <2>1, <3>1, <3>2 DEF IInv, ContainerInv
    <2> QED
        BY <2>2, <2>3
<1>9. ContainerInv'
    BY <1>1, <1>5, <1>7, <1>8 DEF ContainerInv
<1>10. RoutersInv'
    <2>1. UNCHANGED routers
        BY DEF Construct
    <2>2. \A i \in 1..Len(routers) : routers[i] \in Keys
        BY DEF IInv, RoutersInv
    <2>3. \A i \in 1..Len(routers) : built'[routers[i]] = 1
        BY <1>2, <1>5, <2>2 DEF IInv, RoutersInv
    <2> QED
        BY <2>1, <2>3 DEF IInv, RoutersInv
<1> QED
    BY <1>1, <1>4, <1>5, <1>9, <1>10

LEMMA BuildKeeps ==
    ASSUME IInv, NEW key \in Keys, Build(key)
    PROVE  IInv'
<1>1. /\ key \notin {"GatewaySettings", "JsonlFileRecorder"}
      /\ Due(key) /\ Construct(key)
      /\ UNCHANGED <<stage, second, told, failures, env, first, registered>>
    BY DEF Build, Construct
<1>2. ContainerInv' /\ RoutersInv' /\ built' = [built EXCEPT ![key] = 1]
    BY <1>1, ConstructKeeps
<1>3. SettingsInv'
    <2>1. built'["GatewaySettings"] = built["GatewaySettings"]
        BY <1>1, <1>2, KeysAre DEF IInv, ContainerInv
    <2>2. built'["JsonlFileRecorder"] = built["JsonlFileRecorder"]
        BY <1>1, <1>2, KeysAre DEF IInv, ContainerInv
    <2> QED
        BY <1>1, <2>1, <2>2 DEF IInv, SettingsInv, Valid, Missing, Invalid
<1>4. StageInv'
    BY <1>1 DEF IInv, StageInv, Stages, Valid, Missing, Invalid
<1>5. FailuresInv'
    BY <1>1, FailuresStay DEF IInv
<1> QED
    BY <1>2, <1>3, <1>4, <1>5 DEF IInv

LEMMA ReadSettingsAgainKeeps ==
    ASSUME IInv, ReadSettingsAgain
    PROVE  IInv'
<1>0. /\ "GatewaySettings" \in Keys /\ "JsonlFileRecorder" \in Keys
      /\ Due("GatewaySettings") /\ stage = "controllers"
      /\ env \in Environments /\ told = {}
    BY KeysAre DEF ReadSettingsAgain, Due, IInv, StageInv, FailuresInv
<1>1. CASE Missing(env) \cup Invalid(env) = {}
    <2>1. /\ second' = {env} /\ Construct("GatewaySettings")
          /\ UNCHANGED <<stage, told, failures, env, first, registered>>
        BY <1>1 DEF ReadSettingsAgain, Construct
    <2>2. /\ ContainerInv' /\ RoutersInv'
          /\ built' = [built EXCEPT !["GatewaySettings"] = 1]
          /\ built["GatewaySettings"] = 0
        BY <1>0, <2>1, ConstructKeeps
    <2>3. SettingsInv'
        <3>1. built'["GatewaySettings"] = 1
            BY <1>0, <2>2 DEF IInv, ContainerInv
        <3>2. built["JsonlFileRecorder"] = 0
            <4>1. built["JsonlFileRecorder"] # 1
                BY <1>0, <2>2, NeedsAre DEF IInv, ContainerInv
            <4> QED
                BY <1>0, <4>1 DEF IInv, ContainerInv
        <3>3. built'["JsonlFileRecorder"] = 0
            BY <1>0, <2>2, <3>2 DEF IInv, ContainerInv
        <3>4. Valid(env)
            BY <1>1 DEF Valid
        <3>5. \A settings \in second' : settings = env
            BY <2>1
        <3> QED
            BY <1>0, <2>1, <3>1, <3>3, <3>4 DEF SettingsInv, Valid, Missing, Invalid
    <2>4. StageInv'
        BY <2>1 DEF IInv, StageInv, Stages, Valid, Missing, Invalid
    <2>5. FailuresInv'
        BY <2>1, FailuresStay DEF IInv
    <2> QED
        BY <2>2, <2>3, <2>4, <2>5 DEF IInv
<1>2. CASE Missing(env) \cup Invalid(env) # {}
    <2>1. /\ Exit("reread", Missing(env) \cup Invalid(env))
          /\ UNCHANGED <<env, first, registered, containerVars>>
        BY <1>2 DEF ReadSettingsAgain, Abandon
    <2>2. ~Settled("reread")
        BY <1>0, <1>2 DEF Settled
    <2>3. Settled("reread")'
        BY <1>0, <2>1 DEF Settled, Exit, Missing, Invalid
    <2>4. Missing(env) \cup Invalid(env) \subseteq {"adapter", "url", "numbers", "path"}
        BY <1>0, EnvironmentsAre
    <2> QED
        BY <1>0, <2>1, <2>2, <2>3, <2>4, ExitKeeps DEF Ways
<1> QED
    BY <1>1, <1>2

LEMMA BuildJsonlFileRecorderKeeps ==
    ASSUME IInv, BuildJsonlFileRecorder
    PROVE  IInv'
<1>0. /\ "GatewaySettings" \in Keys /\ "JsonlFileRecorder" \in Keys
      /\ Due("JsonlFileRecorder") /\ stage = "controllers" /\ told = {}
    BY KeysAre DEF BuildJsonlFileRecorder, Due, IInv, FailuresInv
<1>1. PICK settings \in second :
        \/ /\ settings.path = "usable"
           /\ Construct("JsonlFileRecorder")
           /\ UNCHANGED <<stage, second, told, failures>>
        \/ /\ settings.path = "unusable"
           /\ Abandon("path", {"path"})
    BY DEF BuildJsonlFileRecorder
<1>2. CASE settings.path = "usable"
    <2>1. /\ Construct("JsonlFileRecorder")
          /\ UNCHANGED <<stage, second, told, failures, env, first, registered>>
        BY <1>1, <1>2 DEF Construct
    <2>2. /\ ContainerInv' /\ RoutersInv'
          /\ built' = [built EXCEPT !["JsonlFileRecorder"] = 1]
        BY <1>0, <2>1, ConstructKeeps
    <2>3. SettingsInv'
        <3>1. built'["GatewaySettings"] = built["GatewaySettings"]
            BY <1>0, <2>2 DEF IInv, ContainerInv
        <3>2. \A other \in second : other.path = "usable"
            BY <1>1, <1>2 DEF IInv, SettingsInv
        <3> QED
            BY <2>1, <3>1, <3>2 DEF IInv, SettingsInv, Valid, Missing, Invalid
    <2>4. StageInv'
        BY <2>1 DEF IInv, StageInv, Stages, Valid, Missing, Invalid
    <2>5. FailuresInv'
        BY <2>1, FailuresStay DEF IInv
    <2> QED
        BY <2>2, <2>3, <2>4, <2>5 DEF IInv
<1>3. CASE settings.path = "unusable"
    <2>1. /\ Exit("path", {"path"})
          /\ UNCHANGED <<env, first, registered, containerVars>>
        BY <1>1, <1>3 DEF Abandon
    <2>2. ~Settled("path")
        BY <1>0, <1>3 DEF Settled
    <2>3. Settled("path")'
        BY <2>1 DEF Settled, Exit
    <2> QED
        BY <1>0, <2>1, <2>2, <2>3, ExitKeeps DEF Ways
<1> QED
    BY <1>1, <1>2, <1>3

LEMMA IncludeRouterKeeps ==
    ASSUME IInv, NEW key \in Keys, IncludeRouter(key)
    PROVE  IInv'
<1>1. /\ stage = "controllers" /\ Len(routers) < Len(Controllers)
      /\ key = Controllers[Len(routers) + 1] /\ built[key] > 0
      /\ routers' = Append(routers, key)
      /\ UNCHANGED <<env, stage, first, registered, second, built, holds, told, failures>>
    BY DEF IncludeRouter, historyVars
<1>2. RoutersInv'
    <2>1. routers \in Seq(Keys) /\ built[key] = 1 /\ Len(routers) \in Nat
        BY <1>1 DEF IInv, RoutersInv, ContainerInv
    <2>2. /\ routers' \in Seq(Keys) /\ Len(routers') = Len(routers) + 1
          /\ \A i \in 1..Len(routers) : routers'[i] = routers[i]
          /\ routers'[Len(routers) + 1] = key
        BY <1>1, <2>1
    <2>3. ASSUME NEW i \in 1..Len(routers')
          PROVE  routers'[i] = Controllers[i] /\ built'[routers'[i]] = 1
        <3>1. i \in 1..Len(routers) \/ i = Len(routers) + 1
            BY <2>1, <2>2
        <3> QED
            BY <1>1, <2>1, <2>2, <3>1 DEF IInv, RoutersInv
    <2>4. Len(routers') <= Len(Controllers)
        BY <1>1, <2>1, <2>2, ControllersAre
    <2> QED
        BY <1>1, <2>2, <2>3, <2>4 DEF RoutersInv
<1>3. ContainerInv'
    BY <1>1 DEF IInv, ContainerInv
<1>4. SettingsInv'
    BY <1>1 DEF IInv, SettingsInv, Valid, Missing, Invalid
<1>5. StageInv'
    BY <1>1 DEF IInv, StageInv, Stages, Valid, Missing, Invalid
<1>6. FailuresInv'
    BY <1>1, FailuresStay DEF IInv
<1> QED
    BY <1>2, <1>3, <1>4, <1>5, <1>6 DEF IInv

LEMMA ServeKeeps ==
    ASSUME IInv, Serve
    PROVE  IInv'
<1>1. /\ stage = "controllers" /\ stage' = "serving" /\ Len(routers) = Len(Controllers)
      /\ UNCHANGED <<env, first, registered, second, built, holds, routers, told, failures>>
    BY DEF Serve, containerVars, historyVars
<1>2. RoutersInv' /\ ContainerInv'
    BY <1>1 DEF IInv, RoutersInv, ContainerInv
<1>3. SettingsInv'
    BY <1>1 DEF IInv, SettingsInv, Valid, Missing, Invalid
<1>4. StageInv'
    BY <1>1 DEF IInv, StageInv, Stages, Valid, Missing, Invalid
<1>5. FailuresInv'
    BY <1>1, FailuresStay DEF IInv
<1> QED
    BY <1>2, <1>3, <1>4, <1>5 DEF IInv

\* What the message was about is corrected, and the rest stays as it was.
LEMMA RepairKeeps ==
    ASSUME IInv, Repair
    PROVE  IInv'
<1>0. /\ stage' = "down" /\ told' = {} /\ first' = {} /\ second' = {}
      /\ registered' = <<>> /\ routers' = <<>> /\ UNCHANGED failures
      /\ built' = [k \in Keys |-> 0] /\ holds' = [k \in Keys |-> {}]
      /\ env' \in Environments /\ env \in Environments
      /\ \A name \in DOMAIN env \ told : env'[name] = env[name]
      /\ \A name \in told : env'[name] \in {"postgres", "set", "valid", "usable"}
    BY DEF Repair, IInv, StageInv
<1>1. "GatewaySettings" \in Keys /\ "JsonlFileRecorder" \in Keys
    BY KeysAre
<1>2. StageInv'
    BY <1>0 DEF StageInv, Stages
<1>3. ContainerInv'
    BY <1>0 DEF ContainerInv
<1>4. SettingsInv'
    BY <1>0, <1>1 DEF SettingsInv
<1>5. RoutersInv'
    BY <1>0, ControllersAre DEF RoutersInv
<1>6. FailuresInv'
    <2>1. ASSUME NEW w, Settled(w)
          PROVE  Settled(w)'
        <3>1. ASSUME NEW name \in {"adapter", "url", "numbers", "path"}
              PROVE  \/ name \notin told /\ env'[name] = env[name]
                     \/ name \in told /\ env'[name] \in {"postgres", "set", "valid", "usable"}
            BY <1>0, EnvironmentsAre
        <3>2. Missing(env) \subseteq told => Missing(env)' = {}
            <4>1. ASSUME NEW name \in {"adapter", "url"}, env'[name] = "missing"
                  PROVE  name \in Missing(env) /\ name \notin told
                <5>1. env[name] = "missing"
                    BY <3>1, <4>1
                <5>2. name \notin told
                    BY <1>0, <4>1
                <5> QED
                    BY <5>1, <5>2 DEF Missing
            <4> QED
                BY <4>1 DEF Missing
        <3>3. Invalid(env) \subseteq told => Invalid(env)' = {}
            <4>1. ASSUME NEW name \in {"numbers"}, env'[name] = "invalid"
                  PROVE  name \in Invalid(env) /\ name \notin told
                <5>1. env[name] = "invalid"
                    BY <3>1, <4>1
                <5>2. name \notin told
                    BY <1>0, <4>1
                <5> QED
                    BY <5>1, <5>2 DEF Invalid
            <4> QED
                BY <4>1 DEF Invalid
        <3>4. env.adapter = "postgres" \/ "adapter" \in told => env'.adapter = "postgres"
            <4>1. \/ "adapter" \notin told /\ env'["adapter"] = env["adapter"]
                  \/ env'["adapter"] \in {"postgres", "set", "valid", "usable"}
                BY <3>1
            <4>2. env'["adapter"] \in {"missing", "absent", "sql", "postgres.rules", "postgres"}
                BY <1>0, EnvironmentsAre
            <4> QED
                BY <4>1, <4>2
        <3>5. env.path = "usable" \/ "path" \in told => env'.path = "usable"
            <4>1. \/ "path" \notin told /\ env'["path"] = env["path"]
                  \/ env'["path"] \in {"postgres", "set", "valid", "usable"}
                BY <3>1
            <4>2. env'["path"] \in {"usable", "unusable"}
                BY <1>0, EnvironmentsAre
            <4> QED
                BY <4>1, <4>2
        <3> QED
            BY <1>0, <2>1, <3>2, <3>3, <3>4, <3>5 DEF Settled
    <2>2. (\A i \in DOMAIN failures : Settled(failures[i]))'
        <3>1. \A w : (\E i \in DOMAIN failures : failures[i] = w) => Settled(w)'
            BY <2>1 DEF IInv, FailuresInv
        <3> QED
            BY <1>0, <3>1
    <2>3. IsInjective(failures)'
        BY <1>0 DEF IInv, FailuresInv, IsInjective
    <2> QED
        BY <1>0, <2>2, <2>3 DEF IInv, FailuresInv
<1> QED
    BY <1>2, <1>3, <1>4, <1>5, <1>6 DEF IInv

\* Somebody edits the settings: what failed before may fail again.
LEMMA EditKeeps ==
    ASSUME IInv, Edit
    PROVE  IInv'
<1>1. /\ env' \in Environments /\ failures' = <<>> /\ stage # "exited"
      /\ UNCHANGED <<stage, first, registered, second, built, holds, routers, told>>
    BY DEF Edit, containerVars
<1>2. StageInv'
    BY <1>1 DEF IInv, StageInv, Stages, Valid, Missing, Invalid
<1>3. ContainerInv' /\ RoutersInv'
    BY <1>1 DEF IInv, ContainerInv, RoutersInv
<1>4. SettingsInv'
    BY <1>1 DEF IInv, SettingsInv, Valid, Missing, Invalid
<1>5. FailuresInv'
    BY <1>1 DEF IInv, FailuresInv, IsInjective
<1> QED
    BY <1>2, <1>3, <1>4, <1>5 DEF IInv

LEMMA StutterKeeps ==
    ASSUME IInv, UNCHANGED vars
    PROVE  IInv'
<1>1. /\ UNCHANGED <<env, stage, first, registered, second, built, holds, routers, told, failures>>
    BY DEF vars, containerVars, historyVars
<1>2. StageInv'
    BY <1>1 DEF IInv, StageInv, Stages, Valid, Missing, Invalid
<1>3. ContainerInv' /\ RoutersInv'
    BY <1>1 DEF IInv, ContainerInv, RoutersInv
<1>4. SettingsInv'
    BY <1>1 DEF IInv, SettingsInv, Valid, Missing, Invalid
<1>5. FailuresInv'
    BY <1>1, FailuresStay DEF IInv
<1> QED
    BY <1>2, <1>3, <1>4, <1>5 DEF IInv

LEMMA NextKeeps ==
    ASSUME IInv, [Next]_vars
    PROVE  IInv'
<1>1. CASE BuildApp
    BY <1>1, LoadSettingsKeeps, LoadAdapterKeeps, ImportRuleKeeps, CreateContainerKeeps,
        BuildKeeps, IncludeRouterKeeps, ReadSettingsAgainKeeps, BuildJsonlFileRecorderKeeps,
        ServeKeeps DEF BuildApp
<1> QED
    BY <1>1, RepairKeeps, EditKeeps, StutterKeeps DEF Next

-----------------------------------------------------------------------------
(* What the invariant says of an app that serves.                          *)

\* Who needs one key of the container in the end needs all of them.
LEMMA EverythingIsBuilt ==
    ASSUME IInv, stage = "serving"
    PROVE  \A key \in Keys : built[key] = 1
<1>1. \A key \in Keys : built[key] = 1 => \A need \in Needs[key] : built[need] = 1
    BY DEF IInv, ContainerInv
<1>2. /\ built["GatewayHttpController"] = 1
      /\ built["ObservabilityHttpController"] = 1
      /\ built["ProbesHttpController"] = 1
    <2>1. Len(routers) = 3
        BY ControllersAre DEF IInv, RoutersInv
    <2>2. \A i \in {1, 2, 3} : built[Controllers[i]] = 1
        BY <2>1 DEF IInv, RoutersInv
    <2> QED
        BY <2>2, ControllersAre
<1>3. built["ExecuteQueryPort"] = 1 /\ built["CheckReadinessPort"] = 1
    BY <1>1, <1>2, KeysAre, NeedsAre
<1>4. /\ built["AccessGuard"] = 1 /\ built["ObservabilityRecorder"] = 1
      /\ built["GatewaySettings"] = 1
    BY <1>1, <1>3, KeysAre, NeedsAre
<1>5. /\ built["QueryValidator"] = 1 /\ built["QueryScrubber"] = 1
      /\ built["QueryExecutor"] = 1 /\ built["StdoutRecorder"] = 1
      /\ built["InMemoryRecorder"] = 1 /\ built["JsonlFileRecorder"] = 1
    BY <1>1, <1>4, KeysAre, NeedsAre
<1> QED
    BY <1>2, <1>3, <1>4, <1>5, KeysAre

LEMMA InvariantServesWhole ==
    ASSUME IInv
    PROVE  ServesWhole
<1> SUFFICES ASSUME stage = "serving"
             PROVE  /\ Range(routers) = Range(Controllers)
                    /\ \A key \in Keys : holds[key] = Needs[key] \X {1}
    BY DEF ServesWhole
<1>1. \A key \in Keys : holds[key] = Needs[key] \X {1}
    BY EverythingIsBuilt DEF IInv, ContainerInv
<1>2. Range(routers) = Range(Controllers)
    <2>1. Len(routers) = Len(Controllers) /\ routers \in Seq(Keys) /\ Controllers \in Seq(Keys)
        BY ControllersAre DEF IInv, RoutersInv
    <2>2. DOMAIN routers = DOMAIN Controllers
        BY <2>1
    <2>3. \A i \in DOMAIN routers : routers[i] = Controllers[i]
        BY <2>1 DEF IInv, RoutersInv
    <2> QED
        BY <2>2, <2>3 DEF Range
<1> QED
    BY <1>1, <1>2

LEMMA InvariantServesValidSettings ==
    ASSUME IInv
    PROVE  ServesValidSettings
<1> SUFFICES ASSUME stage = "serving"
             PROVE  /\ \A settings \in first : settings.adapter = "postgres"
                    /\ second # {}
                    /\ \A settings \in second :
                        Missing(settings) \cup Invalid(settings) = {} /\ settings.path = "usable"
    BY DEF ServesValidSettings
<1>1. built["GatewaySettings"] = 1 /\ built["JsonlFileRecorder"] = 1
    BY EverythingIsBuilt, KeysAre
<1>2. \A settings \in first : settings.adapter = "postgres"
    BY DEF IInv, StageInv
<1> QED
    BY <1>1, <1>2 DEF IInv, SettingsInv, Valid

LEMMA InvariantHolds == Spec => []IInv
<1> QED
    BY InitHolds, NextKeeps, PTL DEF Spec

\* An app that serves is whole: every route is mounted, and everything is built
\* once, so the page reads the very recorder the use case writes to.
THEOREM StartServesWhole == Spec => []ServesWhole
BY InvariantHolds, InvariantServesWhole, PTL

\* The gateway does not serve with a missing or an invalid variable, without the
\* adapter's ports or without the directory of the file sink, whenever and however
\* often the settings are edited while it starts.
THEOREM StartServesValidSettings == Spec => []ServesValidSettings
BY InvariantHolds, InvariantServesValidSettings, PTL

\* An operator who corrects what the messages are about never sees one again.
THEOREM StartFailsAnew == Spec => []NoFailureRecurs
<1>1. IInv => NoFailureRecurs
    BY DEF IInv, FailuresInv, NoFailureRecurs
<1> QED
    BY <1>1, InvariantHolds, PTL

-----------------------------------------------------------------------------
(* The start, as the validator sees it.                                    *)

LEMMA InitIsValidators ==
    ASSUME Init
    PROVE  Validator!Init
BY DEF Init, NothingBuilt, Validator!Init

\* Every step registers one more rule, starts serving with all of them, starts
\* again from nothing, or is none of the validator's business.
LEMMA StepIsValidators ==
    ASSUME IInv, [Next]_vars
    PROVE  [Validator!Next \/ Repair]_<<registered, stage = "serving">>
<1>1. ASSUME NEW rule \in Rules, ImportRule(rule)
      PROVE  Validator!ImportRule(rule)
    <2>1. /\ stage = "import" /\ stage' = stage
          /\ rule \notin Range(registered)
          /\ registered' = Append(registered, rule)
        BY <1>1 DEF ImportRule
    <2> QED
        BY <2>1 DEF Validator!ImportRule, Validator!Range, Range
<1>2. ASSUME Serve
      PROVE  Validator!StartServing
    <2>1. /\ stage = "controllers" /\ stage' = "serving" /\ registered' = registered
        BY <1>2 DEF Serve
    <2>2. Range(registered) = Rules
        BY <2>1 DEF IInv, StageInv
    <2> QED
        BY <2>1, <2>2 DEF Validator!StartServing, Validator!Range, Range, Validator!Rules, Rules
<1>3. ASSUME \/ LoadSettings \/ LoadAdapter \/ CreateContainer
             \/ \E key \in Keys : Build(key) \/ IncludeRouter(key)
             \/ ReadSettingsAgain \/ BuildJsonlFileRecorder
             \/ Edit \/ UNCHANGED vars
      PROVE  UNCHANGED <<registered, stage = "serving">>
    <2>1. registered' = registered
        BY <1>3 DEF LoadSettings, LoadAdapter, CreateContainer, Build, IncludeRouter,
            ReadSettingsAgain, BuildJsonlFileRecorder, Construct, Abandon, Edit, vars
    <2>2. stage' = stage \/ (stage # "serving" /\ stage' # "serving")
        <3>1. CASE LoadSettings \/ LoadAdapter \/ CreateContainer
            BY <3>1 DEF LoadSettings, LoadAdapter, CreateContainer, Exit, Continue
        <3>2. CASE \E key \in Keys : Build(key) \/ IncludeRouter(key)
            BY <3>2 DEF Build, IncludeRouter
        <3>3. CASE ReadSettingsAgain \/ BuildJsonlFileRecorder
            BY <3>3 DEF ReadSettingsAgain, BuildJsonlFileRecorder, Due, Abandon, Exit
        <3>4. CASE Edit \/ UNCHANGED vars
            BY <3>4 DEF Edit, vars, containerVars, historyVars
        <3> QED
            BY <1>3, <3>1, <3>2, <3>3, <3>4
    <2> QED
        BY <2>1, <2>2
<1>4. \A rule \in Rules : rule \in Validator!Rules
    BY DEF Validator!Rules, Rules
<1>5. CASE \E rule \in Rules : ImportRule(rule)
    BY <1>1, <1>4, <1>5 DEF Validator!Next
<1>6. CASE Serve
    BY <1>2, <1>6 DEF Validator!Next
<1>7. CASE Repair
    BY <1>7
<1> QED
    BY <1>3, <1>5, <1>6, <1>7 DEF Next, BuildApp

\* build_app() is the start the validator's module assumes: rules come one by one,
\* and no request is served before the last of them; only a new start, from
\* nothing, takes rules away.
THEOREM StartLoadsTheRegistry == Spec => LoadsTheRegistry
<1>1. Init => Validator!Init
    BY InitIsValidators
<1>2. IInv /\ [Next]_vars => [Validator!Next \/ Repair]_<<registered, stage = "serving">>
    BY StepIsValidators
<1> QED
    BY <1>1, <1>2, InvariantHolds, PTL DEF Spec, LoadsTheRegistry
=============================================================================
