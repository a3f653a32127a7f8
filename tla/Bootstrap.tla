----------------------------- MODULE Bootstrap -----------------------------
(***************************************************************************)
(* build_app(): settings are read, the adapter package is imported, the    *)
(* injectables are wired and the controllers mounted.  Any of these steps  *)
(* may end the process with a message; the operator then corrects what the *)
(* message is about and starts again.  The settings are read twice, and    *)
(* may be edited at any time.                                              *)
(***************************************************************************)
EXTENDS SqlRules, Functions

CONSTANTS
    Listings,       \* the orders in which the file system may list the rule modules
    MaxEdits        \* bound: how often the settings are edited during a start

ASSUME BootstrapAssumption ==
    /\ \A listing \in Listings : listing \in Seq(Rules) /\ Range(listing) = Rules
    /\ MaxEdits \in Nat

VARIABLES
    env,            \* the environment and .env
    stage,          \* how far build_app() has come
    first,          \* the set holding the settings build_app() read
    second,         \* the set holding the GatewaySettings of the container
    registered,     \* _classes_by_dialect["postgres"]
    built,          \* built[k]: how often the container has built injectable k
    holds,          \* holds[k]: the instances k was built with, <<key, number>>
    routers,        \* the controllers whose router is mounted
    told,           \* the variables the last failed start was about
    failures,       \* history: how the starts failed since the last edit
    edits           \* how often the settings were edited during a start

containerVars == <<second, built, holds, routers>>
historyVars == <<told, failures, edits>>
vars == <<env, stage, first, registered, containerVars, historyVars>>

\* What the start tells apart of each variable; "numbers" stands for the three
\* bounded integers, and a path that is left empty is usable.
Environments ==
    [adapter: {"missing", "absent", "sql", "postgres.rules", "postgres"},
     url: {"missing", "set"}, numbers: {"valid", "invalid"}, path: {"usable", "unusable"}]

Missing(settings) == {name \in {"adapter", "url"} : settings[name] = "missing"}

Invalid(settings) == {name \in {"numbers"} : settings[name] = "invalid"}

-----------------------------------------------------------------------------
(* What the packages hold: injectables, by the key the container knows     *)
(* them by, with the parameters of their constructors; and rule modules.   *)

Injectable(key, needs) == [key |-> key, needs |-> needs]

GatewayHttpController == Injectable("GatewayHttpController", {"ExecuteQueryPort"})
ObservabilityHttpController == Injectable("ObservabilityHttpController", {"InMemoryRecorder"})
ProbesHttpController == Injectable("ProbesHttpController", {"CheckReadinessPort"})
ExecuteQueryUseCase ==
    Injectable("ExecuteQueryPort", {"AccessGuard", "ObservabilityRecorder", "GatewaySettings"})
CheckReadinessUseCase == Injectable("CheckReadinessPort", {"AccessGuard"})
MultiSinkRecorder ==
    Injectable("ObservabilityRecorder", {"StdoutRecorder", "InMemoryRecorder", "JsonlFileRecorder"})
StdoutRecorder == Injectable("StdoutRecorder", {})
InMemoryRecorder == Injectable("InMemoryRecorder", {})
JsonlFileRecorder == Injectable("JsonlFileRecorder", {"GatewaySettings"})
GatewaySettings == Injectable("GatewaySettings", {})
AssembleAccessGuard ==
    Injectable("AccessGuard", {"QueryValidator", "QueryScrubber", "QueryExecutor"})
PostgresQueryExecutor == Injectable("QueryExecutor", {"GatewaySettings"})
PostgresQueryValidator == Injectable("QueryValidator", {})
PostgresQueryScrubber == Injectable("QueryScrubber", {})

AdapterPorts(adapter) ==
    IF adapter = "postgres"
    THEN {PostgresQueryExecutor, PostgresQueryValidator, PostgresQueryScrubber}
    ELSE {}

Injectables(adapter) ==
    {GatewayHttpController, ObservabilityHttpController, ProbesHttpController,
     ExecuteQueryUseCase, CheckReadinessUseCase, MultiSinkRecorder, StdoutRecorder,
     InMemoryRecorder, JsonlFileRecorder, GatewaySettings, AssembleAccessGuard}
        \cup AdapterPorts(adapter)

\* Mutant: modules of sub-packages are not found.
RuleModulesFlat(adapter) == IF adapter = "postgres.rules" THEN Rules ELSE {}

\* The rule modules below the adapter package, however deep.
RuleModules(adapter) == IF adapter \in {"postgres", "postgres.rules"} THEN Rules ELSE {}

Keys == {i.key : i \in Injectables("postgres")}

Needs == [key \in Keys |-> (CHOOSE i \in Injectables("postgres") : i.key = key).needs]

\* The @injectable classes of the controllers package, by name.
Controllers == <<"GatewayHttpController", "ObservabilityHttpController", "ProbesHttpController">>

\* What container.get(key) builds: key, and what it needs, and so on.
Behind[key \in Keys] == {key} \cup UNION {Behind[need] : need \in Needs[key]}

-----------------------------------------------------------------------------
NothingBuilt ==
    /\ first = {} /\ second = {}
    /\ registered = <<>>
    /\ built = [k \in Keys |-> 0]
    /\ holds = [k \in Keys |-> {}]
    /\ routers = <<>>

Init ==
    /\ env \in Environments
    /\ stage = "down"
    /\ NothingBuilt
    /\ told = {}
    /\ failures = <<>>
    /\ edits = 0

\* The process ends in this way, and its message is about these variables.
Exit(way, names) ==
    /\ stage' = "exited"
    /\ told' = names
    /\ failures' = Append(failures, way)

Continue(next) ==
    /\ stage' = next
    /\ UNCHANGED <<told, failures>>

-----------------------------------------------------------------------------
\* Mutant: the message names one missing variable only.
LoadSettingsNamingOne ==
    /\ stage = "down"
    /\ \/ /\ Missing(env) # {}
          /\ Exit("missing", {CHOOSE name \in Missing(env) : TRUE})
          /\ UNCHANGED first
       \/ /\ Missing(env) = {} /\ Invalid(env) # {}
          /\ Exit("invalid", Invalid(env))
          /\ UNCHANGED first
       \/ /\ Missing(env) \cup Invalid(env) = {}
          /\ first' = {env}
          /\ Continue("adapter")
    /\ UNCHANGED <<env, registered, containerVars, edits>>

\* _load_settings_or_exit: the missing variables are named, all of them, and
\* only when there are none the invalid ones.
LoadSettings ==
    /\ stage = "down"
    /\ \/ /\ Missing(env) # {}
          /\ Exit("missing", Missing(env))
          /\ UNCHANGED first
       \/ /\ Missing(env) = {} /\ Invalid(env) # {}
          /\ Exit("invalid", Invalid(env))
          /\ UNCHANGED first
       \/ /\ Missing(env) \cup Invalid(env) = {}
          /\ first' = {env}
          /\ Continue("adapter")
    /\ UNCHANGED <<env, registered, containerVars, edits>>

\* Mutant: an adapter that cannot be imported is tried again and again.
LoadAdapterRetrying ==
    /\ stage = "adapter"
    /\ \E settings \in first : settings.adapter # "absent" /\ Continue("import")
    /\ UNCHANGED <<env, first, registered, containerVars, edits>>

\* _load_adapter: AdapterImportFailed, or the adapter's package.
LoadAdapter ==
    /\ stage = "adapter"
    /\ \E settings \in first :
        \/ settings.adapter = "absent" /\ Exit("adapter", {"adapter"})
        \/ settings.adapter # "absent" /\ Continue("import")
    /\ UNCHANGED <<env, first, registered, containerVars, edits>>

\* _import_submodules_recursively over the adapter, in file-system order.
ImportRule(rule) ==
    /\ stage = "import"
    /\ \E settings \in first : rule \in RuleModules(settings.adapter)
    /\ \E listing \in Listings :
        /\ registered = SubSeq(listing, 1, Len(registered))
        /\ rule \notin Range(registered) /\ rule = listing[Len(registered) + 1]
    /\ registered' = Append(registered, rule)
    /\ UNCHANGED <<env, stage, first, containerVars, historyVars>>

\* Everything is imported.  create_sync_container refuses a parameter that
\* nothing provides.
CreateContainer ==
    /\ stage = "import"
    /\ \E settings \in first :
        LET provided == {i.key : i \in Injectables(settings.adapter)}
        IN  /\ RuleModules(settings.adapter) \subseteq Range(registered)
            /\ \/ /\ \A key \in provided : Needs[key] \subseteq provided
                  /\ Continue("controllers")
               \/ /\ \E key \in provided : ~(Needs[key] \subseteq provided)
                  /\ Exit("ports", {"adapter"})
    /\ UNCHANGED <<env, first, registered, containerVars, edits>>

-----------------------------------------------------------------------------
(* container.get(controller) for one controller after the other.           *)

\* Mutant: every consumer gets a recorder of its own.
DueTransient(key) ==
    /\ stage = "controllers"
    /\ Len(routers) < Len(Controllers)
    /\ key \in Behind[Controllers[Len(routers) + 1]]
    /\ \/ built[key] = 0
       \/ key = "InMemoryRecorder" /\ built[key] = Len(routers)
    /\ \A need \in Needs[key] : built[need] > 0

\* key is the next thing to build: singletons, and their parameters first.
Due(key) ==
    /\ stage = "controllers"
    /\ Len(routers) < Len(Controllers)
    /\ key \in Behind[Controllers[Len(routers) + 1]]
    /\ built[key] = 0
    /\ \A need \in Needs[key] : built[need] > 0

Construct(key) ==
    /\ built' = [built EXCEPT ![key] = @ + 1]
    /\ holds' = [holds EXCEPT ![key] = {<<need, built[need]>> : need \in Needs[key]}]
    /\ UNCHANGED <<env, first, registered, routers, edits>>

Build(key) ==
    /\ key \notin {"GatewaySettings", "JsonlFileRecorder"}
    /\ Due(key)
    /\ Construct(key)
    /\ UNCHANGED <<stage, second, told, failures>>

Abandon(way, names) ==
    /\ Exit(way, names)
    /\ UNCHANGED <<env, first, registered, containerVars, edits>>

\* Mutant: the second reading is not validated.
ReadSettingsAgainUnchecked ==
    /\ Due("GatewaySettings")
    /\ second' = {env}
    /\ Construct("GatewaySettings")
    /\ UNCHANGED <<stage, told, failures>>

\* create_gateway_settings reads and validates again; here the error is raw.
ReadSettingsAgain ==
    /\ Due("GatewaySettings")
    /\ \/ /\ Missing(env) \cup Invalid(env) = {}
          /\ second' = {env}
          /\ Construct("GatewaySettings")
          /\ UNCHANGED <<stage, told, failures>>
       \/ /\ Missing(env) \cup Invalid(env) # {}
          /\ Abandon("reread", Missing(env) \cup Invalid(env))

\* The file's directory is created, which may fail.
BuildJsonlFileRecorder ==
    /\ Due("JsonlFileRecorder")
    /\ \E settings \in second :
        \/ /\ settings.path = "usable"
           /\ Construct("JsonlFileRecorder")
           /\ UNCHANGED <<stage, second, told, failures>>
        \/ /\ settings.path = "unusable"
           /\ Abandon("path", {"path"})

IncludeRouter(key) ==
    /\ stage = "controllers"
    /\ Len(routers) < Len(Controllers) /\ key = Controllers[Len(routers) + 1]
    /\ built[key] > 0
    /\ routers' = Append(routers, key)
    /\ UNCHANGED <<env, stage, first, registered, second, built, holds, historyVars>>

\* build_app() returns.
Serve ==
    /\ stage = "controllers"
    /\ Len(routers) = Len(Controllers)
    /\ stage' = "serving"
    /\ UNCHANGED <<env, first, registered, containerVars, historyVars>>

-----------------------------------------------------------------------------
\* The operator corrects what the message is about, and starts again.
Repair ==
    /\ stage = "exited"
    /\ \E repaired \in Environments :
        /\ \A name \in DOMAIN env \ told : repaired[name] = env[name]
        /\ \A name \in told : repaired[name] \in {"postgres", "set", "valid", "usable"}
        /\ env' = repaired
    /\ stage' = "down"
    /\ told' = {}
    /\ first' = {} /\ second' = {}
    /\ registered' = <<>>
    /\ built' = [k \in Keys |-> 0]
    /\ holds' = [k \in Keys |-> {}]
    /\ routers' = <<>>
    /\ UNCHANGED <<failures, edits>>

\* Somebody edits .env while the process starts.
Edit ==
    /\ stage \notin {"exited", "serving"}
    /\ edits < MaxEdits
    /\ env' \in Environments \ {env}
    /\ edits' = edits + 1
    /\ failures' = <<>>
    /\ UNCHANGED <<stage, first, registered, containerVars, told>>

BuildApp ==
    \/ LoadSettings
    \/ LoadAdapter
    \/ \E rule \in Rules : ImportRule(rule)
    \/ CreateContainer
    \/ \E key \in Keys : Build(key) \/ IncludeRouter(key)
    \/ ReadSettingsAgain
    \/ BuildJsonlFileRecorder
    \/ Serve

Next == BuildApp \/ Repair \/ Edit

Spec == Init /\ [][Next]_vars

\* The start goes on, and the operator does not give up.
Fairness == WF_vars(BuildApp) /\ WF_vars(Repair)

FairSpec == Spec /\ Fairness

-----------------------------------------------------------------------------
\* An app that serves is whole: every route is mounted, and all of it rests on
\* one instance of everything, so the page reads the very recorder the use case
\* writes to, and both use cases share one guard and one set of settings.
ServesWhole ==
    stage = "serving" =>
        /\ Range(routers) = Range(Controllers)
        /\ \A key \in Keys : holds[key] = Needs[key] \X {1}

\* "The gateway will not start if a required variable is missing": nor with an
\* invalid one, without the adapter's three ports, or with a file sink that has
\* no directory, even when the settings are edited between the two readings.
ServesValidSettings ==
    stage = "serving" =>
        /\ \A settings \in first : settings.adapter = "postgres"
        /\ second # {}
        /\ \A settings \in second :
            Missing(settings) \cup Invalid(settings) = {} /\ settings.path = "usable"

\* The messages are complete: an operator who corrects what they are about does
\* not see the same failure again, unless somebody edits the settings meanwhile.
NoFailureRecurs == IsInjective(failures)

\* An operator who corrects what the messages are about has the gateway running
\* in the end: no failure is repeated for ever, and none is without a name.
GatewayStarts == <>[](stage = "serving")

\* The validator's view of the start: rules are registered one by one in any
\* order, and the first request is not served before the last of them.
Validator == INSTANCE QueryValidator
    WITH Texts <- {}, MaxCalls <- 0, cache <- <<>>, serving <- stage = "serving", calls <- <<>>

LoadsTheRegistry ==
    Validator!Init /\ [][Validator!Next \/ Repair]_<<registered, stage = "serving">>
=============================================================================
