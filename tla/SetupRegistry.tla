----------------------------- MODULE SetupRegistry -----------------------------
(* The bundled registry and the credentials around it: the manifest setup    *)
(* applies on every run, the credential Secrets of the services, the         *)
(* bootstrap guard in front of a registry whose authentication service is    *)
(* not running yet, and the activation of token authentication, by setup or  *)
(* by `registry enable-auth`, with its rotation of the administrator keys    *)
(* that were copied into pull Secrets.                                       *)
EXTENDS SetupTrust, SequencesExt

Owners == {"platform-api", "runtime-api", "analytics-api", "ui"}     \* the Secrets that hold administrator keys
PullNamespaces == {"platform", "operator", "team"}
PullCall == [platform |-> "pull-platform", operator |-> "pull-operator", team |-> "pull-team"]
OwnerCall == ("platform-api" :> "rotate-platform-api") @@ ("runtime-api" :> "rotate-runtime-api")
             @@ ("analytics-api" :> "rotate-analytics-api") @@ ("ui" :> "rotate-ui")
NoSecret == 0
ScopedCredential == 1       \* what the token broker issues to one namespace's nodes
NoKeys == <<>>
NoJournal == <<>>

VARIABLES
    command,        \* "setup" or "enable-auth"
    token,          \* the registry Deployment has REGISTRY_AUTH=token
    nodePort,       \* its Service is a NodePort
    guard,          \* the authentication middleware on its Ingress: "none", "admin" or "bootstrap"
    ingressHost,    \* the host of that Ingress
    bootstrap,      \* the bootstrap objects there are: "secret", "middleware"
    bootActive,     \* ctx.RegistryBootstrapAuth of the run
    keys,           \* the administrator keys in each owner's Secret, in order
    podKeys,        \* the ones the owner's pods were started with
    uiKey,          \* UI_API_KEY, 0 while there is no Secret
    lastKey,        \* the last key made
    pull,           \* the password in each namespace's pull Secret
    labelled,       \* the namespaces whose pull Secret is marked as node credential
    leaked,         \* history: the administrator keys that were ever in a pull Secret
    signer,         \* the signing Secrets there are: "signer", "trust"
    broker,         \* platform-api signs tokens
    runtimeNative,  \* runtime-api issues node credentials instead of copying a key
    rotation,       \* in memory: the replacement of each copied key
    journal,        \* the Secret that keeps it
    publisher,      \* the key in the publisher Secret, 0 while there is none
    dsn, password   \* the version of the database password in POSTGRES_DSN and in POSTGRES_PASSWORD

ingressVars == <<guard, ingressHost, bootstrap, bootActive>>
keyVars == <<keys, podKeys, uiKey, lastKey, dsn, password>>
pullVars == <<pull, labelled, leaked>>
nativeVars == <<signer, broker, runtimeNative, rotation, journal, publisher>>
registryVars == <<command, token, nodePort, ingressVars, keyVars, pullVars, nativeVars>>
elsewhere == <<trustVars, command>>

RegistryInit ==
    /\ command = "setup" /\ token = FALSE /\ nodePort = FALSE /\ guard = "none" /\ ingressHost = "none" /\ bootstrap = {} /\ bootActive = FALSE
    /\ keys = [o \in Owners |-> NoKeys] /\ podKeys = keys /\ uiKey = NoSecret /\ lastKey = ScopedCredential /\ dsn = 0 /\ password = 0
    /\ pull = [n \in PullNamespaces |-> NoSecret] /\ labelled = {} /\ leaked = {}
    /\ signer = {} /\ broker = FALSE /\ runtimeNative = FALSE /\ rotation = NoJournal /\ journal = NoJournal /\ publisher = 0

Accepted(key) == \E o \in Owners \ {"ui"} : key \in Range(podKeys[o])
ensureCSVIncludes(csv, key) == IF key \in Range(csv) THEN csv ELSE Append(csv, key)

------------------------------------------------------------------------------
(* The registry step.  Every run applies the whole manifest again; what        *)
(* activation changed on the Deployment and the Service is carried over, the    *)
(* Ingress gets the administrator middleware back, and a run without a public   *)
(* host keeps the host the Ingress has.                                         *)
setupRegistryStep ==
    /\ AtCall("registry")
    /\ IF plan.external THEN Proceed ELSE Expand(<<"registry-deploy", "registry-wait">>)
    /\ UNCHANGED <<live, trustVars, registryVars>>
PreserveNativeRegistryManifest == token
ResolveRegistryPublicHost == IF plan.host = "dev" /\ ingressHost # "none" THEN ingressHost ELSE plan.host
deployRegistry ==
    /\ AtCall("registry-deploy")
    /\ IF "namespace" \in stuck
       THEN Stop /\ UNCHANGED <<live, token, nodePort, guard, ingressHost>>
       ELSE /\ Applies({"registry", "registry-ns"})
            /\ token' = PreserveNativeRegistryManifest /\ nodePort' = ~PreserveNativeRegistryManifest
            /\ guard' = "admin" /\ ingressHost' = ResolveRegistryPublicHost
    /\ UNCHANGED <<elsewhere, bootstrap, bootActive, keyVars, pullVars, nativeVars>>
waitForRegistry == AtCall("registry-wait") /\ Require("pvc" \notin stuck) /\ UNCHANGED <<live, trustVars, registryVars>>

(* The credential Secrets, applied in this order: a value that is there is kept, *)
(* one that is not is made, and the apply may end after any of them.             *)
CredentialSets == <<"platform-api", "runtime-api", "analytics-api", "ui", "postgres">>
renderCredentialBundle ==
    LET ui == IF uiKey = NoSecret THEN lastKey + 1 ELSE uiKey
        secret == IF password = 0 THEN dsn + 1 ELSE password
    IN  [ui |-> ui, keys |-> ensureCSVIncludes(keys["platform-api"], ui), password |-> secret, dsn |-> IF dsn = 0 THEN secret ELSE dsn]
applyCredentials ==
    LET bundle == renderCredentialBundle
    IN  \E applied \in 0..Len(CredentialSets) :
            LET Has(set) == \E i \in 1..applied : CredentialSets[i] = set
            IN  /\ keys' = [o \in Owners |-> IF Has(o) THEN bundle.keys ELSE keys[o]]
                /\ uiKey' = (IF Has("ui") THEN bundle.ui ELSE uiKey)
                /\ lastKey' = (IF applied > 0 /\ bundle.ui > lastKey THEN bundle.ui ELSE lastKey)
                /\ dsn' = (IF Has("platform-api") THEN bundle.dsn ELSE dsn)
                /\ password' = (IF Has("postgres") THEN bundle.password ELSE password)
                /\ (IF applied = Len(CredentialSets) THEN Proceed ELSE Stop)
                /\ UNCHANGED podKeys
CredentialStep(call) ==
    /\ AtCall(call) /\ applyCredentials
    /\ UNCHANGED <<live, elsewhere, token, nodePort, ingressVars, pullVars, nativeVars>>

------------------------------------------------------------------------------
(* The bootstrap guard: a fresh platform cannot answer for its own image.      *)
APIAvailable == IF "platform-api" \in live THEN BOOLEAN ELSE {FALSE}     \* its pods may be down
prepareRegistryBootstrapAuth ==
    /\ AtCall("registry-bootstrap-auth")
    /\ \E available \in APIAvailable :
         IF token THEN Proceed /\ bootActive' = FALSE
         ELSE IF available THEN Proceed /\ bootActive' = (guard = "bootstrap")
         ELSE /\ Expand(<<"bootstrap-credentials", "bootstrap-secret", "bootstrap-middleware", "bootstrap-ingress">>)
              /\ UNCHANGED bootActive
    /\ UNCHANGED <<live, elsewhere, token, nodePort, guard, ingressHost, bootstrap, keyVars, pullVars, nativeVars>>
InstallBootstrap(call, objects, middleware) ==
    /\ AtCall(call) /\ guard # "none" /\ uiKey # NoSecret      \* the registry step made the Ingress, the call before this the key
    /\ Proceed /\ bootstrap' = bootstrap \cup objects /\ guard' = middleware /\ bootActive' = (middleware = "bootstrap")
    /\ UNCHANGED <<live, elsewhere, token, nodePort, ingressHost, keyVars, pullVars, nativeVars>>
(* The Ingress names the middleware only when its objects are there.           *)
installRegistryBootstrapAuth ==
    \/ InstallBootstrap("bootstrap-secret", {"secret"}, guard)
    \/ InstallBootstrap("bootstrap-middleware", {"middleware"}, guard)
    \/ InstallBootstrap("bootstrap-ingress", {}, "bootstrap")
registryBootstrapFinalizeStep ==
    /\ AtCall("registry-bootstrap-finalize")
    /\ IF ~bootActive THEN Proceed
       ELSE \E available \in APIAvailable :
                IF available THEN Expand(<<"finalize-ingress", "finalize-middleware", "finalize-secret">>) ELSE Stop
    /\ UNCHANGED <<live, trustVars, registryVars>>
finalizeRegistryBootstrapAuth ==
    /\ \/ AtCall("finalize-ingress") /\ guard' = "admin" /\ UNCHANGED bootstrap
       \/ AtCall("finalize-middleware") /\ bootstrap' = bootstrap \ {"middleware"} /\ UNCHANGED guard
       \/ AtCall("finalize-secret") /\ bootstrap' = bootstrap \ {"secret"} /\ UNCHANGED guard
    /\ Proceed
    /\ UNCHANGED <<live, elsewhere, token, nodePort, ingressHost, bootActive, keyVars, pullVars, nativeVars>>

(* Pull Secrets for the bundled registry hold the UI's key until activation;   *)
(* afterwards setup only checks that a node credential is there.                *)
bundledPublicRegistryPullSecretHost == ~plan.external /\ plan.tls /\ plan.host # "dev"      \* the images carry the public host
PullSecretStep(call, n) ==
    /\ AtCall(call)
    /\ IF ~bundledPublicRegistryPullSecretHost THEN Proceed /\ UNCHANGED pullVars
       ELSE IF token THEN Require(n \in labelled) /\ UNCHANGED pullVars
       ELSE IF uiKey = NoSecret THEN Stop /\ UNCHANGED pullVars
       ELSE Proceed /\ pull' = [pull EXCEPT ![n] = uiKey] /\ leaked' = leaked \cup {uiKey} /\ UNCHANGED labelled
    /\ UNCHANGED <<live, elsewhere, token, nodePort, ingressVars, keyVars, nativeVars>>
ensureAnalyticsImagePullSecret == PullSecretStep("platform-pull-secret", "platform")
ensureOperatorPublicRegistryPullSecret == PullSecretStep("operator-pull-secret", "operator")

------------------------------------------------------------------------------
(* Activation of token authentication.                                         *)
\* Mutant: the journal is deleted before the owners restart.
MutForgetEarly ==
    <<"native-plan", "native-signer", "native-trust", "native-broker", "native-probe", "native-journal",
      "pull-operator", "pull-platform", "pull-team", "native-runtime", "native-token", "native-service",
      OwnerCall["platform-api"], OwnerCall["runtime-api"], OwnerCall["analytics-api"], OwnerCall["ui"],
      "native-forget", "native-restart", "native-publisher">>
NativeCalls ==
    <<"native-plan", "native-signer", "native-trust", "native-broker", "native-probe", "native-journal",
      "pull-operator", "pull-platform", "pull-team", "native-runtime", "native-token", "native-service",
      OwnerCall["platform-api"], OwnerCall["runtime-api"], OwnerCall["analytics-api"], OwnerCall["ui"],
      "native-restart", "native-publisher", "native-forget">>
(* Setup leaves a registry that already asks for tokens alone; the command goes through all of it again. *)
EnableNativeAuthForSetup ==
    /\ AtCall("registry-native-auth")
    /\ IF keys["platform-api"] = NoKeys THEN Stop ELSE IF token THEN Proceed ELSE Expand(NativeCalls)
    /\ UNCHANGED <<live, trustVars, registryVars>>
enableNativeAuth ==
    /\ outcome # "running" /\ runs < MaxRuns /\ {"registry", "platform-api"} \subseteq live
    /\ command' = "enable-auth" /\ todo' = NativeCalls /\ outcome' = "running" /\ runs' = runs + 1
    /\ UNCHANGED <<plan, live, stuck, events, trustVars, token, nodePort, ingressVars, keyVars, pullVars, nativeVars>>

(* Every copied administrator key gets a replacement; one the journal has keeps the one it has. *)
AdminKeys == UNION {Range(keys[o]) : o \in Owners}
planRegistryAdminRotation ==
    LET copied == (AdminKeys \cap Range(pull)) \ DOMAIN journal
    IN  [k \in DOMAIN journal \cup copied |-> IF k \in DOMAIN journal THEN journal[k] ELSE lastKey + k]
NativeFailed == Stop /\ rotation' = NoJournal
PlanNativeAuth ==
    /\ AtCall("native-plan")
    /\ IF \A o \in Owners \ {"analytics-api"} : keys[o] # NoKeys
       THEN Proceed /\ rotation' = planRegistryAdminRotation ELSE NativeFailed
    /\ UNCHANGED <<live, elsewhere, token, nodePort, ingressVars, keyVars, pullVars, signer, broker, runtimeNative, journal, publisher>>
ensureRegistrySigningMaterial ==
    /\ \/ AtCall("native-signer") /\ signer' = signer \cup {"signer"}
       \/ AtCall("native-trust") /\ signer' = signer \cup {"trust"}
    /\ Proceed
    /\ UNCHANGED <<live, elsewhere, token, nodePort, ingressVars, keyVars, pullVars, broker, runtimeNative, rotation, journal, publisher>>
(* platform-api is rolled out with the signer before anything depends on it, and asked through the public realm. *)
ConfigureBroker ==
    /\ AtCall("native-broker") /\ Proceed /\ broker' = TRUE
    /\ UNCHANGED <<live, elsewhere, token, nodePort, ingressVars, keyVars, pullVars, signer, runtimeNative, rotation, journal, publisher>>
ProbeRealm == AtCall("native-probe") /\ Proceed /\ UNCHANGED <<live, trustVars, registryVars>>
CreateJournal ==        \* a journal that is there is not written again
    /\ AtCall("native-journal") /\ Proceed
    /\ journal' = (IF journal = NoJournal THEN rotation ELSE journal)
    /\ lastKey' = (IF rotation = NoJournal THEN lastKey ELSE 2 * lastKey)
    /\ UNCHANGED <<live, elsewhere, token, nodePort, ingressVars, keys, podKeys, uiKey, dsn, password, pullVars, signer, broker, runtimeNative, rotation, publisher>>
installRegistryPullCredential(n) ==
    /\ AtCall(PullCall[n])
    /\ IF pull[n] # NoSecret /\ n \notin labelled /\ pull[n] \notin DOMAIN rotation
       THEN NativeFailed /\ UNCHANGED pullVars
       ELSE /\ Proceed /\ pull' = [pull EXCEPT ![n] = ScopedCredential] /\ labelled' = labelled \cup {n} /\ UNCHANGED <<leaked, rotation>>
    /\ UNCHANGED <<live, elsewhere, token, nodePort, ingressVars, keyVars, signer, broker, runtimeNative, journal, publisher>>
enableRuntimeNativePulls ==
    /\ AtCall("native-runtime") /\ Proceed /\ runtimeNative' = TRUE
    /\ UNCHANGED <<live, elsewhere, token, nodePort, ingressVars, keyVars, pullVars, signer, broker, rotation, journal, publisher>>
EnableTokenAuth ==
    /\ AtCall("native-token") /\ Proceed /\ token' = TRUE
    /\ UNCHANGED <<live, elsewhere, nodePort, ingressVars, keyVars, pullVars, nativeVars>>
CloseNodePort ==
    /\ AtCall("native-service") /\ Proceed /\ nodePort' = FALSE
    /\ UNCHANGED <<live, elsewhere, token, ingressVars, keyVars, pullVars, nativeVars>>

Replaced(csv) == [i \in DOMAIN csv |-> IF csv[i] \in DOMAIN rotation THEN rotation[csv[i]] ELSE csv[i]]
RotateOwner(o) ==
    /\ AtCall(OwnerCall[o]) /\ Proceed
    /\ keys' = [keys EXCEPT ![o] = Replaced(@)]
    /\ uiKey' = (IF o = "ui" THEN Replaced(<<uiKey>>)[1] ELSE uiKey)
    /\ UNCHANGED <<live, elsewhere, token, nodePort, ingressVars, podKeys, lastKey, dsn, password, pullVars, nativeVars>>
(* One Deployment after the other; nothing restarts when no key was copied.      *)
RestartOwners ==
    /\ AtCall("native-restart")
    /\ IF rotation = NoJournal THEN Proceed /\ UNCHANGED <<podKeys, rotation>>
       ELSE \E restarted \in SUBSET Owners :
                /\ podKeys' = [o \in Owners |-> IF o \in restarted THEN keys[o] ELSE podKeys[o]]
                /\ IF restarted = Owners THEN Proceed /\ UNCHANGED rotation ELSE NativeFailed
    /\ UNCHANGED <<live, elsewhere, token, nodePort, ingressVars, keys, uiKey, lastKey, dsn, password, pullVars,
                   signer, broker, runtimeNative, journal, publisher>>
installRegistryPublisherCredential ==
    /\ AtCall("native-publisher") /\ Proceed /\ publisher' = Head(keys["platform-api"])
    /\ UNCHANGED <<live, elsewhere, token, nodePort, ingressVars, keyVars, pullVars, signer, broker, runtimeNative, rotation, journal>>
DeleteJournal ==
    /\ AtCall("native-forget") /\ Proceed /\ journal' = NoJournal /\ rotation' = NoJournal
    /\ UNCHANGED <<live, elsewhere, token, nodePort, ingressVars, keyVars, pullVars, signer, broker, runtimeNative, publisher>>

(* At any time a team deploys: until it knows about node credentials, runtime-api *)
(* puts the first administrator key its pods have into the team's pull Secret.    *)
ensureNamespaceRegistryPullSecret ==
    /\ podKeys["runtime-api"] # NoKeys /\ ~runtimeNative /\ Disturb
    /\ pull["team"] # Head(podKeys["runtime-api"])
    /\ pull' = [pull EXCEPT !["team"] = Head(podKeys["runtime-api"])] /\ leaked' = leaked \cup {Head(podKeys["runtime-api"])}
    /\ UNCHANGED <<plan, todo, outcome, runs, live, stuck, elsewhere, token, nodePort, ingressVars, keyVars, labelled, nativeVars>>

RegistryNext ==
    \/ setupRegistryStep \/ deployRegistry \/ waitForRegistry \/ CredentialStep("credentials") \/ CredentialStep("bootstrap-credentials")
    \/ prepareRegistryBootstrapAuth \/ installRegistryBootstrapAuth \/ registryBootstrapFinalizeStep \/ finalizeRegistryBootstrapAuth
    \/ ensureAnalyticsImagePullSecret \/ ensureOperatorPublicRegistryPullSecret \/ EnableNativeAuthForSetup
    \/ PlanNativeAuth \/ ensureRegistrySigningMaterial \/ ConfigureBroker \/ ProbeRealm \/ CreateJournal
    \/ \E n \in PullNamespaces : installRegistryPullCredential(n)
    \/ enableRuntimeNativePulls \/ EnableTokenAuth \/ CloseNodePort \/ \E o \in Owners : RotateOwner(o)
    \/ RestartOwners \/ installRegistryPublisherCredential \/ DeleteJournal

RegistryTypeOK ==
    /\ command \in {"setup", "enable-auth"} /\ guard \in {"none", "admin", "bootstrap"} /\ bootstrap \subseteq {"secret", "middleware"}
    /\ \A o \in Owners : Range(keys[o]) \cup Range(podKeys[o]) \subseteq 2..lastKey
    /\ uiKey \in 0..lastKey /\ Range(pull) \subseteq 0..lastKey /\ labelled \subseteq PullNamespaces /\ leaked \subseteq AdminKeys \cup 2..lastKey
    /\ signer \subseteq {"signer", "trust"} /\ DOMAIN journal \subseteq 2..lastKey /\ publisher \in 0..lastKey /\ {dsn, password} \subseteq Nat

SetupDone == outcome = "done" /\ command = "setup"
------------------------------------------------------------------------------
(* The Ingress never names a bootstrap middleware that is not there, in whatever *)
(* order runs end: Traefik drops a route whose middleware is missing             *)
(* (installRegistryBootstrapAuth, finalizeRegistryBootstrapAuthClientGo).        *)
GuardResolves == guard = "bootstrap" => bootstrap = {"secret", "middleware"}
(* The registry asks for tokens only when a broker with its signing key answers  *)
(* and every namespace's nodes were given a credential (configureNativeAuth).    *)
PullersFirst == token => broker /\ signer = {"signer", "trust"} /\ runtimeNative /\ labelled = PullNamespaces
(* No later run of setup turns authentication off again, although it applies the *)
(* shipped manifest, which has none ("never turns authentication off").          *)
TokenNeverOff == [][token => token' /\ broker']_<<token, broker>>
(* The journal of copied keys outlives them: when it is deleted, no API accepts a *)
(* key it names, whatever runs ended in between (applyRegistryAdminRotation).     *)
JournalOutlivesKeys ==
    [][journal # NoJournal /\ journal' = NoJournal => \A k \in DOMAIN journal : ~Accepted(k)']_<<journal, keyVars>>
(* A setup that succeeds leaves the UI a key every API accepts.                  *)
CopiesAgree == SetupDone /\ plan.analytics => \A o \in Owners : uiKey \in Range(keys[o])
(* A setup that requires authentication ends with it: tokens asked for, no        *)
(* NodePort around the Ingress, the Ingress behind the administrator's guard.     *)
AuthenticatedEnd == SetupDone /\ nativeRegistryAuthRequired(plan) => token /\ ~nodePort /\ guard = "admin"
=============================================================================
