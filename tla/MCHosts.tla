------------------------------- MODULE MCHosts -------------------------------
(***************************************************************************)
(* The hosts around the control-plane service, on small instances: the     *)
(* HTTP API, the fleet it places snapshots on, the Fly autoscaler, volume  *)
(* databases with the durable objects on them, the opening of the          *)
(* database, the caches of a runtime node, the host daemon behind it, and  *)
(* the HTTP server of oden.  They share no state: a run picks one of them, *)
(* and the others stay as they are.                                        *)
(***************************************************************************)
EXTENDS HttpApi, RuntimeFleet, FlyAutoscaler, DurableObjects, Migrations, ArtifactCache,
        HostDaemon, HttpServer

VARIABLE part

hostVars == <<apiVars, fleetVars, flyVars, objectVars, migrationVars, cacheVars, daemonVars, serverVars, part>>

-----------------------------------------------------------------------------
(* HTTP: every path some route or scope rule looks at, of every method that *)
(* fits one, under every kind of token; then pairs of requests that meet.   *)

Collections ==
    {"projects", "organizations", "billing-invoices", "custom-domains", "users", "api-keys", "deploy-previews",
     "runtime-nodes", "sqlite-databases", "artifacts", "secrets", "kv-namespaces", "durable-object-namespaces"}

Ids == {"x", "gc", "local"}

Words ==
    {"heartbeat", "status", "logs", "secrets", "quota-usage", "usage", "enforcement-report", "usage-quota",
     "billing-statement", "billing-budget", "billing", "production-quota-increases", "audit-events",
     "billing-invoices", "retention-policy", "export", "custom-domains", "deploy-previews",
     "edge-worker-releases", "verify", "tls", "verify-email", "memberships", "api-keys", "revoke", "rotate",
     "settings", "sqlite-databases", "backups", "restores", "kv-namespaces", "durable-object-namespaces",
     "rollback", "prune"}

Literals ==
    {<<"admin">>, <<"admin", "routes", "canary">>, <<"admin", "routes", "rollback">>, <<"ops", "config">>,
     <<"admin", "runtime-nodes", "status">>, <<"admin", "runtime-nodes", "gc">>, <<"beta", "onboardings">>,
     <<"usage", "events">>, <<"edge-workers", "releases">>, <<"edge-workers", "releases", "operations", "deliver">>,
     <<"billing-invoices", "retention", "prune">>, <<"alarm-demo", "schedules">>, <<"alarm-demo", "webhook">>,
     <<"deployments">>, <<"routes">>, <<"routes", "canary">>, <<"routes", "canary", "analyze">>,
     <<"routes", "rollback">>, <<"canary-decisions">>, <<"autoscaling", "signals">>, <<"snapshots", "routes">>,
     <<"snapshots", "routes", "publish">>, <<"snapshots", "routes", "publishes">>,
     <<"replication", "snapshots", "routes">>, <<"healthz">>, <<"nothing">>}

Paths ==
    Literals
    \union {<<a>> : a \in Collections}
    \union {<<a, i>> : a \in Collections, i \in Ids}
    \union {<<a, "x", w>> : a \in Collections, w \in Words}
    \union {<<"projects", "x", "memberships", "x">>, <<"projects", "x", "memberships", "x", "accept">>,
            <<"custom-domains", "x", "tls", "complete">>, <<"sqlite-databases", "x", "backups", "gc">>,
            <<"artifacts", "local", "d">>, <<"alarm-demo", "objects", "x">>}
    \union {<<"edge-workers", "releases", i>> : i \in {"x", "operations"}}
    \union {<<"edge-workers", "releases", i, "operations">> : i \in {"x", "operations"}}

Request(m, p, b, t) == [method |-> m, path |-> p, body |-> b, token |-> t, project |-> "p", digest |-> "d"]

UploadOf(p, d, b) ==
    [Request("POST", <<"artifacts", "local">>, b, "writer") EXCEPT !.project = p, !.digest = d]

Routed ==
    {r \in {Request(m, p, "json", "none") : m \in {"GET", "POST", "PUT", "PATCH", "DELETE"}, p \in Paths} :
        Fits(r) # {} \/ IsPublic(r) \/ (r.path = <<"nothing">> /\ r.method # "PATCH")}

Tokens == {"none", "reader", "writer", "publisher", "root", "key", "webhook"}

Config ==
    [tokens |-> ("reader" :> {"read"} @@ "writer" :> {"write"} @@ "publisher" :> {"publish"} @@ "root" :> {"*"}),
     keys |-> ("key" :> {"read", "write"}), sink |-> TRUE, store |-> "file", validator |-> TRUE,
     webhook |-> "webhook"]

Workload(config, requests) == [config |-> config, requests |-> requests]

One(r) == ("c1" :> r)
Two(r, s) == ("c1" :> r @@ "c2" :> s)

MCApiWorkloads ==
    {Workload(Config, <<>>)}
    \union {Workload(Config, One([r EXCEPT !.token = t])) : r \in Routed, t \in Tokens}
    \union {Workload([Config EXCEPT !.tokens = <<>>], One(r)) : r \in Routed}
    \union {Workload(Config, One([r EXCEPT !.token = "root", !.body = "broken"])) : r \in Routed}
    \union {Workload(Config, One(Request("POST", <<"edge-workers", "releases">>, b, t))) :
              b \in {"api", "broken"}, t \in Tokens}
    \union {Workload([Config EXCEPT !.sink = s],
                     Two(Request("POST", <<"api-keys", "key", "revoke">>, "json", "writer"),
                         Request(r[1], r[2], "json", "key"))) :
              s \in BOOLEAN, r \in {<<"PUT", <<"routes">>>>, <<"GET", <<"runtime-nodes">>>>,
                                    <<"DELETE", <<"secrets", "x">>>>, <<"GET", <<"healthz">>>>}}
    \union {Workload([Config EXCEPT !.store = s, !.validator = v], Two(UploadOf("p", "d", "json"), u)) :
              s \in {"file", "s3", "none"}, v \in BOOLEAN,
              u \in {UploadOf("p", "d", "json"), UploadOf("q", "d", "json"), UploadOf("p", "empty", "json"),
                     UploadOf("p", "e", "broken"), Request("GET", <<"artifacts", "local", "d">>, "json", "none")}}

-----------------------------------------------------------------------------
(* Placement: two nodes, one of them the only one of its pool, and a third  *)
(* url that is configured but never registers.                              *)

Pool(p) == {<<"pool", p>>}

Rule(labels, max) == [regions |-> {}, labels |-> labels, max |-> max, failover |-> <<>>]

MCFleetNodes ==
    ( 1 :> [region |-> "nrt", labels |-> Pool("a"), capacity |-> 2]
   @@ 2 :> [region |-> "fra", labels |-> {}, capacity |-> 2] )

Plain == [default |-> NoRule, projects |-> <<>>, isolated |-> <<>>, drained |-> {}, exclude |-> TRUE]

MCFleetPolicies ==
    { [Plain EXCEPT !.isolated = ("p" :> Rule(Pool("a"), NoMax))],
      [Plain EXCEPT !.drained = {"q"}],
      [Plain EXCEPT !.default = [Rule({}, NoMax) EXCEPT !.regions = {"ams"}, !.failover = <<Rule({}, 1)>>]],
      [Plain EXCEPT !.projects = ("p" :> Rule({}, 0))] }

-----------------------------------------------------------------------------
(* Autoscaling: from one to three machines, under every kind of store.      *)

MCFlyPolicy == [minNodes |-> 1, maxNodes |-> 3, up |-> 800, down |-> 200, upStep |-> 2, downStep |-> 1]

Setup(store, lease, cooldown, shared) ==
    [store |-> store, lease |-> lease, cooldown |-> cooldown, shared |-> shared]

MCFlySetups ==
    {Setup(s, TRUE, TRUE, FALSE) : s \in {"memory", "sqlite", "postgres"}}
    \union {Setup("postgres", TRUE, TRUE, TRUE), Setup("postgres", FALSE, TRUE, FALSE),
            Setup("memory", TRUE, FALSE, FALSE)}

-----------------------------------------------------------------------------
(* Volumes and durable objects: scripts of calls, made as far apart or as   *)
(* close together as the run likes.                                         *)

MCKeyrings == {<<>>, <<"k1">>}

CallOf(do, d, arg) == [do |-> do, db |-> d, arg |-> arg, byPath |-> FALSE]

Script(calls, n, torn) == [calls |-> calls, dispatches |-> n, torn |-> torn]

Set(d, t) == CallOf("setAlarm", d, t)
Tick == CallOf("tick", "d1", 0)
Write(d) == CallOf("put", d, 0)
Transact(d) == CallOf("transaction", d, 0)
Restart == CallOf("restart", "d1", 0)

MCVolumeScripts ==
    { Script(<<Write("d1"), CallOf("export", "d1", 1), Transact("d1"), Transact("d2"),
               CallOf("restore", "d1", 1), Write("d1")>>, 0, FALSE),
      Script(<<Transact("d1"), Write("d1"), Write("d1"), Transact("d1"), Write("d1")>>, 0, FALSE),
      Script(<<Set("d1", 1), Tick, Set("d1", 2), Tick, CallOf("deleteAlarm", "d1", 0)>>, 2, FALSE),
      Script(<<Set("d1", 1), Set("d2", 2), Tick, Tick, Restart>>, 2, FALSE),
      Script(<<Set("d1", 1), Tick, Set("d1", 1), Restart>>, 1, FALSE),
      Script(<<Write("d1"), CallOf("export", "d1", 1), Tick, CallOf("export", "d1", 2), CallOf("prune", "d1", 0),
               Restart, [CallOf("restore", "d1", 2) EXCEPT !.byPath = TRUE], CallOf("restore", "d2", 2)>>, 0, TRUE),
      Script(<<Write("d1"), CallOf("export", "d1", 1), Tick, CallOf("export", "d1", 2), Write("d1"),
               CallOf("export", "d1", 1), CallOf("prune", "d1", 0), CallOf("restore", "d1", 1)>>, 0, FALSE) }

-----------------------------------------------------------------------------
(* Opening: databases of several releases under an opener that may die, and *)
(* two openers at once.                                                     *)

Opening(b, r, o, n) == [backend |-> b, release |-> r, openers |-> o, starts |-> n]

MCOpenings ==
    {Opening("sqlite", r, {"p1"}, 2) : r \in {<<>>} \union {<<k>> : k \in {0, 7, 15, 20, 24, 25, 27, 31}}}
    \union {Opening("sqlite", <<28>>, Openers, 3), Opening("sqlite", <<26>>, Openers, 2),
            Opening("sqlite", <<>>, Openers, 2)}
    \union {Opening("postgres", r, Openers, 3) : r \in {<<>>, <<7>>, <<25>>, <<27>>}}

-----------------------------------------------------------------------------
(* Caches: two loads of one digest and a collection, then single loads from *)
(* every kind of location under good and bad settings.                      *)

Location(scheme, host, path, ref) == [scheme |-> scheme, host |-> host, path |-> path, ref |-> ref]
Http == Location("http", "cdn", "g", "")
S3 == Location("s3", "b", "g", "")
Oci(ref) == Location("oci", "r", "repo", ref)

LoadOf(d, location) == [deployment |-> d, artifact |-> [digest |-> "g", location |-> location], supported |-> TRUE]

Cached(path, body) == [path |-> path, body |-> body]
OldCode == Cached(PrecompiledPath("d9", "h", "old"), <<"h", "code">>)
OldArtifact == Cached(artifactCacheName("g"), <<"g">>)
Code == Cached(PrecompiledPath("d1", "g", "v"), <<"g", "code">>)

OtherLoad(d) == [LoadOf(d, Http) EXCEPT !.artifact.digest = "h"]
OtherCode(d) == Cached(PrecompiledPath(d, "h", "v"), <<"h", "code">>)

Gc(job) == [kind |-> "retention", dirs |-> {"artifact", "precompiled"}, job |-> job, maxAgeMs |-> 1, maxBytes |-> 1]
OnlyOf(gc, dir) == [gc EXCEPT !.dirs = {dir}]
Variants == [OnlyOf(Gc(FALSE), "precompiled") EXCEPT !.kind = "variant"]

S3Env == "AWS_ACCESS_KEY_ID" :> "i" @@ "AWS_SECRET_ACCESS_KEY" :> "s" @@ "ODENCTL_ARTIFACT_BUCKET" :> "b"
OciEnv == "ODENCTL_OCI_REGISTRY" :> "r" @@ "ODENCTL_OCI_REGISTRY_TOKEN" :> "t"
BasicJson == "r" :> [scheme |-> "http", username |-> "u", password |-> "p", token |-> Unset]

\* The settings a node starts with under an environment; none when reading it throws.
Node(env, json, rest) ==
    {[rest EXCEPT !.s3 = s, !.oci = o] :
        s \in runtimeS3ArtifactOptionsFromEnv(env), o \in runtimeOciArtifactOptionsFromEnv(env, json)}

Base(ls, cs, disk) ==
    [verify |-> TRUE, s3 |-> <<>>, oci |-> <<>>, backend |-> createWasip3HostBackend("v"), digests |-> {"g", "h", "m"},
     served |-> "g", storeSecret |-> "s", registryAuth |-> <<>>,
     manifest |-> [json |-> TRUE, digest |-> "m", layers |-> {"g", "h"}],
     loads |-> ls, collections |-> cs, disk |-> disk, evicts |-> FALSE, dies |-> FALSE,
     from |-> 0, until |-> 0]

Stores ==
    UNION {Node(S3Env, <<>>, [Base(<<LoadOf("d1", S3)>>, <<>>, <<>>) EXCEPT !.storeSecret = k]) : k \in {"s", "z"}}
    \union Node([S3Env EXCEPT !["ODENCTL_ARTIFACT_BUCKET"] = "c"] @@ "ODENCTL_ARTIFACT_ENDPOINT" :> "e", <<>>,
               Base(<<LoadOf("d1", S3)>>, <<>>, <<>>))
    \union Node([S3Env EXCEPT !["AWS_SECRET_ACCESS_KEY"] = ""], <<>>, Base(<<LoadOf("d1", S3)>>, <<>>, <<>>))
    \union UNION {Node(OciEnv, BasicJson, [Base(<<LoadOf("d1", Oci(ref))>>, <<>>, <<>>) EXCEPT
                       !.registryAuth = auth, !.manifest.digest = m]) :
                     ref \in {"g", "m", "tag", ""}, auth \in {<<"Bearer", "t">>, <<>>}, m \in {"m", "h"}}
    \union Node("ODENCTL_OCI_DEFAULT_SCHEME" :> "http", BasicJson,
               [Base(<<LoadOf("d1", Oci("tag"))>>, <<>>, <<>>) EXCEPT !.registryAuth = <<"Basic", "u", "p">>])
    \union Node("ODENCTL_OCI_DEFAULT_SCHEME" :> "ftp", <<>>, Base(<<LoadOf("d1", Oci("tag"))>>, <<>>, <<>>))
    \union UNION {Node(<<>>, <<>>, [Base(<<LoadOf("d1", location), LoadOf("d2", location)>>, <<>>, <<>>) EXCEPT
                       !.verify = v, !.served = b]) :
                     v \in BOOLEAN, b \in {"g", "x"},
                     location \in {Http, S3, Location("unparsable", "", "", ""), Location("ftp", "", "", ""),
                                   Location("file", "", "g", ""), Location("file", "", "x", "")}}

MCCacheWorkloads ==
    Stores
    \union Node(<<>>, <<>>, [Base(<<LoadOf("d1", Http), LoadOf("d2", Http)>>, <<>>, <<>>) EXCEPT
                             !.dies = TRUE, !.backend = createWasmtimeCliBackend])
    \union Node(<<>>, <<>>, [Base(<<LoadOf("d1", Http), LoadOf("d2", Http)>>, <<>>, <<>>) EXCEPT !.until = 1])
    \union Node(<<>>, <<>>, [Base(<<LoadOf("d1", Http), LoadOf("d1", Http)>>, <<OnlyOf(Gc(TRUE), "artifact")>>,
                                  <<OldArtifact>>) EXCEPT !.evicts = TRUE, !.from = 2, !.until = 2])
    \union Node(<<>>, <<>>, [Base(<<LoadOf("d1", Http)>>, <<Gc(TRUE), OnlyOf(Gc(FALSE), "precompiled")>>,
                                  <<OldArtifact, Code>>) EXCEPT !.from = 2, !.until = 2])
    \union Node(<<>>, <<>>, [Base(<<LoadOf("d1", Http)>>, <<Gc(TRUE), OnlyOf(Gc(TRUE), "artifact")>>, <<OldArtifact>>) EXCEPT
                             !.from = 2, !.until = 2])
    \union Node(<<>>, <<>>, [Base(<<LoadOf("d1", Http)>>, <<OnlyOf(Gc(TRUE), "artifact")>>, <<OldArtifact>>) EXCEPT
                             !.dies = TRUE, !.from = 1, !.until = 2])
    \union Node(<<>>, <<>>, Base(<<LoadOf("d1", Http)>>, <<[Gc(FALSE) EXCEPT !.maxBytes = 0], Variants>>, <<OldCode>>))
    \union Node(<<>>, <<>>, Base(<<[LoadOf("d1", Http) EXCEPT !.supported = FALSE]>>, <<>>, <<>>))
    \union Node(<<>>, <<>>, [Base(<<LoadOf("d1", Http), OtherLoad("d2"), OtherLoad("d3")>>, <<OnlyOf(Gc(FALSE), "artifact")>>,
                                  <<OldArtifact, Code, OtherCode("d2"), OtherCode("d3")>>) EXCEPT !.served = "h"])

-----------------------------------------------------------------------------
(* The daemon: a second snapshot that moves routes and a canary, and a      *)
(* third with a prefix that ends in a slash and one that two projects have, *)
(* or with weights beyond MaxWeight.                                        *)

RouteTo(prefix, d, targets) == [prefix |-> prefix, deployment |-> d, targets |-> targets]
Share(d, w) == [deployment |-> d, weight |-> w]
Root == <<"/">>
SlashA == <<"/", "a">>
VisitTo(path, hash) == [path |-> path, hash |-> hash]

Before == <<RouteTo(SlashA, "d2", <<Share("d2", 2), Share("d3", 1)>>), RouteTo(Root, "d1", <<>>)>>
After == <<RouteTo(<<"/", "a", "/", "b">>, "d4", <<>>), RouteTo(SlashA, "d3", <<Share("d2", 0)>>)>>
Unclear == <<RouteTo(<<"/", "a", "/">>, "d2", <<>>), RouteTo(SlashA, "d3", <<>>), RouteTo(SlashA, "d4", <<>>)>>
Heavy == <<RouteTo(SlashA, "d2", <<Share("d2", 3), Share("d3", 2)>>)>>

MCDaemonWorkloads ==
    {[snaps |-> <<Before, After>>, requests |-> <<VisitTo(p, h), VisitTo(SlashA, 2)>>] :
        p \in {Root, SlashA, <<"/", "a", "b">>, <<"/", "a", "/", "b">>, <<"/", "stats">>, <<"/", "a", "/", "c">>},
        h \in {0, 2}}
    \union {[snaps |-> <<Before, Unclear, After>>, requests |-> <<VisitTo(SlashA, 1)>>],
            [snaps |-> <<Before, Heavy>>, requests |-> <<VisitTo(SlashA, 4)>>]}

-----------------------------------------------------------------------------
FirstScript == CHOOSE s \in VolumeScripts : TRUE
FirstWork == CHOOSE w \in CacheWorkloads : TRUE
FirstVisits == CHOOSE w \in DaemonWorkloads : TRUE

\* The parts that do not run stand still in one of their initial states.
Idle(p, state) == IF part = p THEN TRUE ELSE state

HostsInit ==
    /\ part \in {"api", "fleet", "fly", "objects", "opening", "caches", "daemon", "server"}
    /\ Idle("fleet", registry = <<>> /\ routed = {} /\ placement = NoPolicy) /\ FleetInit
    /\ Idle("fly", fly = Setup("memory", TRUE, TRUE, FALSE)) /\ FlyInit
    /\ Idle("objects", cipher = NoCipher /\ script = FirstScript) /\ ObjectInit
    /\ Idle("opening", opening = Opening("sqlite", <<>>, {"p1"}, 2)) /\ OpenInit
    /\ Idle("caches", work = FirstWork) /\ CacheInit
    /\ Idle("daemon", daemonWork = FirstVisits) /\ DaemonInit
    /\ ServerInit
    /\ ApiInit /\ Idle("api", \A c \in Clients : conns[c].pc = "done")

ApiTurn ==
    /\ part = "api" /\ ApiNext
    /\ UNCHANGED <<fleetVars, flyVars, objectVars, migrationVars, cacheVars, daemonVars, serverVars, part>>
FleetTurn ==
    /\ part = "fleet" /\ FleetNext
    /\ UNCHANGED <<apiVars, flyVars, objectVars, migrationVars, cacheVars, daemonVars, serverVars, part>>
FlyTurn ==
    /\ part = "fly" /\ FlyNext
    /\ UNCHANGED <<apiVars, fleetVars, objectVars, migrationVars, cacheVars, daemonVars, serverVars, part>>
ObjectTurn ==
    /\ part = "objects" /\ ObjectNext
    /\ UNCHANGED <<apiVars, fleetVars, flyVars, migrationVars, cacheVars, daemonVars, serverVars, part>>
OpenTurn ==
    /\ part = "opening" /\ OpenNext
    /\ UNCHANGED <<apiVars, fleetVars, flyVars, objectVars, cacheVars, daemonVars, serverVars, part>>
CacheTurn ==
    /\ part = "caches" /\ CacheNext
    /\ UNCHANGED <<apiVars, fleetVars, flyVars, objectVars, migrationVars, daemonVars, serverVars, part>>
DaemonTurn ==
    /\ part = "daemon" /\ DaemonNext
    /\ UNCHANGED <<apiVars, fleetVars, flyVars, objectVars, migrationVars, cacheVars, serverVars, part>>
ServerTurn ==
    /\ part = "server" /\ ServerNext
    /\ UNCHANGED <<apiVars, fleetVars, flyVars, objectVars, migrationVars, cacheVars, daemonVars, part>>

HostsNext ==
    ApiTurn \/ FleetTurn \/ FlyTurn \/ ObjectTurn \/ OpenTurn \/ CacheTurn \/ DaemonTurn \/ ServerTurn

HostsSpec == HostsInit /\ [][HostsNext]_hostVars
=============================================================================
