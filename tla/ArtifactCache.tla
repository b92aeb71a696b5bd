---------------------------- MODULE ArtifactCache ----------------------------
(***************************************************************************)
(* The files of a runtime node: components fetched into the artifact cache *)
(* (runtime/artifacts.ts), the code compiled from them (runtime/wasmtime.ts *)
(* and runtime/wasip3-host.ts), and the garbage collection and the         *)
(* invalidation of engine variants that delete both                        *)
(* (runtime/cache-retention.ts).  Loads and collections share the two      *)
(* directories and nothing else.  A file is a name and an inode: a write   *)
(* under way follows its inode when another load renames the file.         *)
(***************************************************************************)
EXTENDS Naturals, SequencesExt

CONSTANT
    CacheWorkloads  \* the node's settings, its loads, its collections, what the remote stores serve,
                    \* and the milliseconds it all happens in (bounds)

VARIABLES
    work,         \* the workload
    names, inodes,\* the two cache directories: name -> inode, inode -> [body, mtime]
    loads,        \* materializeAndCompile() calls
    entries,      \* the supervisor's prepared map: deployment -> load, 0 when absent
    sweeps,       \* one per collection and directory
    collections,  \* runRuntimeCacheGc() and runPrecompiledCacheInvalidation() calls
    ms, downs,    \* the clock, and how often the process died
    sharedTmp,    \* some load opened the temporary file of another one
    exposed       \* the loads that began while a collection was under way

cacheVars ==
    <<work, names, inodes, loads, entries, sweeps, collections, ms, downs, sharedTmp, exposed>>

-----------------------------------------------------------------------------
(* Contents: <<d>> is what has digest d, <<d, "code">> the code compiled    *)
(* from it, and <<>> a file opened and not yet written.                     *)

Torn == <<>>
sha256Digest(body) == body[1]
CodeFrom(body) == <<sha256Digest(body), "code">>
sizeBytes(body) == IF body = Torn THEN 0 ELSE 1

CachePath(dir, name) == [dir |-> dir, name |-> name, tmp |-> {}]
Temporary(path) == [path EXCEPT !.tmp = {ms}]
Foreign(path) == path.dir = "file"
exists(path) == Foreign(path) \/ path \in DOMAIN names
ReadFile(path) == IF Foreign(path) THEN path.name ELSE inodes[names[path]].body

artifactCacheName(digest) == CachePath("artifact", <<digest>>)

\* The variant of the engine is part of the name; backends without one leave it out.
PrecompiledPath(deployment, digest, variant) == CachePath("precompiled", <<deployment, digest, variant>>)

\* What a final name must hold.
ContentOf(path) ==
    IF path.dir = "artifact" THEN path.name ELSE <<path.name[2], "code">>

\* A node starts with what its last process left under final names; the process numbers
\* the loads and the collections it makes.
ASSUME CacheAssumption ==
    \A w \in CacheWorkloads :
        /\ w.loads \in Seq(Range(w.loads))
        /\ w.disk \in Seq(Range(w.disk))
        /\ \A i \in DOMAIN w.disk :
              LET path == w.disk[i].path
              IN  /\ path.dir \in {"artifact", "precompiled"} /\ path.tmp = {}
                  /\ w.disk[i].body = ContentOf(path)

-----------------------------------------------------------------------------
(* Settings from the environment, a function of the variables that are set. *)
(* What throws is the empty set, what is absent is Unset.                   *)

Unset == "unset"

firstNonEmpty(env, vars) ==
    LET set == SelectSeq(vars, LAMBDA v : v \in DOMAIN env /\ env[v] # "")
    IN  IF set = <<>> THEN Unset ELSE env[set[1]]

Setting(env, v) == firstNonEmpty(env, <<v>>)

runtimeS3ArtifactOptionsFromEnv(env) ==
    LET endpoint == Setting(env, "ODENCTL_ARTIFACT_ENDPOINT")
        bucket == Setting(env, "ODENCTL_ARTIFACT_BUCKET")
        id == firstNonEmpty(env, <<"ODENCTL_ARTIFACT_ACCESS_KEY_ID", "AWS_ACCESS_KEY_ID">>)
        secret == firstNonEmpty(env, <<"ODENCTL_ARTIFACT_SECRET_ACCESS_KEY", "AWS_SECRET_ACCESS_KEY">>)
        options == [bucket |-> bucket, endpoint |-> endpoint, id |-> id, secret |-> secret,
                    region |-> firstNonEmpty(env, <<"ODENCTL_ARTIFACT_REGION", "AWS_REGION">>),
                    session |-> firstNonEmpty(env, <<"ODENCTL_ARTIFACT_SESSION_TOKEN", "AWS_SESSION_TOKEN">>)]
    IN  IF {endpoint, bucket, id, secret} = {Unset} THEN {<<>>}
        ELSE IF Unset \in {id, secret} THEN {}
        ELSE {<<options>>}

normalizeOciScheme(value) == IF value \in {Unset, "http", "https"} THEN {value} ELSE {}

compactOciRegistryOptions(scheme, username, password, token) ==
    IF (username = Unset) # (password = Unset) THEN {}
    ELSE {[scheme |-> s, username |-> username, password |-> password, token |-> token] :
            s \in normalizeOciScheme(scheme)}

\* The registries of the JSON document, a function from host to [scheme, username, password, token].
parseOciRegistriesJson(json) ==
    LET config == [h \in DOMAIN json |-> compactOciRegistryOptions(json[h].scheme, json[h].username,
                                                                   json[h].password, json[h].token)]
    IN  IF \E h \in DOMAIN json : config[h] = {} THEN {}
        ELSE {[h \in DOMAIN json |-> CHOOSE c \in config[h] : TRUE]}

\* The registries, with one more or in the place of the one of that name.
Registered(many, registry, one) ==
    [h \in DOMAIN many \union {registry} |-> IF h = registry THEN one ELSE many[h]]

runtimeOciArtifactOptionsFromEnv(env, json) ==
    LET registry == Setting(env, "ODENCTL_OCI_REGISTRY")
        single == compactOciRegistryOptions(Setting(env, "ODENCTL_OCI_REGISTRY_SCHEME"),
                                            Setting(env, "ODENCTL_OCI_REGISTRY_USERNAME"),
                                            Setting(env, "ODENCTL_OCI_REGISTRY_PASSWORD"),
                                            Setting(env, "ODENCTL_OCI_REGISTRY_TOKEN"))
        registries(many) == IF registry = Unset THEN {many} ELSE {Registered(many, registry, one) : one \in single}
    IN  {[registries |-> r, scheme |-> s] :
            r \in UNION {registries(many) : many \in parseOciRegistriesJson(json)},
            s \in normalizeOciScheme(Setting(env, "ODENCTL_OCI_DEFAULT_SCHEME"))}

-----------------------------------------------------------------------------
(* Requests to the remote stores.  A location is [scheme, host, path, ref]; *)
(* ref is the tag or digest of an OCI location.                             *)

parseLocation(location) == location.scheme # "unparsable"

parseOciReference(location) ==
    IF "" \in {location.host, location.path, location.ref} THEN {}
    ELSE {[registry |-> location.host, repository |-> location.path, reference |-> location.ref]}

isSha256Digest(reference) == reference \in work.digests

s3ObjectUrl(bucket, key, region, endpoint) ==
    IF endpoint = Unset THEN <<bucket, region, key>> ELSE <<endpoint, bucket, key>>

\* A signature is worth the key that made it, for the url it was made for.
signS3Get(url, region, s3) == [url |-> url, region |-> region, id |-> s3.id, secret |-> s3.secret,
                               session |-> s3.session]

artifactFetchRequest(location, s3) ==
    IF location.scheme # "s3" THEN {[url |-> <<location.host, location.path>>, signature |-> <<>>]}
    ELSE IF s3 = <<>> \/ "" \in {location.host, location.path} THEN {}
    ELSE IF s3[1].bucket \notin {Unset, location.host} THEN {}
    ELSE LET region == IF s3[1].region = Unset THEN "us-east-1" ELSE s3[1].region
             url == s3ObjectUrl(location.host, location.path, region, s3[1].endpoint)
         IN  {[url |-> url, signature |-> <<signS3Get(url, region, s3[1])>>]}

ociRequestHeaders(options) ==
    IF options = <<>> THEN {<<>>}
    ELSE IF options[1].token # Unset THEN {<<"Bearer", options[1].token>>}
    ELSE IF options[1].username = Unset /\ options[1].password = Unset THEN {<<>>}
    ELSE IF Unset \in {options[1].username, options[1].password} THEN {}
    ELSE {<<"Basic", options[1].username, options[1].password>>}

ociRegistryApiUrl(reference, scheme, kind, value) ==
    [scheme |-> scheme, registry |-> reference.registry, repository |-> reference.repository,
     kind |-> kind, value |-> value]

\* External: an object store answers a request its own credentials signed, with the bytes it has.
Objects(get) ==
    IF get.signature = <<>> \/ get.signature[1].secret = work.storeSecret THEN {<<work.served>>} ELSE {}

\* External: a registry answers who it knows, with the manifest of the reference or with a blob.
Registry(url, headers) ==
    IF headers # work.registryAuth THEN {}
    ELSE IF url.kind = "manifests" THEN {work.manifest}
    ELSE {<<work.served>>}

\* What GET may return; nothing when the request cannot be built or the answer is not ok.
fetchOciUrl(url, options) == UNION {Registry(url, h) : h \in ociRequestHeaders(options)}

fetchOciBlob(reference, scheme, options, digest) ==
    fetchOciUrl(ociRegistryApiUrl(reference, scheme, "blobs", digest), options)

parseOciManifest(manifest) == IF manifest.json THEN {manifest.layers} ELSE {}
selectOciLayer(layers, artifact) == {d \in layers : d = artifact.digest}

RegistryOptions(reference) ==
    IF reference.registry \in DOMAIN work.oci.registries THEN <<work.oci.registries[reference.registry]>> ELSE <<>>

OciScheme(reference) ==
    LET own == IF RegistryOptions(reference) = <<>> THEN Unset ELSE RegistryOptions(reference)[1].scheme
    IN  IF own # Unset THEN own ELSE IF work.oci.scheme # Unset THEN work.oci.scheme ELSE "https"

DirectBlob(reference, artifact) ==
    isSha256Digest(reference.reference) /\ reference.reference = artifact.digest

-----------------------------------------------------------------------------
IdleLoad ==
    [pc |-> "idle", stage |-> "artifact", component |-> {}, target |-> {}, tmp |-> {}, inode |-> {}, bytes |-> Torn]

CacheInit ==
    /\ work \in CacheWorkloads
    /\ names = [p \in {f.path : f \in Range(work.disk)} |->
                  CHOOSE i \in DOMAIN work.disk : work.disk[i].path = p]
    /\ inodes = [i \in DOMAIN work.disk |-> [body |-> work.disk[i].body, mtime |-> 0]]
    /\ loads = [l \in DOMAIN work.loads |-> IdleLoad]
    /\ entries = [d \in {work.loads[l].deployment : l \in DOMAIN work.loads} |-> 0]
    /\ collections = [g \in DOMAIN work.collections |-> [pc |-> "idle", waits |-> {}, keep |-> {}]]
    /\ sweeps = <<>>
    /\ ms = work.from /\ downs = 0 /\ sharedTmp = FALSE /\ exposed = {}

CacheTick ==
    /\ ms < work.until /\ ms' = ms + 1
    /\ UNCHANGED <<work, names, inodes, loads, entries, sweeps, collections, downs, sharedTmp, exposed>>

Artifact(l) == work.loads[l].artifact
Deployment(l) == work.loads[l].deployment
LoadEnded == {"idle", "joined", "ready", "failed", "gone"}
Running(l) == loads[l].pc \notin LoadEnded
Sweeping(g, dir) == <<g, dir>> \in DOMAIN sweeps /\ sweeps[<<g, dir>>].pc \notin {"done", "failed", "gone"}
Collecting(g) == collections[g].pc = "settle" \/ \E dir \in {"artifact", "precompiled"} : Sweeping(g, dir)

Disk == <<names, inodes>>
Collector == <<sweeps, collections>>

Bind(f, x, y) == [z \in DOMAIN f \union {x} |-> IF z = x THEN y ELSE f[z]]
Unlinked(f, S) == [z \in DOMAIN f \ S |-> f[z]]

Goes(l, pc) == loads' = [loads EXCEPT ![l].pc = pc]

\* The promise rejects: its catch deletes the deployment's entry, whoever's it is by now.
Throws(l) ==
    /\ loads' = [loads EXCEPT ![l] = [IdleLoad EXCEPT !.pc = "failed"]]
    /\ entries' = [entries EXCEPT ![Deployment(l)] = 0]

\* The catch around write and rename first removes the temporary file, if it is there.
ThrowsFromTmp(l) ==
    /\ names' = Unlinked(names, loads[l].tmp)
    /\ Throws(l)

-----------------------------------------------------------------------------
(* The supervisor: one load for all who want a deployment, until its entry  *)
(* goes, which a new route table may cause while the load is under way.     *)

prepareDeployment(l) ==
    /\ loads[l].pc = "idle"
    /\ IF entries[Deployment(l)] # 0
       THEN Goes(l, "joined") /\ UNCHANGED <<entries, exposed>>
       ELSE /\ Goes(l, "materialize")
            /\ entries' = [entries EXCEPT ![Deployment(l)] = l]
            /\ exposed' = IF \E g \in DOMAIN collections : Collecting(g) THEN exposed \union {l} ELSE exposed
    /\ UNCHANGED <<work, Disk, Collector, ms, downs, sharedTmp>>

evictDeployment(d) ==
    /\ work.evicts /\ entries[d] # 0
    /\ entries' = [entries EXCEPT ![d] = 0]
    /\ UNCHANGED <<work, Disk, loads, Collector, ms, downs, sharedTmp, exposed>>

-----------------------------------------------------------------------------
(* materialize(): the steps between the awaits of a load.                   *)

Rest == UNCHANGED <<work, Collector, ms, downs, sharedTmp, exposed>>

\* file: locations are read where they are, and verified unless the node says not to.
createFileArtifactStore(l) ==
    /\ loads[l].pc = "materialize" /\ Artifact(l).location.scheme = "file"
    /\ LET path == [dir |-> "file", name |-> <<Artifact(l).location.path>>, tmp |-> {}]
       IN  IF work.verify /\ sha256Digest(ReadFile(path)) # Artifact(l).digest
           THEN Throws(l)
           ELSE /\ loads' = [loads EXCEPT ![l].pc = "compile", ![l].component = {path}]
                /\ UNCHANGED entries
    /\ UNCHANGED Disk /\ Rest

\* Remote locations: what the cache has is verified, what it has not is fetched.
materialize(l) ==
    /\ loads[l].pc = "materialize" /\ Artifact(l).location.scheme # "file"
    /\ LET path == artifactCacheName(Artifact(l).digest)
           location == Artifact(l).location
       IN  IF ~parseLocation(location) \/ location.scheme \notin {"http", "https", "s3", "oci"}
           THEN Throws(l)
           ELSE /\ loads' = [loads EXCEPT ![l].pc = IF exists(path) THEN "verify" ELSE "fetch",
                                          ![l].component = {path}, ![l].target = {path}]
                /\ UNCHANGED entries
    /\ UNCHANGED Disk /\ Rest

\* A collection may take the file between the two; a file that does not match stays, and fails every load.
verifyFileDigest(l) ==
    /\ loads[l].pc = "verify"
    /\ LET path == artifactCacheName(Artifact(l).digest)
       IN  IF exists(path) /\ ReadFile(path) # Torn /\ sha256Digest(ReadFile(path)) = Artifact(l).digest
           THEN Goes(l, "compile") /\ UNCHANGED entries
           ELSE Throws(l)
    /\ UNCHANGED Disk /\ Rest

\* The answer of a store: nothing, or bytes that are checked unless the node says not to.
Fetched(l, answers) ==
    IF answers = {} THEN Throws(l)
    ELSE LET bytes == CHOOSE b \in answers : TRUE
         IN  IF work.verify /\ sha256Digest(bytes) # Artifact(l).digest THEN Throws(l)
             ELSE /\ loads' = [loads EXCEPT ![l].pc = "open", ![l].bytes = bytes, ![l].tmp = {}]
                  /\ UNCHANGED entries

fetchRemoteArtifact(l) ==
    /\ loads[l].pc = "fetch" /\ Artifact(l).location.scheme # "oci"
    /\ \/ Fetched(l, UNION {Objects(r) : r \in artifactFetchRequest(Artifact(l).location, work.s3)})
       \/ Fetched(l, {})
    /\ UNCHANGED Disk /\ Rest

\* An OCI location names the blob by its digest, or a manifest that must list it.
fetchOciArtifact(l) ==
    /\ loads[l].pc = "fetch" /\ Artifact(l).location.scheme = "oci"
    /\ LET Layers(ref) ==
               {m \in fetchOciUrl(ociRegistryApiUrl(ref, OciScheme(ref), "manifests", ref.reference),
                                  RegistryOptions(ref)) :
                   /\ isSha256Digest(ref.reference) => m.digest = ref.reference
                   /\ \E layers \in parseOciManifest(m) : selectOciLayer(layers, Artifact(l)) # {}}
           Blob(ref) == fetchOciBlob(ref, OciScheme(ref), RegistryOptions(ref), Artifact(l).digest)
           refs == parseOciReference(Artifact(l).location)
       IN  \/ Fetched(l, UNION {Blob(r) : r \in {r \in refs : DirectBlob(r, Artifact(l)) \/ Layers(r) # {}}})
           \/ Fetched(l, {})
    /\ UNCHANGED Disk /\ Rest

-----------------------------------------------------------------------------
(* Writing, of an artifact or of compiled code: open, write, rename.        *)

\* Inodes are numbered in the order in which they are made.
FreshInode == Cardinality(DOMAIN inodes) + 1

\* Between opening a temporary file and renaming it, a load counts on what is under that name.
Holds(k, tmp) == loads[k].pc \in {"write", "rename"} /\ tmp \in loads[k].tmp

\* writeFile() opens and truncates; the name holds the process and the millisecond, so two loads can meet in it.
WriteFile(l) ==
    /\ loads[l].pc = "open"
    /\ \E final \in loads[l].target :
          LET tmp == IF loads[l].tmp = {} THEN Temporary(final) ELSE CHOOSE t \in loads[l].tmp : TRUE
              node == IF tmp \in DOMAIN names THEN names[tmp] ELSE FreshInode
          IN  /\ names' = Bind(names, tmp, node)
              /\ inodes' = Bind(inodes, node, [body |-> Torn, mtime |-> ms])
              /\ loads' = [loads EXCEPT ![l].pc = "write", ![l].tmp = {tmp}, ![l].inode = {node}]
              /\ sharedTmp' = (sharedTmp \/ \E k \in DOMAIN loads \ {l} : Holds(k, tmp))
    /\ UNCHANGED <<work, entries, Collector, ms, downs, exposed>>

\* The bytes go to the inode, wherever it is by now; a full disk or a killed compiler leaves it torn.
WriteBytes(l) ==
    /\ loads[l].pc = "write"
    /\ \/ /\ \E node \in loads[l].inode : inodes' = [inodes EXCEPT ![node] = [body |-> loads[l].bytes, mtime |-> ms]]
          /\ Goes(l, "rename") /\ UNCHANGED <<names, entries>>
       \/ ThrowsFromTmp(l) /\ UNCHANGED inodes
    /\ Rest

\* rename() replaces what is there, and fails when the temporary file is gone.
RenameFile(l) ==
    /\ loads[l].pc = "rename"
    /\ \E final \in loads[l].target, tmp \in loads[l].tmp :
          IF tmp \in DOMAIN names
          THEN /\ names' = Bind(Unlinked(names, {tmp}), final, names[tmp])
               /\ loads' = [loads EXCEPT ![l].pc = IF loads[l].stage = "artifact" THEN "compile" ELSE "ready",
                                         ![l].tmp = {}, ![l].inode = {}, ![l].bytes = Torn]
               /\ UNCHANGED entries
          ELSE ThrowsFromTmp(l)
    /\ UNCHANGED inodes /\ Rest

-----------------------------------------------------------------------------
(* compileComponent() of the Wasmtime CLI and of the Wasip3 host.           *)

\* The two backends differ in the name of the code and in whether the world of a component is checked first.
createWasmtimeCliBackend == [variant |-> "", validate |-> TRUE]
createWasip3HostBackend(variant) == [variant |-> variant, validate |-> FALSE]

\* The world, the WASI profile and the backend must be the ones of this build.
validateRequest(l) == work.loads[l].supported

\* The code is compiled unless the cache has it; the temporary name is taken before the commands run.
compileComponent(l) ==
    /\ loads[l].pc = "compile"
    /\ LET path == PrecompiledPath(Deployment(l), Artifact(l).digest, work.backend.variant)
       IN  IF ~validateRequest(l) THEN Throws(l)
           ELSE /\ loads' = [loads EXCEPT ![l].pc = IF exists(path) THEN "ready"
                                                    ELSE IF work.backend.validate THEN "validate" ELSE "run",
                                          ![l].stage = "precompiled", ![l].target = {path},
                                          ![l].tmp = {Temporary(path)}]
                /\ UNCHANGED entries
    /\ UNCHANGED Disk /\ Rest

\* A command that exits with an error, cannot be started, or is killed at its timeout throws.
CommandReads(l) == \A path \in loads[l].component : exists(path) /\ ReadFile(path) # Torn

createSpawnCommandRunner(l) ==
    /\ loads[l].pc \in {"validate", "run"}
    /\ \/ /\ CommandReads(l)
          /\ IF loads[l].pc = "validate" THEN Goes(l, "run")
             ELSE loads' = [loads EXCEPT ![l].pc = "open",
                        ![l].bytes = CodeFrom(ReadFile(CHOOSE p \in loads[l].component : TRUE))]
          /\ UNCHANGED <<names, entries>>
       \/ ThrowsFromTmp(l)
    /\ UNCHANGED inodes /\ Rest

-----------------------------------------------------------------------------
(* Collections: the keep set first, then a sweep of each directory.         *)

Retention(g) == work.collections[g]

Sides == UNCHANGED <<work, loads, entries, ms, downs, sharedTmp, exposed>>

\* A collection answers when both sweeps are done or one has failed; the other sweep goes on all the same.
InFlight(g) ==
    \/ collections[g].pc = "settle"
    \/ /\ collections[g].pc = "sweep"
       /\ \E dir \in Retention(g).dirs : Sweeping(g, dir)
       /\ \A dir \in Retention(g).dirs : sweeps[<<g, dir>>].pc # "failed"

\* The interval's job skips a turn while its last one is in flight; an operator's request does not.
createRuntimeCacheRetentionJob(g) ==
    Retention(g).job => \A h \in DOMAIN collections : Retention(h).job => ~InFlight(h)

\* Both kinds first take the loads the supervisor knows of.
TakePrepared(g) ==
    /\ collections[g].pc = "idle"
    /\ collections' = [collections EXCEPT ![g] = [pc |-> "settle", keep |-> {},
                                                  waits |-> {entries[d] : d \in DOMAIN entries} \ {0}]]
    /\ UNCHANGED <<sweeps, Disk>> /\ Sides

runRuntimeCacheGc(g) == Retention(g).kind = "retention" /\ createRuntimeCacheRetentionJob(g) /\ TakePrepared(g)

runPrecompiledCacheInvalidation(g) == Retention(g).kind = "variant" /\ TakePrepared(g)

\* A sweep of each directory begins.
NewSweeps(g) ==
    [gd \in DOMAIN sweeps \union ({g} \X Retention(g).dirs) |->
       IF gd[1] = g THEN [pc |-> "readdir", now |-> ms, seen |-> {}, files |-> {}] ELSE sweeps[gd]]

\* MUTANT of preparedComponents: the loads under way are not waited for.
preparedComponentsNow(g) ==
    /\ collections[g].pc = "settle"
    /\ LET ready == {l \in collections[g].waits : loads[l].pc = "ready"}
           keep == UNION {loads[l].component \union loads[l].target : l \in ready}
       IN  /\ collections' = [collections EXCEPT ![g].pc = "sweep", ![g].keep = keep]
           /\ sweeps' = NewSweeps(g)
    /\ UNCHANGED Disk /\ Sides

\* preparedComponents() waits for every load it found, and keeps the files of the ones that are ready.
preparedComponents(g) ==
    /\ collections[g].pc = "settle"
    /\ \A l \in collections[g].waits : ~Running(l)
    /\ LET ready == {l \in collections[g].waits : loads[l].pc = "ready"}
           keep == UNION {loads[l].component \union loads[l].target : l \in ready}
       IN  /\ collections' = [collections EXCEPT ![g].pc = "sweep", ![g].keep = keep]
           /\ sweeps' = NewSweeps(g)
    /\ UNCHANGED Disk /\ Sides

Sweep(g, dir, pc) == Sweeping(g, dir) /\ sweeps[<<g, dir>>].pc = pc
Becomes(g, dir, s) == sweeps' = [sweeps EXCEPT ![<<g, dir>>] = s]
SweepOf(g, dir) == sweeps[<<g, dir>>]
positiveNumber(value) == value > 0

\* readdir(): the names, after the limits were read.
ReadDirectory(g, dir) ==
    /\ Sweep(g, dir, "readdir")
    /\ IF Retention(g).kind = "retention"
          /\ ~(positiveNumber(Retention(g).maxAgeMs) /\ positiveNumber(Retention(g).maxBytes))
       THEN Becomes(g, dir, [SweepOf(g, dir) EXCEPT !.pc = "failed"])
       ELSE Becomes(g, dir, [SweepOf(g, dir) EXCEPT !.pc = "stat", !.now = ms,
                                                    !.seen = {p \in DOMAIN names : p.dir = dir}])
    /\ UNCHANGED <<collections, Disk>> /\ Sides

\* stat() of every name; one that went in between fails the sweep.
listCacheFiles(g, dir) ==
    /\ Sweep(g, dir, "stat")
    /\ Becomes(g, dir,
          IF SweepOf(g, dir).seen \subseteq DOMAIN names
          THEN [SweepOf(g, dir) EXCEPT
                  !.pc = IF Retention(g).kind = "retention" THEN "age" ELSE "variant", !.seen = {},
                  !.files = {[path |-> p, size |-> sizeBytes(ReadFile(p)), mtime |-> inodes[names[p]].mtime,
                              keep |-> p \in collections[g].keep] : p \in SweepOf(g, dir).seen}]
          ELSE [SweepOf(g, dir) EXCEPT !.pc = "failed", !.seen = {}])
    /\ UNCHANGED <<collections, Disk>> /\ Sides

\* unlink(); a file another one removed first fails the sweep.
removeCacheFile(g, dir, file) ==
    /\ IF file.path \in DOMAIN names
       THEN /\ names' = Unlinked(names, {file.path})
            /\ Becomes(g, dir, [SweepOf(g, dir) EXCEPT !.files = @ \ {file}])
       ELSE /\ UNCHANGED names
            /\ Becomes(g, dir, [SweepOf(g, dir) EXCEPT !.pc = "failed", !.files = {}])
    /\ UNCHANGED <<collections, inodes>> /\ Sides

Passes(g, dir, pc) ==
    /\ Becomes(g, dir, [SweepOf(g, dir) EXCEPT !.pc = pc, !.files = IF pc = "done" THEN {} ELSE @])
    /\ UNCHANGED <<collections, Disk>> /\ Sides

sumBytes(files) == Cardinality({f \in files : f.size = 1})

\* First what is too old, in the order of the directory.
PruneByAge(g, dir) ==
    /\ Sweep(g, dir, "age")
    /\ LET old == {f \in SweepOf(g, dir).files : ~f.keep /\ f.mtime + Retention(g).maxAgeMs < SweepOf(g, dir).now}
       IN  IF old = {} THEN Passes(g, dir, "size") ELSE \E f \in old : removeCacheFile(g, dir, f)

\* Then the oldest until the rest is small enough, by the sizes of the listing.
PruneBySize(g, dir) ==
    /\ Sweep(g, dir, "size")
    /\ LET candidates == {f \in SweepOf(g, dir).files : ~f.keep}
           oldest == {f \in candidates : \A other \in candidates : f.mtime <= other.mtime}
       IN  IF candidates = {} \/ sumBytes(SweepOf(g, dir).files) <= Retention(g).maxBytes
           THEN Passes(g, dir, "done")
           ELSE \E f \in oldest : removeCacheFile(g, dir, f)

\* The name must end in the current variant; temporary files are not code yet.
precompiledCacheNameMatchesEngineVariant(path) == path.name[3] = work.backend.variant

invalidatePrecompiledCacheVariants(g, dir) ==
    /\ Sweep(g, dir, "variant")
    /\ LET stale == {f \in SweepOf(g, dir).files :
                       ~f.keep /\ f.path.tmp = {} /\ ~precompiledCacheNameMatchesEngineVariant(f.path)}
       IN  IF stale = {} THEN Passes(g, dir, "done") ELSE \E f \in stale : removeCacheFile(g, dir, f)

-----------------------------------------------------------------------------
\* The process dies, and starts again with an empty supervisor on the same disk.
RuntimeDies ==
    /\ work.dies /\ downs = 0 /\ downs' = 1
    /\ loads' = [l \in DOMAIN loads |-> IF loads[l].pc = "idle" THEN IdleLoad ELSE [IdleLoad EXCEPT !.pc = "gone"]]
    /\ entries' = [d \in DOMAIN entries |-> 0]
    /\ collections' = [g \in DOMAIN collections |->
                         IF collections[g].pc = "idle" THEN collections[g] ELSE [collections[g] EXCEPT !.pc = "gone"]]
    /\ sweeps' = [gd \in DOMAIN sweeps |-> [sweeps[gd] EXCEPT !.pc = "gone"]]
    /\ UNCHANGED <<work, Disk, ms, sharedTmp, exposed>>

LoadStep(l) ==
    \/ prepareDeployment(l) \/ createFileArtifactStore(l) \/ materialize(l) \/ verifyFileDigest(l)
    \/ fetchRemoteArtifact(l) \/ fetchOciArtifact(l) \/ WriteFile(l) \/ WriteBytes(l) \/ RenameFile(l)
    \/ compileComponent(l) \/ createSpawnCommandRunner(l)

SweepStep(g, dir) ==
    \/ ReadDirectory(g, dir) \/ listCacheFiles(g, dir) \/ PruneByAge(g, dir) \/ PruneBySize(g, dir)
    \/ invalidatePrecompiledCacheVariants(g, dir)

CacheNext ==
    \/ CacheTick \/ RuntimeDies
    \/ \E l \in DOMAIN loads : LoadStep(l)
    \/ \E d \in DOMAIN entries : evictDeployment(d)
    \/ \E g \in DOMAIN collections :
          \/ runRuntimeCacheGc(g) \/ runPrecompiledCacheInvalidation(g) \/ preparedComponents(g)
          \/ \E dir \in {"artifact", "precompiled"} : SweepStep(g, dir)

CacheSpec == CacheInit /\ [][CacheNext]_cacheVars

-----------------------------------------------------------------------------
(* Properties.                                                              *)

\* The caches survive loads, collections and crashes: (1) whatever the process
\* did when it died, a file under a final name is whole and is what its name
\* says, unless downloads go unverified or two loads opened one temporary file
\* in the same millisecond; (2) a deployment that is served has its component
\* and its code on disk, whatever collection ran, unless its load began while
\* a collection had already taken its keep set; (3) a temporary file belongs to
\* a load that is still running, or to a process that died
\* (runtime/artifacts.ts:82, wasmtime.ts:78, cache-retention.ts:113,
\* node-app.ts:669).
CacheIsSound ==
    /\ \A path \in DOMAIN names :
          path.tmp = {} /\ work.verify /\ ~sharedTmp => ReadFile(path) = ContentOf(path)
    /\ \A d \in DOMAIN entries :
          LET l == entries[d]
          IN  l # 0 /\ l \notin exposed =>
                  (loads[l].pc = "ready" => \A path \in loads[l].component \union loads[l].target : exists(path))
    /\ \A path \in DOMAIN names :
          path.tmp # {} => downs > 0 \/ \E l \in DOMAIN loads : Running(l) /\ path \in loads[l].tmp
=============================================================================
