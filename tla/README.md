# Verification of digitalocean-cloud-controller-manager

TLA+ models of the controllers in `src/cloud-controller-manager/do`, the TLC runs
that check them and the TLAPS proofs about them. `PROJECT.json` says for every
definition which lines it translates, and lists runs, mutants, findings, hazards
and theorems. Paths below are relative to `src/`; files without a directory are in
`cloud-controller-manager/do/`, `controller.go` is
`vendor/k8s.io/cloud-provider/controllers/service/controller.go`, `node_controller.go`
and `node_lifecycle_controller.go` are in the directories `node` and `nodelifecycle`
beside it.

## 1. The system

The cloud controller manager (CCM) is one process. It watches Services and Nodes
of a Kubernetes cluster and keeps DigitalOcean resources in step with them.

| Part | State | Operations | Runs beside |
|---|---|---|---|
| Firewall controller (`firewall_controller*.go`) | one firewall per cluster, a cached copy of it, a work queue with a single key | a worker pass (list Services, compute rules, compare with the cache, update or create), a periodic sync (fetch into the cache, add the key), event handlers | worker and syncer are two goroutines; users edit the firewall |
| Firewall rules | none | `createReconciledFirewallRequest` | – |
| Service controller (`controller.go`) | cache of Services, service and node queues, last synced nodes | one pass per Service, node sync over all cached Services, finalizer, status | a service worker and a node worker |
| Load balancers (`loadbalancers.go`) | none but the annotations on the Service and the load balancer in the cloud | Get, Ensure, Update, EnsureDeleted | called by both workers |
| Backends (`loadbalancers.go`) | the droplets of the load balancer | classification, hold-back, network stack, droplet lookup | nodes come, go and change |
| Certificates (`loadbalancers.go`) | the certificate annotations, the load balancer's certificate | lookup by ID or name, recording a Let's Encrypt renewal | within a pass; users edit, the cloud renews |
| Request fields (`loadbalancers.go`, `lb_annotations.go`) | none | from a Service to the request for its load balancer | the controller and the webhook |
| Admission server (`lb_service_admission_handler.go`) | none | validation by a dry run of the API | every write of a Service, the controller's included |
| Tags syncer (`resources.go`) | the tag and who has it | `syncTags` every 15 minutes, over a list read page by page (`common.go`) | the service controller |
| Instances (`droplets.go`) and the node controllers that call it | Nodes | initialisation (`syncNode`), addresses (`UpdateNodeStatus`), removal and shutdown taint (`MonitorNodes`) | three loops, kubelets, users, droplets that come and go |
| Region, start-up, health, metrics, debug | none | I/O | – |

What makes it hard:

* informer stores lag behind the API, and events carry no data the code uses;
* a node's readiness and addresses, and everything that happens in the cloud, are not
  events: retries and tickers must make up for them;
* calls fail, time out and take effect later; the process dies between two calls;
* the two workers of the service controller write the same load balancer, from
  copies of the Service of different ages, without a lock;
* the same Service object is shared between them and changed in place;
* what one part derives from a Service must fit what another derives from it: the
  firewall's ports and the load balancer's, the webhook's request and the controller's;
* Nodes and droplets are matched by name until a provider ID is set, and removed by name;
* users edit, rename and delete resources in the cloud.

## 2. Modules

| Module | Models | State |
|---|---|---|
| `FirewallRules` | the content of the firewall as a function of the Services | – |
| `FirewallLoop` | the loop of `createReconciledFirewallRequest`, Service by Service and port by port | – |
| `FirewallController` | worker, syncer, cache, queue, informer, firewall API, start and stop | `pc`, `held` per goroutine, `seen` (the worker's list), `cache`, `queue`, `firewalls`, `late` |
| `FirewallPromise` | what the firewall controller promises, without its parts | `store`, `snapshot`, `late`, `firewalls` |
| `LBNodes` | which nodes back a load balancer, the network stack, the errors | – |
| `LBBackends` | passes of one worker while nodes change | `nodes`, `backends`, `stack`, `due` |
| `LBService` | one Service, its load balancer, both workers; uses `LBNodes` for the request | `svc`, `lister`, `obj` (the objects the workers hold), `w` (their positions), `lbs`, `queue`, … |
| `LBPromise` | what the load balancer implementation promises the owner of a Service, without its parts | `service`, `known`, `held` (what each worker's copy asks for), `lbs`, `made` |
| `LBServicePromise` | how the state of `LBService` maps to that of `LBPromise` | – |
| `LBCertificates` | the certificate of one load balancer, call by call | `svc`, `lister` (annotations), `news` (versions on their way to the informer), `nameOf`, `alive` (certificates), `lb`, `w` (the pass) |
| `LBRequest` | the request as a function of a Service; the webhook's answer; extends `FirewallRules` | – |
| `LBAdmission` | Services that users and the controller write through the webhook, beside the firewall computed from them | `services`, `api`, `edits` |
| `NodeLifecycle` | one Node name, its droplets, and the three loops that use `droplets.go` | `droplets`, `node`, `lister`, `sync`, `status`, `monitor` |
| `TagSyncer` | the tags syncer beside an abstract service controller | `services`, `lbs`, `tag`, `pc`, `page`, `list`, `res` |
| `FirewallProofs`, `LBBackendsProofs`, `LBServiceSteps`, `LBServiceProofs`, `LBAdmissionProofs`, `CertificateProofs`, `NodeProofs`, `TagSyncerProofs` | theorems | – |
| `MC*` | instances for TLC | – |

Conventions. Every API call is one step, taken at the server, together with what
the caller computes from the answer; what happens after the next call is another
step. A variable `disturbed` counts what the environment does (`Disturb(kind)`): a
run names the sets of kinds that may occur together (`Scenarios`; each behaviour has
one of them) and how many disturbances happen (`MaxDisturbances`). `TagSyncer` has a
single such set (`Disturbances`). A definition whose comment begins with "Mutant" is a
plausible bug: it replaces the definition after it to show that a property can fail.

**Firewall.** A Service is a record of what the rules depend on; rules are a multiset
(a function from rules to how often they occur), since the code compares sorted
slices. `FirewallRules` says what is in the multiset, `FirewallLoop` how the code gets
there: a fold over the list, with the slice, the map of ports and the `protocol` variable
that the ports of a load balancer share; `LoopAsSpecified` compares the two. `Get` is five actions (`GetCached`, `GetByID`, `GetByList`, `GetStore`,
`GetFails`), run by either goroutine; the deferred `updateCache` is the step
`GetStore`, or `Commit` after a write, so an answer can be stored late.
`WriteTimesOut` leaves the write in `late`, from where it takes effect later or
never. The queue of client-go is modelled for one key. Metrics and logs are left out.

**Load balancer backends.** A node is a record of the facts the code tests. The
functions of `loadbalancers.go` keep their names. `LBBackends` abstracts from the
interleaving of workers: a pass is one step.

**Service and load balancer.** `config` stands for all that the request is derived
from besides name and nodes. `Retrieve`, `UpdateLB` and `Patch` are shared by both
workers. `aliased` says that the node worker works on the very object the service
worker has cached (`NodeSync`), so that `updateServiceAnnotation` changes it for
both; the service worker's next pass replaces its own. What the deferred patch compares
with (`base`) is copied where `newServicePatcher` is called: in `Ensure`, after the
finalizer, in `GetLB`, `NodeSync` and `NodeCheck`. The type annotation that is
written along with the ID is left out since the type is constant here. The API
server's rules about finalizers are external. `LBPromise` is what the owner of the
Service sees of all this: copies of the Service that may be old, one creation, whole
writes, the deletion, the finalizer, and nothing done for a copy that disowns the load
balancer.

**Requests and the webhook.** A Service is the record of `FirewallRules` with a field for
each annotation; a text that cannot be parsed is `BuildError`, which is also what a
function returns instead of an error. Ports are numbers, because the code cuts them to 32
bits where it matches them (`int32`). `requestFails` is the error result of
`buildLoadBalancerRequest`, `forwardingRules` the part of it that looks up certificates.
The API's answer to a dry run is a nondeterministic choice; the webhook may be skipped, as
its failure policy in the manifests under `releases/` is `Ignore`. The name, the subnet
and the address annotation are left out. `LBService` has its own, abstract `config` in
place of these fields.

**Certificates.** A certificate is a number with a name that never changes; a renewal
is a new number with the old name, and any Let's Encrypt certificate may be renewed,
whether or not this load balancer has it. The informer gets every version of the Service
in turn (`news`), so an edit that is undone is noticed. The pass has a base (what the patcher copied) and an
object (what it changes); the deferred patch writes the difference. An error anywhere
goes to the patch first. The load balancer exists throughout.

**Nodes.** `sync`, `status` and `monitor` are the positions of the node controller's
worker, its address loop and the lifecycle controller's loop, each with its copy of the
Node. The droplet functions give sets of results: a lookup by name may return any
droplet of the name. `RetryOnConflict` is one step that succeeds when the informer has
the latest version. In a behaviour all kubelets tell the API their provider IDs, none
does, or each may (`mixed`). That kubelets register, report and take Nodes over, and what
happens to droplets, is external. `host` records which droplet a kubelet runs on; only
the environment reads it.

**Tags.** The list of load balancers is read in steps of one page; a deletion before
the next page moves the rest up. The list is taken to be in order of creation, so what
has been read is kept as a set and the first match is the one with the lowest ID
(`oldest`). The service controller appears as `CreateLB` and `AnnotateID`, each in one step. The stop
channel is left out: `main.go` passes `wait.NeverStop`.

## 3. What is checked

Passing runs:

| Run | Checks | Distinct states |
|---|---|---|
| `fw_safety` | `TypeOK`, `NoLostWakeup`, `KnownDriftIsScheduled` and the refinement `KeepsPromise` under all disturbances but stop, names not unique | 693,000 |
| `fw_converges` | `Convergence` under Service changes, errors, timeouts, restarts and edits, and under deletions of the firewall with errors (deletions do not meet Service changes, see `fw_dead_id`); `StopEndsBoth` | 348,000 |
| `requests` | the firewall's rules: `LoopAsSpecified`, `HealthPortRestricted`; the load balancers' requests: `TLSAsConfigured`, `BackendsReachable`; the webhook: `WebhookAgrees`, `OwnWritesAdmitted`, `RepairAdmitted` | 83,000 |
| `lb_backends` | `TypeOK`, `BackendsNeverEmpty`, `DualStackOnlyOnDualNodes`, `NoNodeForgotten`, `AttachedStay`, `ServingNodesAttached` | 29,000 |
| `lb_safety` | `TypeOK`, `OneLoadBalancer`, `CreatedOnce`, `FinalizerGuards` and the refinement `KeepsPromise` under all disturbances | 720,000 |
| `lb_converges` | `Convergence` under all disturbances but node events and drift, where changes of the configuration and the name do not meet restarts (see `lb_stale`) | 311,000 |
| `lb_certs` | `TypeOK`, `ChoiceKept`, `NameStaysInCharge`, `UpdateAsAsked`, `CertificatesConverge` under errors, edits and renewals of any certificate that delete the old certificate or, in a scenario of its own, keep it for a while | 823,000 |
| `nodes` | `TypeOK`, `InitialisedHaveID`, `LiveNodesKept`, `NodesSettle` under errors together with: readiness, power and destruction; addresses and deletion of Nodes; a name used again, with provider IDs set by kubelets or not; and Nodes deleted and registered again, some with a provider ID and some without | 575,000 |
| `tag_syncer` | `TypeOK`, `OnlyReferred`, `AllTagged` | 542,000 |

Runs that show a disagreement with a document or a comment (`expect: violation`;
the findings in `PROJECT.json` quote the text):

| Run | What happens |
|---|---|
| `fw_dead_id` | The firewall is deleted. The worker creates a new one, and then the syncer stores the copy it fetched before: the cache holds the dead ID. `updateCache` ignores the ID, so the right copy never replaces it while the rules are equal. When a Service changes, the worker updates by the dead ID, gets 404, and its creation is refused because the name is taken. This repeats forever. (Names are taken to be unique; otherwise a second firewall is created and the first keeps its rules.) |
| `lb_stale` | The node worker's write, from an older Service, lands after the service worker's. |
| `lb_drift` | A load balancer edited in the cloud is not reverted. |

Reading the code for the models showed more disagreements, which follow from a few
lines and have no run:

* annotations.md:198 "Disowned load-balancers are not mutated anymore": the tags syncer
  does not look at the annotation and tags them (`resources.go:171`).
* annotations.md:24 on `https`, `http2` and `http3`: "either `...-certificate-id` or
  `...-tls-passthrough` must be specified": with the protocol annotation `http3` the rules
  have neither and no error is returned (`loadbalancers.go:1437`), the exception in
  `TLSAsConfigured`. The other way to http3, the annotation with its port, is checked.
* CHANGELOG.md:153-154 "firewall rules are added to open up the underlying health check
  port": with the annotation `override-health-check` the load balancer checks a node port
  (`loadbalancers.go:1233`), while the firewall opens the default port
  (`firewall_controller.go:334`), the exception in `BackendsReachable`.
* README.md:127-128 "no public access other than to the NodePorts": the ports of a
  `REGIONAL_NETWORK` load balancer's Service are public too (`firewall_controller.go:364`).
* annotations.md:265 "Nodes already attached stay attached": a node without provider ID
  that was attached by its name is detached when it becomes NotReady
  (`loadbalancers.go:748`); `AttachedStay` is therefore about nodes with a provider ID.
* loadbalancers.go:806 "Never write an empty backend set while public-intent nodes are
  still coming up": it is written if the only node with an address has no droplet
  (`loadbalancers.go:973`), the exception in `BackendsNeverEmpty`.
* annotations.md:266 "For EXTERNAL load balancers: nodes must have external IP
  addresses": `REGIONAL` ones take nodes without (`loadbalancers.go:639`).
* controller.go:404-405 "Always add a finalizer prior to creating load balancers": after
  ClusterIP and LoadBalancer again, a stale copy of the Service still has the finalizer
  that was removed, and none is added (`controller.go:936`). `LBService` lets a Service
  become ClusterIP but not LoadBalancer again.

Properties state their exceptions where the code gives no guarantee: a Node without
provider ID whose droplet is gone is never removed, since `InstanceExists` fails
(`droplets.go:57`, `Settled`); a Node registered between the lookup and the deletion is
deleted with its predecessor (`LiveNodesKept`); an annotated certificate that is gone is
replaced only by one of Let's Encrypt (`Blocked` in `LBCertificates`); with two
certificates of one name, an ID may be recorded on a Service that goes by name
(`NameStaysInCharge`, and `UpdateAsAsked` for the same reason); the webhook refuses the
controller's own write if it cannot look up a certificate by name (`OwnWritesAdmitted`).

Two of them are races that a test would hardly reach:

* A user changes the certificate name of a Service, and the new name's certificate is
  renewed and the old copy of it deleted between the lookup (`loadbalancers.go:392`) and
  the comparison (`:359`). The 404 is taken for a renewal of the load balancer's own
  certificate (`:360-365`): its ID is recorded, the update leaves it in place, and since an
  ID takes precedence over a name, the user's change is undone for good. `lost` in
  `NameStaysInCharge` and `UpdateAsAsked` is exactly this case.
* `syncNode` copies a Node that has its provider ID, the Node is deleted and registered
  again without one, and the modifiers made for the first are applied to the second
  (`node_controller.go:446-466`): it is initialised without a provider ID, and nothing sets
  one later (the exception in `InitialisedHaveID`). It takes kubelets of one name that
  differ in whether they set the ID.

`OnlyReferred` and `AllTagged` count disowned load balancers among those that are tagged, as
the code does. `StopEndsBoth` is about a channel that `main.go` never closes
(`wait.NeverStop`); `Run` is written to end when it is.

Two more behaviours are excluded, and no document promises otherwise. If a load balancer
is deleted in the cloud, or the Service re-typed twice, a pass on a stale copy with the old
ID finds nothing and creates a second load balancer; `LBService` has neither action. And
with two nodes that come and go, the service worker's older node list may overwrite the
node worker's newer one, as in `lb_stale`; `lb_converges` has no node events.

### Bounds

* Two to four disturbances: each property can be broken by mutants within them,
  and what two goroutines can do to each other needs one event each and one failure.
  One clause is out of `lb_safety`'s reach: that the node worker leaves a disowned load
  balancer alone. To see it break takes three disturbances (a change of the configuration,
  disowning and a restart), where the run has two; the theorem has no such bound.
* `MaxFirewalls` and `MaxLBs` are never used up within the disturbances (`nextID` stays
  within them in every run), so they cut no behaviour off.
* `MaxUIDs`, `MaxDroplets`, `MaxAddresses` and `MaxIDs` do cut behaviours off: there are
  two Nodes, droplets and addresses of one name, the old and the new, and five
  certificates of three names, which allows two renewals and includes a name that is
  not of Let's Encrypt. The theorems about these modules have no such limit.
* One Service for the controllers: the firewall key is the same for all Services,
  and a load balancer's Service is handled by its key. `requests` has up to three, where
  Services could influence each other in the firewall, in every order, and `tag_syncer` has three, whose
  load balancers share a list.
* One node in `LBService` (the node list race above needs two); two in `LBBackends`,
  where mixed sets of nodes decide on the network stack.
* In `MCFirewall` the specification sets hold a NodePort Service and one with an
  invalid type (the latter in `fw_safety` only): what else a Service may be is the
  subject of `requests`.
* `MCLBAdmission` enumerates 2,561 Services, pairs and triples of Services as initial states,
  grouped by what is read together: everything the forwarding rules depend on, everything
  the health check depends on, pairs and triples for the firewall, the rest. One edit takes each to
  another. `Int32Half` is 2^17 in place of 2^31, since TLC's integers have 32 bits; what
  matters is that all ports are below it and that a number exists that is cut to a port.
* `PerPage` is 1 in place of 50: a list of three is then read in three steps, and load
  balancers come and go in between.

Deadlock checking is off where the system may come to rest: after shutdown
(`fw_converges`), where no periodic action exists (`LBBackends`, `LBService`,
`LBCertificates`, `LBAdmission`), and where there may be no Node (`NodeLifecycle`).

### Fairness

Weak fairness of each goroutine, of the informer, of the timers behind retries, and
of the server finishing what it has accepted (a late write is carried out or dropped,
a new load balancer becomes active). The Go scheduler, client-go's reflector and the
delaying queue justify it. Failures and users are never fair; since disturbances are
bounded, "eventually" means once they end. The back-off has no upper bound on
retries, so a retry is always due again. In `NodeLifecycle` the three loops are fair as
wholes: each visits every Node each period. Kubelets are not assumed to do anything.

## 4. What is proved

Every theorem holds for all values of the constants that satisfy the named `ASSUME`s of
the module it is about: the bounds are naturals, absent values and special names are no
ordinary ones, `LBBackends` has nodes and configurations of the kinds the code tells
apart, for `LBCertificates` there are enough IDs for one certificate per name, and for
`TagSyncer` there is room for the one load balancer it starts with. `AdmissionAssumption`
says of Services what the API server's validation guarantees (all fields are there, ports
are at most 65535), that IDs of load balancers are not the marks that stand for "everywhere" and
"no sources", and that `CertificateNames` has all the names that annotations hold;
`ErrorAssumption` says that the mark for an error is not the name of a network stack.

**`FirewallProofs`**: `TypeCorrect`, `WakeupNotLost` (`Spec => []NoLostWakeup`) and
`DriftScheduled` (`Spec => []KnownDriftIsScheduled`). `KnownDriftIsScheduled` is not
inductive. That the worker is right to stop in "succeeded" follows only if what it has in
hand is what it compared, and what it compared is either current or a pass is scheduled.
`IndInv` therefore adds three facts: the list a pass works on equals the informer store, or
another pass is scheduled (`SeenStale`); the firewall the worker compares with equals the
cached one up to its ID, or another pass is scheduled or the syncer is about to schedule it
(`HeldStale`); and the firewall a write returned is the one requested (`CommitHeld`).
`IndStep` shows, action by action, that it is preserved. That `updateCache` may keep an old
copy does no harm there: by `EqualUpToID` both copies meet the same requests.

The last part of the module is `Refinement` (`Spec => KeepsPromise`), where `KeepsPromise` is
`FirewallPromise` under the mapping: the snapshot is the worker's list `seen` while it
may still write from it (`Deciding`), the writes given up are the rules in `late`. Every step of the
controller is a step of the promise or a stutter (`PromiseStep`); that a created firewall
is a new one needs the invariant `FreshID`, that the API's IDs grow.

**`LBBackendsProofs`**: all safety properties of `LBBackends`, for any set of nodes and of
node specifications. They are about single passes, so `TypeOK` is the only invariant
needed; the work is in the operators. `RequestOK` says what a successful request consists
of, `Written` that a pass writes just that, `LeftOut` what a node was left out for.

**`LBServiceSteps`**, **`LBServiceProofs`**: `TypeCorrect`, `NeverTwo` (`Spec => []OneLoadBalancer`),
`NeverRecreated` (`Spec => CreatedOnce`) and `NeverUnguarded` (`Spec =>
[]FinalizerGuards`), for any set of nodes and any number of disturbances. None of them is
inductive: whether the service worker creates a load balancer depends on a lookup by an ID
or a name from a copy that may be older than the Service. `IndInv` says what every copy,
the informer's and the two workers', still has in common with the Service and the cloud.
There is only one ID, in the cloud and in every copy (`OneID`). A copy without the ID has
the name that the load balancer and all older copies have (`NamesAgree`), since the model
renames only what has an ID. A load balancer that was created and is gone is not wanted by
the informer's copy (`Wanted`). If the informer's copy asks for a load balancer and has
the finalizer, the Service still has it (`Finalizers`). `Position` says what this means at
each place of the service worker: before it creates, none was ever created; before it
removes the finalizer, there is none or it is disowned. The actions fall into a few kinds
(`ObjectStep`, `ServiceStep`, `ChangeStep` and others), for which preservation is proved
once. `LBServiceSteps` has the invariant and most actions, `LBServiceProofs` the rest of
them and the theorems.

The second half of `LBServiceProofs` is `Refinement` (`Spec => KeepsPromise`): `LBService`
implements `LBPromise`, where the copies held are what the workers' objects ask for
(`Copies`). Most of the promise follows from `IndInv`: by `Position` a creation is the
first one and made under the finalizer, and a deletion or the removal of the finalizer
meets a Service that does not want a load balancer. Two more invariants are needed. A
worker that is about to touch the load balancer holds a copy that does not disown it (`Permitted`): the check and the
write are calls apart, and in between the object may be replaced or changed in place by
the other worker. And before the creation nothing refers to a load balancer (`Referred`),
so every ID and address written is that of one that was created. `HiddenSteps`,
`CopySteps`, `ServiceSteps` and `CloudSteps` show of each group of actions which step of
the promise it is.

**`LBAdmissionProofs`**: every property of `LBAdmission`, for any number of Services and any
values of their annotations.
`Reachability` (`[]BackendsReachable`) and `Restriction` (`[]HealthPortRestricted`) rest on
`RuleSet`, which reduces the multiset of rules to the keys of the Services; the second
needs the invariant that all stored Services are well-formed (`AllWellFormed`), since an ID equal to the mark for "everywhere" would open
the port. `Encryption` and `Unobstructed` need that invariant too.
`Encryption` (`[]TLSAsConfigured`) goes through the cases of `buildForwardingRules`; ports
are below 2^16, where the conversion to 32 bits changes nothing, and a certificate looked
up by name must have one of `CertificateNames`. `HTTP3Rule` is about the rule of the http3
port, which needs the certificate and excludes pass-through; the rules with neither are those of
the default protocol http3 (`plainHTTP3`).
`Agreement` (`[]WebhookAgrees`), `Unobstructed` (`[]OwnWritesAdmitted`) and `Repairable`
(`RepairAdmitted`) are about the webhook: requests with and without nodes differ in the
network stack only, and recording an ID does not change the request, so the API is not asked.

**`CertificateProofs`**: `TypeCorrect`, `ChoiceSafe` (`Spec => ChoiceKept`), `NameSafe`
(`Spec => NameStaysInCharge`) and `UpdateSafe` (`Spec => UpdateAsAsked`). The first property speaks of the last step of a pass, so
`IndInv` carries the choice through the pass: the object's certificate has the name of the
base's, or the base's is gone (`Keeps`). For this to survive renewals, names must not
change and certificates not return, which holds for IDs once used; `Used` says that
nothing refers to any other, the versions under way to the informer (`News`) included. For
the second, `NameInv` follows a pass over a Service that gives a name: as long as no two
certificates share a name (`Unique`), the certificate found has another name than the load
balancer's, or is the load balancer's, or is gone by the time they are compared (`ByName`),
so no renewal is recorded but in the last case, the exception `lost`. It has to hold while
other certificates than this load balancer's are renewed (`RenewByName`). The third is about the update, several
lookups after the pass has read the load balancer. `AskInv` relates them: the certificate
read and the one in use have one name, however often it was renewed (`SameName`), the
object differs from the base at most by the ID read (`Copied`), and the certificate of the
request is the one the object gives (`Requested`). If the ID asked for is gone, only the
one read is left to write, which has the name of the one in use.

**`NodeProofs`**: `TypeCorrect`, `InitialisedSound` (`[]InitialisedHaveID`) and `LiveKept`
(`LiveNodesKept`). All three loops act on copies, so `IndInv` says of every copy, the
informer's and each loop's, what remains true of it while the Node and the droplets go on
(`Known`): its UID is one already given, and the Node's the latest; unless kubelets set
provider IDs, it has one just when it is initialised; if only some of them do, the first
Node at least has one then; the droplet it names was created; and if the Node is still the
same, it has the ID of the copy. With it, a loop about to delete has seen that droplet
gone for good (`MonitorOK`). `Carried` moves these facts across steps that lose nothing.

**`TagSyncerProofs`**: `TypeCorrect`, which includes that no empty request is sent, and
`NothingElse` (`Spec => OnlyReferred`), for any number of Services and load balancers and
any page size. An ID found on a page is used several calls later. It is still that of the
same load balancer because IDs are not given twice (`Given`) and stand for one name
(`OneName`); with that, what is about to be tagged is what a Service refers to
(`Justified`). That the tagged load balancer is one there was before, and not another
with its ID, is the separate invariant `Single`. Page numbers stay in their type because
the API's count is at most the number of IDs.

Model-checked only: all liveness (`Convergence`, `StopEndsBoth`, `ServingNodesAttached`,
`CertificatesConverge`, `NodesSettle`, `AllTagged`), which is beyond this prover under
fairness; and `LoopAsSpecified`, that a fold over a sequence equals a definition by
sets, which takes induction over the sequence. All other properties of the passing runs are theorems. TLC checked the
inductive invariants of `LBService` (with `Permitted` and `Referred`), `TagSyncer` and
`NameInv` on the instances above before they were proved.

How the proofs are run. A leaf that needs no arithmetic names Zenon: the translation of a
large obligation for the SMT solver has a time limit of its own, which no pragma raises,
and takes the longer the more modules are extended. For the same reason the proofs about
`LBService` are two modules, and `OneLoadBalancer` is stated without `Cardinality`.

## 5. Not modelled

* Region lookup, start-up and environment parsing, HTTP endpoints, metrics, events and
  logs: I/O without state that the rest reads. `Initialize` is the process start of
  `FirewallController`.
* Several Services competing for the workers of the service controller; a Service deleted
  and re-created under its name while the old one is cached (the UID check of
  `processServiceCreateOrUpdate`); load balancers in status `errored`; an unparsable
  disown annotation; the name, subnet and address in the request.
* Certificates beside the node worker, which writes the load balancer too: `LBCertificates`
  has one worker.
* Page-wise lists in `LBService`, `FirewallController` and `NodeLifecycle`: these lists are
  searched for one name, and a skipped item there looks like a missing one, which for a
  load balancer without recorded ID would mean a second creation.
* Labels, instance types and node IPs in the node controller; the parallel treatment of
  several Nodes.
* Admission requests that cannot be decoded.
