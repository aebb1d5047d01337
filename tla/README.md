# Verification of vault-plugin-postgres

TLA+ specifications of the plugin in `src/backend`, the TLC runs that check them
on small instances, and TLAPS proofs of the results that hold for every
instance. Line numbers below are those of `src/`.

## 1. The system

The plugin is a Vault secrets backend. Operators register Postgres clusters and
databases with it, and applications get short-lived database credentials from
it. The process keeps no state: every handler works on two shared stores, Vault's
storage (a key/value store with Get, Put, Delete and List, no transactions) and
the Postgres servers. Vault calls handlers concurrently, and no handler takes a
lock. This is what makes the code hard: each handler is a sequence of calls, any
other handler may run between two of them, and the process may die between them.

| Component | State | Operations | Interacts with | What makes it correct |
|---|---|---|---|---|
| cluster registry `path-cluster.go` | `config/cluster/<c>`; root password and management roles on the server | update, read, delete, list | databases (delete disables them), servers | a deleted cluster stays deleted and has no active database; stored credentials log in |
| database registry `path-database.go` | `config/cluster/<c>/database/<d>`; databases and owner roles on the server | update (with `initializeDb`), read, delete, list | reads the cluster up to three times, two connections | a stored database exists, with its owner, in an active cluster |
| garbage collection `path-gc.go` | none of its own; removes the entries above | list, read, purge of clusters and of databases | both registries | only deleted things are purged, databases before their cluster |
| cloning `path-clone.go` | writes a cluster and its databases under a new name; rotates passwords on the clone's server | update | both registries, a server restored from a snapshot | never overwrites a cluster, never touches the source's server, copies every active database |
| credentials `path-creds.go` | a login role per lease, with an expiry; Vault's lease | create, renew, revoke | both registries, roles, Vault's expiration manager | a role does not outlive its lease, a lease not its role |
| roles `path-role.go` | `config/role/<r>` | update, read, delete, list | credentials | statements and TTLs a lease was made with are there when it ends |
| metadata `path-metadata.go` | `meta/cluster/<c>`, `meta/database/<c>-<d>` | update, look-up, list, delete | both registries | metadata of one object is not that of another |
| connections `backend.go` | none kept (a pool per call); the server's connections | `getConn`, `makeConn` | everything above | limits of connections hold, pools are closed |
| wiring, help, docs generator, `main.go` | none | | | no behaviour of their own |

The hard behaviours, each with its line and the properties that watch it, are
listed under `hazards` in `PROJECT.json`. In short:

* *interleaving*: a check and the store it guards are separated by storage and
  Postgres calls (registration against deletion, purge against registration,
  update against deletion, two updates, two clones);
* *partial failure*: a deletion, purge, registration or clone stops in the
  middle, and what is left must be consistent and, for deletion and purge,
  finish when asked for again;
* *stale state*: an entry read once is edited and stored later (update, delete,
  clone), or read again and found changed (`getConn`);
* *ordering of two stores*: a password is set on the server before the entry
  that records it is stored, a login made before its lease and dropped before it;
* *retries*: Vault revokes again what it does not know to be revoked, with
  statements most of which can be run only once;
* *two clocks*: the handlers compute until when a login is valid, Vault until
  when it keeps the lease, at different moments and with different arguments.

## 2. Modules

| Module | What it is |
|---|---|
| `Lifecycle` | What the configuration API promises: clusters and databases go absent, active, deleted, absent, one step per request. Abstract specification. |
| `Registry` | The four configuration components, one action per call of a handler to storage or Postgres. Detailed specification, with all properties. |
| `MCRegistry` | The instance TLC checks: a primary cluster and a name for its clone, a server for each. |
| `RegistryProofs` | Type correctness for every instance, and what survives concurrent requests. |
| `RegistrySerialProofs` | The safety of requests made one at a time: what storage holds, the stored credentials, the clones. |
| `RegistryRefinementProofs` | `Registry` implements `Lifecycle` when requests are made one at a time. |
| `Metadata` | Metadata of clusters and databases, one action per storage call, with the steps of `Lifecycle` as its environment. |
| `MCMetadata` | The instances TLC checks: names without hyphens, and names with. |
| `MetadataProofs` | Type correctness, faithful lookups and whose metadata a store replaces, for all names, entries and requests. |
| `Lease` | What a lease promises of its login: leased while it exists, dropped before the lease ends, never back. Abstract specification. |
| `Creds` | The credential and role handlers, one action per storage, Postgres or Vault call, with the lease entries of Vault's expiration manager and the steps of `Lifecycle` (and the late registrations and updates it does not have) as environment. Detailed specification. |
| `CredsProofs` | Type correctness and the safety of leases, for any number of concurrent requests. |
| `CredsRefinementProofs` | `Creds` implements `Lease` when requests are made one at a time. |
| `LeaseTtl` | The times of one lease and its login: `CalculateTTL` as create, renew and Vault call it, with a clock. |
| `LeaseTtlProofs` | Type correctness, the bounds and both tracking properties, for all times. |
| `ConnPools` | The connections to one server: which handler opens which pool, and what happens to it. |
| `ConnPoolsProofs` | Every connection is accounted for. |

### How Registry corresponds to the code

*State.* `cfg[c]` and `dbcfg[c][d]` are the two kinds of storage keys. A value
is `Absent` or a record with the fields that matter: the server, the two
passwords, the management role and the disabled flag of `ClusterConfig`; the
cluster name, the owner role and the flag of `DbConfig`. `pg[h]` is a server:
the root password, the password of each management role, and which databases and
owner roles exist. `req[r]` is the local state of the handler in slot `r`: its
program counter and what it has read. `issued` counts identifiers drawn.

*Actions.* A handler begins with the action that has its name
(`PathClusterUpdate` is `pathClusterUpdate`): its first read and the checks on
it. Each following call is an action named for the call, with the code up to the
next call: `ListToDelete`, `LoadToDelete` and `StoreDisabled` are the List, Get
and Put of the loop in `pathClusterDelete`. `Return` is a return. An early return
that has changed nothing is a disabled guard when it is on the first read, and a
step to `Idle` when it comes later. The read handlers are state functions
(`PathDatabasesList` and so on): their result is compared, they change nothing.

*What is merged into one step.* The first read of the cluster and the connection
test at the start of an update (`path-cluster.go:225-240`): the test does not
depend on the read and commutes with every step of the others, since no server
ever disappears. The two connection tests of a clone (`path-clone.go:55-67`):
both must succeed and neither changes anything, so that the case where a password
is changed between them ends as the one where it is changed before or after. The
transaction that creates an owner role (`path-database.go:160-181`) is atomic
in Postgres.

*What is abstracted.* Host, port, user name, maintenance database and SSL mode of
a cluster are one choice of a server; requests with values that `validate`
refuses change nothing. Random identifiers never repeat: one number, drawn when a
request starts, stands for all identifiers it creates. The request to register a
cluster carries the current root password, so its connection test succeeds; with
a wrong one the request changes nothing. The order in which List returns names is
arbitrary in the model. A call that takes effect and reports an error is the
call's action followed by `Fail`; a crash of the plugin is `Fail` for every
request in flight; a call that has no effect and reports an error is `Fail`.
`cloneDbConfig` goes on after a failing Get or Put, and so do `LoadSource` and
`StoreCopy`. `RestoreSnapshot` is the operator's: a server copied to a new
address, with every password it had. The target of a clone is one of `Cluster`. In the code
it is a field of the request's body that only has to be non-empty (`path-clone.go:37-40`),
not limited as the names in paths are: a target with slashes in it could be the key of another
cluster's database. Such targets are not modelled.

*Bounds.* `MaxUuid` bounds identifiers, and with it the number of registrations,
clones and databases with a generated owner; deletions and purges are unbounded.
`Request` is the number of handlers that run at once.

### How Metadata corresponds to the code

`meta[id]` is the storage key `meta/<id>`, and an entry names its object as
`Metadata.Cluster` and `Metadata.Database` do. The identifier of a database's
metadata is `database/<cluster>-<database>` (`path-metadata.go:80`). What matters
about it is which names give the same identifier, so a name is the sequence of
its parts between hyphens and `Id` concatenates: `a` and `b-c` give what `a-b`
and `c` give, as in the code. `PathMetadataUpdate` reads the cluster,
`LoadDatabase` the database, `StoreMetadata` stores; neither check asks whether
the object is deleted, and neither does the code. `PathMetadataRead` and
`PathMetadataList` list identifiers, `LoadEntry` gets one, `ListDatabases` is the
second half of the list, `Answer` returns. `Fail` is as in `Registry`.

`seen` is a history variable: for each lookup, the objects that matched at some
time since it began and those that matched all the time. It is what the answer is
compared with; no action reads it.

The registry is only what the update reads of it, whether an object is there. Its
steps are those of `Lifecycle`, which `Registry` implements for serial requests;
concurrent registrations could only add behaviours in which a database has
no cluster, and no property of `Metadata` excludes those.

The lengths of keys and values are abstracted. docs/metadata.md:26-27 says that
keys over 64 and values over 128 characters are refused; `parseMetaAttr`
(`path-metadata.go`) has no such check.

### How Creds corresponds to the code

*State.* `clusterStatus`, `dbStatus` are those of `Lifecycle`; `mgmt[c]` and
`owner[c][d]` are what the handlers of credentials read of the two entries, the
management role and the objects owner. `roles[n]` is `config/role/<n>` with the
kind of its statements; `pg[u]` a login made for a lease, with the management role
that is a member of it (`role {{group}}` in the creation statements) and the owner
it is in. `lease[u]` is Vault's lease entry: `timer` says whether its timer is set, has
fired, or was stopped because the entry has no expiry; `left` bounds the renewals that
still find something left of the maximum TTL. `req[r]` is the handler in slot `r`.

*Actions.* `SecretCredsCreate`, `LoadDatabase`, `LoadRole`, `LoadForConn`,
`CreateUser`, `RegisterLease` are the calls of a creation, in the order of
`path-creds.go:32-148` and then Vault's. `LoadForConn` is `getConn`, for all three
handlers: it reads the cluster again and does not ask whether it is deleted. The
transactions are one step each, since Postgres makes them so; what a login takes
besides, its password and expiry, no property looks at. `Renew`, `Revoke` are what Vault loads before it calls a handler,
`PersistRenewal`, `EndLease` what it does afterwards. `RegistrationFails` is the
revocation Vault attempts, once, when it cannot store a new lease.

*The last second.* When nothing is left of the maximum TTL, `secretCredsRenew` leaves the login
alone and answers a TTL of 0, which is a success (lines 206-235). `LoadDatabaseToRenew` may do so in any
renewal, since this module has no clock. `PersistRenewal` then has the outcomes of
Vault's own computation (`vault/expiration.go:867-915, 1328-1335`): the lease renewed with its timer set,
if the handler found something left; an entry without an expiry, whose timer is stopped; or an
error when the maximum has passed, and the lease as it was. `Endless` is a lease of the second kind. When
each of these happens is the subject of `LeaseTtl`.

*Cancelled revocations.* `Begin` and `Commit` (lines 308 and 327) carry no context, the statements
(line 322) do. A request that is cancelled between two statements skips the rest and commits what
has run. `DropUserCutShort` is this case: of the default statements, those that have made the login
leave its owner; of an operator's that would have failed, those before, which may have dropped the
login. Vault gets an error, and keeps the lease.

`AddDatabaseLate` and `UpdateCluster` are what concurrent configuration requests
do beyond `Lifecycle`, see `Registry`.

*SQL* is abstracted to whether the statements succeed. `CreationSucceeds`: the
default ones alter default privileges *for* the new login, which takes a member of
it; the entry read first names the member and the second read makes the
connection. `RevocationSucceeds`: `set role {{user}}` takes a member, too, and a
login that exists; `reassign owned ... to {{objects_owner}}` a login that is a member
of the owner. An operator's statements drop the login (`drop`), fail (`fail`), or succeed and
leave the login (`keep`): an explicit empty `revocation_statement` becomes an empty list, blank
statements are skipped (lines 316-320), and the commit succeeds. A failing
statement aborts the transaction in Postgres, so that the commit reports an error
although line 322 does not return (`DropUser`). The error of the role's load
other than "not found" is overwritten at line 68 ff. and the nil role used: the
request panics, which is `Fail`.

*Not in it:* times (`LeaseTtl`), names (each login has a fresh one), clones
(nobody's leases are on a clone), the revocation of whole prefixes, and
`revoke -force`, which deletes leases without looking at the answer.

### How LeaseTtl corresponds to the code

`CalculateTTL` is the vendored function (`sdk/framework/lease.go:33-109`) with the
case `period = 0`, the only one used; its error is `PastMax`. `CreationTTL` and
`RenewalTTL` are the two calls of `path-creds.go` (lines 86 and 206) with the
arguments the code has, `RegisterLease` and `RenewedTTL` those Vault makes from
the answer (`vault/request_handling.go:800`, `vault/expiration.go:867`). At line 206
the error is not looked at: the TTL is 0, the login left alone and the answer a
success. `Tick` is the clock. Time is in seconds, to which `CalculateTTL` cuts every
time and both handlers format theirs; Go's `time.Now()` of line 208 is finer, which
can make a login valid up to a second longer than here, never shorter.
`MaxDelay` bounds the time from a handler's start to Vault's store.

### How ConnPools corresponds to the code

A slot is one connection the server accepts. `GetConn` and `MakeConn` are the two
ways to a pool; each pool has one connection in use at a time, since each handler
makes its queries one after another. `Close` is the deferred `Close` of the
credential handlers and of `pathClusterUpdate`. `initializeDb` (lines 139 and 155)
and `pathCloneUpdate` (line 64) have none: `CreateDatabase`, `CreateOwner`,
`CloneReturns` leave the connection idle (`Left`), to be closed by its lifetime
(`Expire`) or by the end of the process (`Restart`). The behaviour of `database/sql` is
external: an idle connection is kept if the pool may keep one, and closed when
`SetConnMaxLifetime` has passed.

## 3. Runs

| Run | Instance | Checks |
|---|---|---|
| `serial` | `Registry`: one request at a time, failing anywhere; two clusters, two databases, three identifiers | `TypeOK`, `NoActiveDatabaseInDeletedCluster`, `NoOrphanDatabase`, `ReadHandlersAgree`, `ManagementCredentialsWork`, `SerialInv`, `ImplementsLifecycle` |
| `calm` | `Registry`: one at a time, no failures, `FairSpec`; all flags, one given owner, two clusters, two databases, three identifiers | `RootCredentialsWork`, `CloneIsComplete`, `DeletionCompletes`, `PurgeCompletes` |
| `concurrent` | `Registry`: two at a time, failing anywhere; two clusters, one database, three identifiers | `ClusterMatchesPath`, `ServersExist`, `PrimaryManagementCredentialsWork`, `RegisteredDatabaseInitialized` |
| `active_in_deleted` | `Registry`: two at a time, no failures | violates `NoActiveDatabaseInDeletedCluster` |
| `lookup` | `Metadata`: one cluster, two databases, plain names; one attribute with two values; two handlers | `TypeOK`, `LookupIsFaithful`, `MetadataOfOneObjectOnly` |
| `collision` | `Metadata`: two clusters, two databases, names with hyphens; one handler | violates `MetadataOfOneObjectOnly` |
| `creds_serial` | `Creds`: one request at a time, one failure, `FairSpec`; statements of all kinds but `keep`, all operations, two owners, two management roles, one renewal | `ImplementsLease`, `UndisturbedLeaseEnds` |
| `creds_retried` | `Creds`: two at a time, one failure, `FairSpec`; the cluster registered again, deletions of everything, default and repeatable revocation statements | `TypeOK`, `DroppedWhenRevoked`, `FaultsBoundUntrackedLogins`, `CredsOnlyFromConfigured`, `RepeatableRevocationEnds` |
| `creds_reregistered` | `Creds`: one at a time, no failures, `FairSpec`; default statements | violates `HeldLeaseEnds` |
| `lease_ttl` | `LeaseTtl`: one request at a time, one failure; roles with TTLs 0, 2, 6, a mount with 3 and 5, increments 0 and 6, grace and delay 2, seven seconds | `TypeOK`, `LifetimesBounded`, `RenewedLoginOutlivesLease`, `CreatedLoginTracksLease` |
| `ttl_mismatch` | `LeaseTtl`: no delay, no failures | violates `ExpiryMatchesLease` |
| `conn_pools` | `ConnPools`: two requests of any kind, three connections, `FairSpec` | `ConnectionsAccountedFor`, `LeftConnectionsClose` |

### What they show

*Registry.* With requests made one at a time the order of the stores in the
handlers is right: wherever a handler is cut short, storage is in a state from
which the operator can go on, and the lifecycle is that of `Lifecycle`. With
concurrent requests the lifecycle is *not* kept, in four different ways, each
with a short trace (the first is the run `active_in_deleted`, the others are among
the configurations below):

1. *An active database in a deleted cluster.* `PathDatabaseUpdate`,
   `CheckDatabase`; the whole of `PathClusterDelete`; `StoreDatabase`. The
   database then cannot be deleted (its cluster is), and the cluster cannot be
   purged (its database is not deleted). docs/cluster.md:63-64 promises otherwise.
2. *A purge of an active database.* Two purges of a deleted database read it; one
   removes it, a registration stores it anew, the other purge removes that one.
   docs/gc.md:73 promises otherwise.
3. *A deleted cluster comes back.* `PathClusterUpdate` passes its check; the
   deletion runs; `StoreCluster` stores an active entry. path-cluster_test.go:38
   expects an error.
4. *A database without a cluster.* As in 1, but the cluster is deleted and purged
   before `StoreDatabase`: the entry stays under a name that is not registered,
   and is there again when the name is. docs/gc.md:40 promises otherwise.

What survives concurrency and failures is in `concurrent`: entries name their
cluster and a server that exists, the management credentials of clusters that
are not clones work, initialized databases exist with their owner.

*Metadata.* `lookup` shows that lookups and lists are faithful while entries come and go: the
answer has every object that matched all along and none that never did, and it
does not stop at an entry that has gone since it was listed. It also shows that,
for names without hyphens, storing metadata for one object leaves that of the others alone.
Two findings bound this:

* *Shared identifiers* (`collision`). Database `b-c` of cluster `a` and database
  `c` of cluster `a-b` have one identifier, and the metadata of one replaces that
  of the other. docs/metadata.md:33-34 promises otherwise.
* *Metadata of purged objects* (`Metadata_purged.cfg`). Neither deletion nor purge removes
  metadata, and a lookup does not ask whether an object is registered: it answers
  with purged ones. docs/metadata.md:23 speaks of "the configured objects".

*Credentials.* With requests one at a time the handlers and Vault keep the promise
of `Lease`, if the revocation statements, when they succeed, drop the login (`RevocationsDrop`).
`UndisturbedLeaseEnds` says that a lease then ends unless there was a failure, a purge of its cluster or
database, a replaced management role or owner, statements that fail, or a renewal in the last second
of its maximum TTL. Each of these can keep a lease from ending; deleting the role, the database
or the cluster does not. `creds_retried` shows what
is left when requests overlap and fail: no lease ends with its login alive, each
failure loses track of at most one login, credentials come only from what was
configured at some time of the request, and with revocation statements that can
be run twice (`drop role if exists`) every lease ends, but for purges and renewals in
the last second. The default statements cannot be run twice:
`set role {{user}}` fails on a login that is gone, or for a management role that is
not a member of it. docs/creds.md:27-28 promises "a response warning rather than an
error. In any case the lease will be revoked by vault", but the failed statement makes
the commit fail. `creds_reregistered` is the case that needs neither a failure nor
concurrency: registering a cluster again, which the API allows, makes all leases
on it irrevocable. With statements of the kind `keep` a lease ends and its login lives on until
it expires (`Creds_kept.cfg`).

*Times.* `lease_ttl` shows that no sequence of renewals and role changes takes a login past
the mount's maximum and the grace. It takes a lease past the maximum it was last renewed with,
which is never more than the mount's, in one case only: a renewal in the very second this maximum ends
makes a lease without an expiry, and nothing bounds its life (`LeaseTtl_endless.cfg`); its login still
dies in time. The run also shows that the five seconds of line 208 are what a
renewal needs if it takes no longer, for leases with an expiry, and that a new login ends with its lease if
the role's default TTL is within its maximum. If it is not, the login outlives the lease
by the difference (`ttl_mismatch`): the maximum passed at line 86 is the default.

*Connections.* Whatever fails, `conn_pools` finds open what a request in flight uses and what
registrations and clones left; credentials leave nothing.

### Further counterexamples

Each of these configurations makes TLC find a property violated within seconds
(`tlc -config X.cfg M`). They are not among the runs of `PROJECT.json`, which has one
disagreement of each component.

| Configuration, module | Violated | What happens |
|---|---|---|
| `Registry_purgeActive`, `MCRegistry` | `OnlyDeletedDatabasePurged` | 2 above; docs/gc.md:73 |
| `Registry_resurrect`, `MCRegistry` | `DeletedClusterStaysDeleted` | 3 above; path-cluster_test.go:38 |
| `Registry_orphan`, `MCRegistry` | `NoOrphanDatabase` | 4 above; docs/gc.md:40 |
| `Registry_rootLost`, `MCRegistry` | `RootCredentialsWork` | Two updates set two root passwords and store their entries in the other order: both succeed, the stored password does not log in and nobody knows the other. path-cluster_test.go:113-160 expects it to log in. |
| `Registry_cloneRace`, `MCRegistry` | `ManagementCredentialsWork` | Two clones to one target, likewise. |
| `Metadata_purged`, `MCMetadata` | `ConfiguredObjectsFound` | Metadata of purged objects, above; docs/metadata.md:23 |
| `Creds_deleted`, `Creds` | `NoCredsInDeletedCluster` | The cluster is deleted after line 46; `getConn` (line 93) does not ask again. docs/cluster.md:63-64 |
| `Creds_purged`, `Creds` | `HeldLeaseEnds` | The database or cluster is purged; revocation is refused (lines 276, 285) for ever. docs/cluster.md:65-66 |
| `Creds_crash`, `Creds` | `HeldLeaseEnds` | Vault ends after the login was dropped and before its lease is deleted, or a revocation is cancelled half way and commits what has run; the default statements then fail at every retry. docs/creds.md:27-28 |
| `Creds_kept`, `Creds` | `DroppedWhenRevoked` | An explicit empty `revocation_statement` runs nothing and commits: the lease ends with the login alive. docs/creds.md:30-31 says of parameters "left empty" that the default queries are used; they are only when the parameter is not given |
| `Creds_race`, `Creds` | `HeldLeaseEnds` | A renewal alters the login, a revocation runs, Vault stores the lease it renewed: a lease without a login, which the default statements cannot revoke. |
| `LeaseTtl_race`, `LeaseTtl` | `RenewedLoginOutlivesLease` | Two renewals with different increments: one alters the login last, the other stores the lease last. |
| `LeaseTtl_endless`, `LeaseTtl` | `EveryLeaseExpires` | A renewal in the second in which the maximum TTL ends is answered with a TTL of 0, without an error. Vault stores a lease without an expiry, stops its timer (`vault/expiration.go:1328-1335`), and neither revokes nor renews it. The second is that of `CalculateTTL`'s truncation: the renewal must reach Vault before the lease's own timer fires, less than a second later. docs/creds.md:28 |
| `ConnPools_limit`, `ConnPools` | `WithinMaxOpen` | `max_open_connections` is set on a pool of one request: two requests have two connections with a limit of one. docs/cluster.md:35-36 |
| `ConnPools_cloned`, `ConnPools` | `IdleConnectionsClose` | The pool of a clone as root (line 64) has no lifetime and is never closed. docs/cluster.md:29-30 |

### Bounds, deadlock, fairness

*Why the bounds are enough.* Two clusters are a clone's source and its target; a
handler touches no third. Two databases let a loop be at one with another before
or after it; `concurrent` needs only one, since its properties speak of single
entries. Three identifiers let a cluster be registered, cloned and registered
again (or a database get a generated owner). In `calm` databases may have a given owner,
which draws none, so that a clone meets sources with no, one and two databases, active and deleted. Two requests suffice for each
violation and for every pair of handlers; that the properties of `concurrent` hold of
more is proved. In the serial run `Initialize` is `FALSE` and
owners are given, since no property there looks at what exists on the server
except management roles; initialization is covered by `calm` and `concurrent`.
In `lookup` a cluster and two databases give three entries, of both kinds, so that
one can go before, at or after another the loop has reached; two values are
needed for an entry that matches and then does not. Request slots and values are
symmetric; no property or constant tells one from another.

In `Creds` one cluster, database and role are enough, since a handler touches one of
each; two management roles are one before and one after a re-registration, and
two owners likewise for a database purged and registered again. One login is
enough for a lease to be created, renewed and revoked by two handlers at once; two logins
share nothing but what they read, and the proofs are for any number. One failure
can hit any step; the violations need one at most. In `LeaseTtl` the values are chosen
so that the role's default is below and above its own maximum and the mount's, the increment
above everything, and the clock passes the maximum. The run has one request at a time. Concurrent renewals are
covered by the proofs of `TypeOK` and `LifetimesBounded`, and break
`RenewedLoginOutlivesLease`. In `ConnPools` two requests on three connections can fill the server.

*Deadlock* is not checked: in `Registry` and `Creds`, with all identifiers drawn and
everything deleted no request is possible, which is the bound's doing, and
in `LeaseTtl` the clock stops; `Metadata` and `ConnPools` have no such bound, and
cannot deadlock.

*Fairness.* In `Registry` and `ConnPools`, weak fairness of `Step(r)` for each request: a Go
handler that has started runs until it returns; and weak fairness of `Expire` in
`ConnPools`: `database/sql` closes connections whose lifetime has passed. Nothing is
asked of a request's start: nobody has to make one. `calm` has no failures, so every
call returns. In `Creds` also weak fairness of `Expire`, for leases that have a timer (a renewal in the
last second stops it, and nothing is assumed of such a lease), and strong fairness
of `RevokeDue`, the revocation of a lease that is due: Vault tries six times with
growing delays (`expireLeaseStrategyRevoke`, `vault/expiration.go:101-139`) and again
whenever it starts or another node takes over, so an expired lease is not given
up, however often it finds both slots of the model taken (which is the model's
bound, not Vault's). Failures are bounded by `MaxFaults`, and nothing is assumed to
succeed that can fail for a reason in the state.

## 4. Proofs

*Assumptions.* Each module names its own: the kinds of the constants
(`ConstantsOK`, `KindsOK`, `BoundsOK`, `TtlsOK`) and that the values for "nothing" are
none of the values they stand beside (`NoClash`, `AbsentOK`, `NamesOK`, `NoTime`). TLC
evaluates all of them on its instances. `Part` of `Metadata` is there for `NamesOK` only:
names are non-empty sequences of parts. Some theorems have hypotheses of their own, stated
with them:

| Hypothesis | Says | Why |
|---|---|---|
| `OneAtATime` | there is one request slot | without it most of the properties are false, see section 3 |
| `~Faults` | no call fails | a root password set before a call fails is lost with it (hazard at `path-cluster.go:263`), and `cloneDbConfig` skips what it cannot load |
| `SeparateServers`, `CloneServersApart` | a clone's server is not that of a primary cluster, or of any other cluster | a clone is made on a server restored from a snapshot (docs/clone.md), and sets that server's passwords. The code does not ask: a clone on its source's own server passes `makeConn` |
| `OwnServers` | no two clusters share a server | registering a server changes its root password, and docs/cluster.md:54-56 recommends not to change it "once the cluster has been registered". The code does not ask either |
| `AlwaysInitialize` | requests carry `initialize` | without it nothing is made on the server |
| `OneKindPlain` | either no cluster's or no database's name has a hyphen | with hyphens in both, identifiers coincide: `collision` |
| `RevocationsDrop` | no revocation statements succeed and leave the login | `Creds_kept.cfg`; the plugin runs what the operator gives it |
| `Prompt` | a request takes no longer than the grace | a slower renewal outlives the grace of line 208 |

The instances of the runs that check the same properties satisfy all of them.

*Typing* (`RegistryProofs`), for any number of requests in flight:
`Spec => [](TypeOK /\ ServersExist)`. `TypeOK` is not inductive: `SetPassword`
on a server that is absent would leave the type of `pg` undefined. So it is
proved together with `ServersExist`: whoever changes a password has connected,
and servers do not disappear. `JobByPc` (the program counter determines the
shape of what a handler has read) carries every case.

*Safety of serial requests* (`RegistrySerialProofs`), under `OneAtATime` (there
is one slot; `Fail` may still cut any handler short):
`Spec => []SerialInv`, with `NoActiveDatabaseInDeletedCluster`,
`NoOrphanDatabase` and `ReadHandlersAgree` as consequences. Neither is inductive
alone. `SerialInv` adds, for each program counter, what the handler has
established and still relies on: the deletion's entry is the one in storage and
its `todo` holds every active database (so that the cluster is disabled only when
none is left); the purge's `todo` holds every listed database; the registration's
cluster is active and its database absent; the clone's target absent before it is
stored, and afterwards none of the databases still to copy is there.

*Concurrent requests* (`RegistryProofs`), any number of them, with failures:
`ClusterMatchesPath`, `ServersExist`, and under their hypotheses
`PrimaryManagementCredentialsWork` and `RegisteredDatabaseInitialized`. They rest on
`ConcurrentInv`. Handlers hold copies of entries that others replace in storage
meanwhile, so the invariant cannot relate what a handler has read to what is stored
now. It judges every entry, stored or in a handler's hands, by the servers alone:
`ClusterKnown` (the entry names one of its cluster's servers, and the role it names has there the
password it was made with, which is the number the role has itself) and `DbKnown` (on one of the
cluster's servers the database and its owner exist). Both take the servers as a parameter,
and `KnownLater` shows that they are stable under every change handlers make to the servers (`Keeps`:
nothing disappears, and a role's first password changes on a clone's server only). A step
then owes the new job and the entry it stores, and nothing about the other requests
(`KnownStep`).

*Stored credentials* (`RegistrySerialProofs`), under `OneAtATime`.
`ManagementCredentialsWork`, also when handlers are cut short, under `CloneServersApart`, by
`ManagementInv`: the entry a handler is about to store logs in from the moment its role
exists, and the role an update is about to make is named in no entry yet (identifiers in entries are at most
`issued`), so that making it takes no login away. A clone rotates a password while its
target has no entry (`SerialInv`) on a server that no other entry names (`ConcurrentInv`), so the old
password is in no entry. `RootCredentialsWork`, under `OwnServers` and `~Faults`, by `RootInv`:
every entry logs in but that of a cluster whose update has set the password and not
yet stored it. `Quiet` is what the calls have in common that change no login, so that only
the twelve that work on one are looked at one by one.

*Clones* (`RegistrySerialProofs`), under `OneAtATime` and `~Faults`: `CloneIsComplete`, by
`CopyInv`: an active database of the source is registered under the clone, or still to be visited,
or in the handler's hands.

*Refinement* (`RegistryRefinementProofs`), under `OneAtATime`:
`Spec => ImplementsLifecycle`. Ten actions store or remove an entry; each is the
`Lifecycle` transition its name says (a re-registration is a stutter), by
`SerialInv`; `RefineRest` shows that every other action leaves storage alone.

*Metadata* (`MetadataProofs`), for any names, attributes and number of requests.
`Typing`: `TypeOK` says that an entry is stored under the identifier of the object in it.
`OwnMetadataOnly`: `MetadataOfOneObjectOnly`, under `OneKindPlain`, by `DistinctIds`: the identifier
of a database is as long as its two names together and their kind, and if one of the
names has a known length (one part) the other, and where the first ends, is
determined. `collision` shows that hyphens in both kinds break it, so the hypothesis
cannot be left out. `FaithfulLookups`: `LookupIsFaithful`, by `LookupInv`: what is in the
answer matched at some time, and what matched all the time is in the answer, still to be read, or is a
database when the list is not yet at databases; an entry that has gone when the loop reaches it is
one that did not match all the time.

*Credentials* (`CredsProofs`), for any number of concurrent requests and failures.
`Typing`: `TypeOK` needs that a handler's record has the shape its program counter
says. `RevocationDrops`, under `RevocationsDrop`:
`DroppedWhenRevoked` is inductive with "a handler past the drop names a login that has
been issued", since an issued name is not made again. `ConfiguredOnly`: the invariant says,
for each program counter, which parts the handler has already seen, so that the
history `seen` has them. `FaultsBound`, under `RevocationsDrop`: only `Fail` and
`RegistrationFails` enlarge the set of untracked logins, each by at most the login of one
request and with one more failure (`StepLoses`); every other step that takes a login
out of a request's hands leaves it dropped or with a lease (`NothingLost`).

*Lease refinement* (`CredsRefinementProofs`), under `OneAtATime` and `RevocationsDrop`: `CreateUser` is
`Issue`, `RegisterLease` `Hold`, `DropUser` and `DropUserCutShort` are `Drop` (or a stutter, when the
login has been dropped before or is left), `EndLease` `End` (or a stutter); a renewal is a stutter. `SerialInv`
carries it: a handler of a lease in flight finds the lease still there, because nothing else runs.

*Times* (`LeaseTtlProofs`), for all TTLs, increments, delays and numbers of requests:
the invariant `IInv` says of each request in flight what its numbers were computed
from (`CreationGood`, `RenewalGood`): its answer is within what the maximum leaves at
the moment it began, which is not after now. `Bounded` includes the lease without an expiry: Vault's
TTL is 0 only if nothing is left of the maximum at that very second, since what it proposes never is
(`PersistRenewalStep`). `Typing`, `Bounded` and `CreatedTracks`
follow for concurrent requests; `RenewedOutlives` under `OneAtATime` and `Prompt`, with
`Altered`: between the alteration of the login and the store of the lease the login is
valid to the end the handler computed, and Vault's computation, at most `MaxDelay`
later, ends at most that much after.

*Connections* (`ConnPoolsProofs`): `ConnectionsAccountedFor`, for any number of requests
and connections, is inductive with `TypeOK` and "a request that is about to connect
has no connection yet".

*Only model-checked:* the liveness properties (`DeletionCompletes`, `PurgeCompletes`,
`UndisturbedLeaseEnds`, `RepeatableRevocationEnds`, `LeftConnectionsClose`), which are out of the
prover's reach: they need fairness and `ENABLED`. Every safety property that a passing run
checks is proved.

## 5. Not modelled

* the cut of names to 63 bytes (`path-database.go:113`, `path-cluster.go:181`,
  `path-creds.go:77`): identifiers are fresh in every module. The cut reaches the random
  part of an owner's name with database names of 18 characters and more, and
  removes it with 53 and more; logins have 26 characters of a display name and 36 of the
  identifier and are not cut. It is a fact about lengths, with no behaviour over time;
* the `info` path, which answers with the version;
* clones as far as leases are concerned: the logins in a snapshot live on the
  clone's server until they expire, and no lease of the clone's cluster knows of them.

API wiring (`backend.go` schemas, `operations.go`, `help.go`,
`path-info.go`, `main.go`) has no state; the form of SQL statements and DSNs is
checked by the tests against a real Postgres; vendored Vault and `lib/pq` code is
modelled only as the plugin uses it.
