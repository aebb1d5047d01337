------------------------------ MODULE Metadata ------------------------------
(***************************************************************************)
(* Metadata of clusters and databases: stored under an identifier made of  *)
(* the object's names, looked up by attributes, removed by identifier, and *)
(* untouched by the deletion or purge of the object.  The registry is seen *)
(* through Lifecycle, whose steps come between the calls of the handlers.  *)
(*                                                                         *)
(* Names may contain the hyphen that joins them in an identifier: a name   *)
(* is the sequence of its parts between hyphens.                           *)
(***************************************************************************)
EXTENDS Sequences

CONSTANTS
  Part,                 \* what hyphens separate in names
  Cluster, Database,    \* names: non-empty sequences of parts
  Attribute, Value,     \* what metadata says
  Request,              \* request slots
  Absent, Idle

ASSUME NamesOK == Cluster \cup Database \subseteq Seq(Part) \ {<<>>}

VARIABLES
  clusterStatus, dbStatus,   \* the registry, see Lifecycle
  meta,                      \* storage: meta/<id>
  req,                       \* the requests in flight
  seen                       \* history: what each lookup might have found

Life == INSTANCE Lifecycle

vars == <<clusterStatus, dbStatus, meta, req, seen>>
registry == <<clusterStatus, dbStatus>>

\* A cluster's metadata has no database name.
Object == [cluster : Cluster, database : Database \cup {<<>>}]
Kind(o) == IF o.database = <<>> THEN "cluster" ELSE "database"
IdOfCluster(o) == <<Kind(o)>> \o o.cluster   \* mutant: the database is left out
Id(o) == <<Kind(o)>> \o o.cluster \o o.database
MetaId == {Id(o) : o \in Object}

\* At least one pair is stored, or asked for.
Data == UNION {[S -> Value] : S \in SUBSET Attribute \ {{}}}
Anything == <<>>
Entry == [object : Object, data : Data]

MatchAttrs(target, source) ==
  \A k \in DOMAIN source : k \in DOMAIN target /\ target[k] = source[k]

UpdateJob == [pc : {"loadDatabase", "storeMetadata"}, entry : Entry]

\* A lookup goes through one kind of objects, a list through both; answer is
\* what it has found so far.
LookJob == [pc : {"loadEntry"}, kind : {"cluster", "database"},
            list : BOOLEAN, query : Data \cup {Anything},
            todo : SUBSET MetaId, answer : SUBSET Object]

ASSUME NoClash == Absent \notin Entry /\ Idle \notin UpdateJob \cup LookJob

Looks(r) == req[r] # Idle /\ req[r].pc = "loadEntry"

\* The objects a lookup has to answer with, as storage is now.
Matching(job) ==
  {o \in Object : \E id \in MetaId :
     /\ meta[id] # Absent /\ meta[id].object = o
     /\ Kind(o) = job.kind \/ job.list
     /\ MatchAttrs(meta[id].data, job.query)}

\* An entry is stored under the identifier of the object it names, which is
\* what pathMetadataRead answers with.
TypeOK ==
  /\ Life!TypeOK
  /\ meta \in [MetaId -> Entry \cup {Absent}]
  /\ \A id \in MetaId : meta[id] # Absent => Id(meta[id].object) = id
  /\ req \in [Request -> UpdateJob \cup LookJob \cup {Idle}]
  /\ seen \in [Request -> [ever : SUBSET Object, always : SUBSET Object]]

Init ==
  /\ Life!Init
  /\ meta = [id \in MetaId |-> Absent]
  /\ req = [r \in Request |-> Idle]
  /\ seen = [r \in Request |-> [ever |-> {}, always |-> {}]]

Continue(r, job) == req' = [req EXCEPT ![r] = job]
Return(r) == Continue(r, Idle)
Ids(kind) == {id \in MetaId : Head(id) = kind /\ meta[id] # Absent}

(***************************************************************************)
(* metadata, update: pathMetadataUpdate.  Only that the cluster and the    *)
(* database are there is asked, not whether they are deleted.              *)
(***************************************************************************)
PathMetadataUpdate(r, o, data) ==
  /\ req[r] = Idle
  /\ clusterStatus[o.cluster] # "absent"
  /\ Continue(r, [pc |-> IF Kind(o) = "cluster" THEN "storeMetadata" ELSE "loadDatabase",
                  entry |-> [object |-> o, data |-> data]])
  /\ UNCHANGED <<registry, meta>>

LoadDatabase(r) ==
  /\ req[r] # Idle /\ req[r].pc = "loadDatabase"
  /\ LET o == req[r].entry.object IN
       IF dbStatus[o.cluster][o.database] = "absent"
       THEN Return(r)
       ELSE Continue(r, [req[r] EXCEPT !.pc = "storeMetadata"])
  /\ UNCHANGED <<registry, meta>>

\* mutant: the entry does not say which database it is for
StoreMetadataUnnamed(r) ==
  /\ req[r] # Idle /\ req[r].pc = "storeMetadata"
  /\ meta' = [meta EXCEPT ![Id(req[r].entry.object)] =
                [req[r].entry EXCEPT !.object.database = <<>>]]
  /\ Return(r)
  /\ UNCHANGED registry

StoreMetadata(r) ==
  /\ req[r] # Idle /\ req[r].pc = "storeMetadata"
  /\ meta' = [meta EXCEPT ![Id(req[r].entry.object)] = req[r].entry]
  /\ Return(r)
  /\ UNCHANGED registry

\* metadata/<id>, delete: pathMetadataDelete, a single call.
PathMetadataDelete(id) ==
  /\ meta' = [meta EXCEPT ![id] = Absent]
  /\ UNCHANGED <<registry, req>>

(***************************************************************************)
(* metadata, read and list: pathMetadataRead and pathMetadataList.         *)
(***************************************************************************)
PathMetadataRead(r, kind, query) ==
  /\ req[r] = Idle
  /\ Continue(r, [pc |-> "loadEntry", kind |-> kind, list |-> FALSE,
                  query |-> query, todo |-> Ids(kind), answer |-> {}])
  /\ UNCHANGED <<registry, meta>>

PathMetadataList(r) ==
  /\ req[r] = Idle
  /\ Continue(r, [pc |-> "loadEntry", kind |-> "cluster", list |-> TRUE,
                  query |-> Anything, todo |-> Ids("cluster"), answer |-> {}])
  /\ UNCHANGED <<registry, meta>>

LoadEntryOrReturn(r, id) ==   \* mutant: the loop ends at an entry that is gone
  /\ Looks(r) /\ id \in req[r].todo
  /\ LET found == IF meta[id] # Absent /\ MatchAttrs(meta[id].data, req[r].query)
                  THEN {meta[id].object} ELSE {}
     IN  Continue(r, [req[r] EXCEPT !.todo = IF meta[id] = Absent THEN {} ELSE @ \ {id},
                                    !.answer = @ \cup found])
  /\ UNCHANGED <<registry, meta>>

\* An entry that has gone since is skipped.
LoadEntry(r, id) ==
  /\ Looks(r) /\ id \in req[r].todo
  /\ LET found == IF meta[id] # Absent /\ MatchAttrs(meta[id].data, req[r].query)
                  THEN {meta[id].object} ELSE {}
     IN  Continue(r, [req[r] EXCEPT !.todo = @ \ {id}, !.answer = @ \cup found])
  /\ UNCHANGED <<registry, meta>>

\* The list goes on with the databases.
ListDatabases(r) ==
  /\ Looks(r) /\ req[r].list
  /\ req[r].kind = "cluster" /\ req[r].todo = {}
  /\ Continue(r, [req[r] EXCEPT !.kind = "database", !.todo = Ids("database")])
  /\ UNCHANGED <<registry, meta>>

Answered(r) ==
  /\ Looks(r) /\ req[r].todo = {}
  /\ req[r].list => req[r].kind = "database"

Answer(r) ==
  /\ Answered(r)
  /\ Return(r)
  /\ UNCHANGED <<registry, meta>>

\* A call fails, the request is cancelled, or the plugin dies.
Fail(r) ==
  /\ req[r] # Idle
  /\ Return(r)
  /\ UNCHANGED <<registry, meta>>

(***************************************************************************)
(* The history of a lookup: what has matched at some time since it began,  *)
(* and what has all the time.                                              *)
(***************************************************************************)
Remember ==
  seen' = [r \in Request |->
    LET now == Matching(req[r])' IN
      IF ~Looks(r)' THEN [ever |-> {}, always |-> {}]
      ELSE IF ~Looks(r) THEN [ever |-> now, always |-> now]
      ELSE [ever |-> seen[r].ever \cup now, always |-> seen[r].always \cap now]]

Handler(r) ==
  \/ \E o \in Object, data \in Data : PathMetadataUpdate(r, o, data)
  \/ LoadDatabase(r) \/ StoreMetadata(r)
  \/ \E kind \in {"cluster", "database"}, query \in Data : PathMetadataRead(r, kind, query)
  \/ PathMetadataList(r)
  \/ (\E id \in MetaId : LoadEntry(r, id))
  \/ ListDatabases(r) \/ Answer(r) \/ Fail(r)

Next ==
  /\ \/ \E r \in Request : Handler(r)
     \/ \E id \in MetaId : PathMetadataDelete(id)
     \/ Life!Next /\ UNCHANGED <<meta, req>>
  /\ Remember

Spec == Init /\ [][Next]_vars

(***************************************************************************)
(* Properties.                                                             *)
(***************************************************************************)

\* A lookup reads the entries one by one while others store and remove them
\* (pathMetadataRead and pathMetadataList skip those that have gone): it
\* answers with every object that matched all along and with none that never
\* did.
LookupIsFaithful ==
  \A r \in Request : Answered(r) =>
    seen[r].always \subseteq req[r].answer /\ req[r].answer \subseteq seen[r].ever

\* docs/metadata.md: "when both "cluster" and "database" attributes are
\* specified the metadata will be associated with the database only": what is
\* stored for one object leaves the metadata of every other alone.
MetadataOfOneObjectOnly ==
  [][\A r \in Request : StoreMetadata(r) =>
       \A id \in MetaId :
         meta[id] # Absent /\ meta[id].object # req[r].entry.object
           => meta'[id] = meta[id]]_vars

\* docs/metadata.md: "This metadata can be used to lookup the configured
\* objects": what a lookup finds is registered when it is found.
ConfiguredObjectsFound ==
  [][\A r \in Request : Looks(r) /\ Looks(r)' =>
       \A o \in req'[r].answer \ req[r].answer :
         /\ clusterStatus[o.cluster] # "absent"
         /\ Kind(o) = "database" => dbStatus[o.cluster][o.database] # "absent"]_vars
=============================================================================
