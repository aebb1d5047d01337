--------------------------- MODULE MetadataProofs ---------------------------
(***************************************************************************)
(* Theorems about Metadata for every value of its constants: any names,    *)
(* attributes and values, and any number of requests in flight.            *)
(***************************************************************************)
EXTENDS Metadata, Naturals, SequenceTheorems, TLAPS

(***************************************************************************)
(* Identifiers: the kind in front, the names behind it.                    *)
(***************************************************************************)
AnyPart == Part \cup {"cluster", "database"}
Names(o) == o.cluster \o o.database

\* A sequence of one part.
LEMMA Single ==
  ASSUME NEW S, NEW x \in S
  PROVE  <<x>> \in Seq(S) /\ Len(<<x>>) = 1
<1>1. <<x>> \in Seq(S)
  OBVIOUS
<1>2. Len(<<x>>) = 1
  OBVIOUS
<1> QED
  BY <1>1, <1>2

\* An object's names are sequences of parts, and its identifier, which
\* metadataStorageKey makes of them, has one part more.
LEMMA IdParts ==
  ASSUME NamesOK, NEW o \in Object
  PROVE  /\ o.cluster \in Seq(AnyPart) /\ o.database \in Seq(AnyPart)
         /\ Names(o) \in Seq(AnyPart)
         /\ Id(o) = <<Kind(o)>> \o Names(o)
         /\ Id(o) \in Seq(AnyPart) /\ Len(Id(o)) = Len(Names(o)) + 1
         /\ Id(o)[1] = Kind(o)
         /\ \A i \in 1 .. Len(Names(o)) : Id(o)[i + 1] = Names(o)[i]
<1>1. o.cluster \in Seq(AnyPart) /\ o.database \in Seq(AnyPart)
  <2>1. \A s \in Seq(Part) : s \in Seq(AnyPart)
    BY SeqMonotonic DEF AnyPart
  <2>2. <<>> \in Seq(AnyPart)
    BY EmptySeq
  <2> QED
    BY <2>1, <2>2 DEF NamesOK, Object
<1>2. Names(o) \in Seq(AnyPart)
  BY <1>1, ConcatProperties DEF Names
<1>3. <<Kind(o)>> \in Seq(AnyPart) /\ Len(<<Kind(o)>>) = 1
  <2>1. Kind(o) \in AnyPart
    BY DEF Kind, AnyPart
  <2> QED
    BY <2>1, Single
<1>4. Id(o) = <<Kind(o)>> \o Names(o)
  <2>1. \A s, t, u \in Seq(AnyPart) : (s \o t) \o u = s \o (t \o u)
    BY ConcatAssociative
  <2> QED
    BY <1>1, <1>3, <2>1 DEF Id, Names
<1>5. /\ Id(o) \in Seq(AnyPart) /\ Len(Id(o)) = 1 + Len(Names(o))
      /\ \A i \in 1 .. 1 + Len(Names(o)) :
           Id(o)[i] = IF i <= 1 THEN <<Kind(o)>>[i] ELSE Names(o)[i - 1]
  BY <1>2, <1>3, <1>4, ConcatProperties
<1>6. Len(Names(o)) \in Nat
  BY <1>2, LenProperties
<1>7. Id(o)[1] = Kind(o)
  BY <1>5, <1>6
<1>8. ASSUME NEW i \in 1 .. Len(Names(o)) PROVE Id(o)[i + 1] = Names(o)[i]
  <2>1. i + 1 \in 1 .. 1 + Len(Names(o)) /\ ~(i + 1 <= 1) /\ (i + 1) - 1 = i
    BY <1>6
  <2> QED
    BY <1>5, <2>1
<1> QED
  BY <1>1, <1>2, <1>4, <1>5, <1>6, <1>7, <1>8

\* storage.List with the prefix of a kind finds the objects of that kind.
LEMMA HeadIsKind ==
  ASSUME NamesOK, NEW o \in Object
  PROVE  Head(Id(o)) = Kind(o)
<1>1. Id(o) \in Seq(AnyPart) /\ Id(o) # <<>> /\ Id(o)[1] = Kind(o)
  <2>1. /\ Names(o) \in Seq(AnyPart) /\ Id(o) \in Seq(AnyPart)
        /\ Len(Id(o)) = Len(Names(o)) + 1 /\ Id(o)[1] = Kind(o)
    BY IdParts
  <2>2. Len(Names(o)) \in Nat
    BY <2>1, LenProperties
  <2>3. Len(Id(o)) # 0
    BY <2>1, <2>2
  <2> QED
    BY <2>1, <2>3, EmptySeq
<1> QED
  BY <1>1

\* Names with hyphens among the clusters, or among the databases, but not both.
OneKindPlain ==
  \/ \A c \in Cluster : Len(c) = 1
  \/ \A d \in Database : Len(d) = 1

\* Equal sums with one part equal have the other equal.
LEMMA SumParts ==
  \A a, b, c, d \in Nat : a + b = c + d /\ (a = c \/ b = d) => a = c /\ b = d
  OBVIOUS

\* Then objects have identifiers of their own.
LEMMA DistinctIds ==
  ASSUME NamesOK, OneKindPlain, NEW o \in Object, NEW p \in Object, Id(o) = Id(p)
  PROVE  o = p
<1>1. /\ o = [cluster |-> o.cluster, database |-> o.database]
      /\ p = [cluster |-> p.cluster, database |-> p.database]
      /\ o.cluster \in Cluster /\ p.cluster \in Cluster
      /\ o.database \in Database \cup {<<>>} /\ p.database \in Database \cup {<<>>}
  BY DEF Object
<1>2. /\ o.cluster \in Seq(AnyPart) /\ o.database \in Seq(AnyPart)
      /\ p.cluster \in Seq(AnyPart) /\ p.database \in Seq(AnyPart)
      /\ Names(o) \in Seq(AnyPart) /\ Names(p) \in Seq(AnyPart)
  BY IdParts
<1>3. Kind(o) = Kind(p) /\ Len(Names(o)) = Len(Names(p))
  <2>1. Len(Names(o)) \in Nat /\ Len(Names(p)) \in Nat
    BY <1>2, LenProperties
  <2>2. Id(o)[1] = Kind(o) /\ Len(Id(o)) = Len(Names(o)) + 1
    BY IdParts
  <2>3. Id(p)[1] = Kind(p) /\ Len(Id(p)) = Len(Names(p)) + 1
    BY IdParts
  <2> QED
    BY <2>1, <2>2, <2>3
<1>4. Names(o) = Names(p)
  <2>1. \A i \in 1 .. Len(Names(o)) : Names(o)[i] = Names(p)[i]
    BY <1>3, IdParts
  <2> QED
    BY <1>2, <1>3, <2>1, SeqEqual
<1>5. /\ Len(Names(o)) = Len(o.cluster) + Len(o.database)
      /\ Len(Names(p)) = Len(p.cluster) + Len(p.database)
  BY <1>2, ConcatProperties DEF Names
<1>6. /\ Len(o.cluster) \in Nat /\ Len(o.database) \in Nat
      /\ Len(p.cluster) \in Nat /\ Len(p.database) \in Nat
  BY <1>2, LenProperties
<1>7. Len(o.cluster) + Len(o.database) = Len(p.cluster) + Len(p.database)
  BY <1>3, <1>5
<1>8. Len(o.cluster) = Len(p.cluster) /\ Len(o.database) = Len(p.database)
  <2>1. CASE Kind(o) = "cluster"
    <3>1. o.database = <<>> /\ p.database = <<>>
      BY <1>3, <2>1 DEF Kind
    <3>2. Len(o.database) = Len(p.database)
      BY <3>1
    <3> QED
      BY <1>6, <1>7, <3>2, SumParts
  <2>2. CASE Kind(o) # "cluster"
    <3>1. o.database \in Database /\ p.database \in Database
      BY <1>1, <1>3, <2>2 DEF Kind
    <3>2. Len(o.cluster) = Len(p.cluster) \/ Len(o.database) = Len(p.database)
      BY <1>1, <3>1 DEF OneKindPlain
    <3> QED
      BY <1>6, <1>7, <3>2, SumParts
  <2> QED
    BY <2>1, <2>2
<1>9. o.cluster = p.cluster
  <2>1. \A i \in 1 .. Len(o.cluster) : Names(o)[i] = o.cluster[i] /\ Names(p)[i] = p.cluster[i]
    <3>1. \A i \in 1 .. Len(o.cluster) + Len(o.database) :
            Names(o)[i] = IF i <= Len(o.cluster) THEN o.cluster[i]
                                                 ELSE o.database[i - Len(o.cluster)]
      BY <1>2, ConcatProperties DEF Names
    <3>2. \A i \in 1 .. Len(p.cluster) + Len(p.database) :
            Names(p)[i] = IF i <= Len(p.cluster) THEN p.cluster[i]
                                                 ELSE p.database[i - Len(p.cluster)]
      BY <1>2, ConcatProperties DEF Names
    <3>3. ASSUME NEW i \in 1 .. Len(o.cluster)
          PROVE  /\ i \in 1 .. Len(o.cluster) + Len(o.database) /\ i <= Len(o.cluster)
                 /\ i \in 1 .. Len(p.cluster) + Len(p.database) /\ i <= Len(p.cluster)
      <4>1. \A m, n \in Nat : \A k \in 1 .. m : k \in 1 .. m + n /\ k <= m
        OBVIOUS
      <4>2. i \in 1 .. Len(p.cluster)
        BY <1>8
      <4> QED
        BY <1>6, <4>1, <4>2
    <3> QED
      BY <3>1, <3>2, <3>3
  <2>2. Len(o.cluster) = Len(p.cluster) /\ \A i \in 1 .. Len(o.cluster) : o.cluster[i] = p.cluster[i]
    BY <1>4, <1>8, <2>1
  <2> QED
    BY <1>2, <2>2, SeqEqual
<1>10. o.database = p.database
  <2>1. o.cluster \o o.database = o.cluster \o p.database
    BY <1>4, <1>9 DEF Names
  <2> QED
    BY <1>2, <2>1, ConcatSimplifications
<1> QED
  BY <1>1, <1>9, <1>10

(***************************************************************************)
(* Types.  An entry is stored under the identifier of the object it names: *)
(* that is what makes TypeOK say more than types.                          *)
(***************************************************************************)
LEMMA JobByPc ==
  ASSUME NEW j \in UpdateJob \cup LookJob
  PROVE  /\ j.pc = "loadEntry" => j \in LookJob
         /\ j.pc \in {"loadDatabase", "storeMetadata"} => j \in UpdateJob
  BY DEF UpdateJob, LookJob

\* The registry's steps keep its types.
LEMMA LifeType ==
  ASSUME Life!TypeOK, Life!Next \/ UNCHANGED registry
  PROVE  Life!TypeOK'
<1>1. CASE UNCHANGED registry
  BY <1>1 DEF registry, Life!TypeOK
<1>2. CASE Life!Next
  <2> USE DEF Life!TypeOK, Life!Status, Life!SetCluster, Life!SetDatabase
  <2>1. PICK c \in Cluster :
          \/ Life!RegisterCluster(c) \/ Life!DeleteCluster(c) \/ Life!PurgeCluster(c)
          \/ \E d \in Database : Life!AddDatabase(c, d) \/ Life!DeleteDatabase(c, d)
                                 \/ Life!PurgeDatabase(c, d)
    BY <1>2 DEF Life!Next
  <2>2. CASE Life!RegisterCluster(c) \/ Life!DeleteCluster(c) \/ Life!PurgeCluster(c)
    BY <2>2 DEF Life!RegisterCluster, Life!DeleteCluster, Life!PurgeCluster
  <2>3. ASSUME NEW d \in Database,
               Life!AddDatabase(c, d) \/ Life!DeleteDatabase(c, d) \/ Life!PurgeDatabase(c, d)
        PROVE  Life!TypeOK'
    <3>1. \E s \in Life!Status : dbStatus' = [dbStatus EXCEPT ![c][d] = s]
      BY <2>3 DEF Life!AddDatabase, Life!DeleteDatabase, Life!PurgeDatabase
    <3>2. clusterStatus' = clusterStatus
      BY <2>3 DEF Life!AddDatabase, Life!DeleteDatabase, Life!PurgeDatabase
    <3> QED
      BY <3>1, <3>2
  <2> QED
    BY <2>1, <2>2, <2>3
<1> QED
  BY <1>1, <1>2

\* What the history remembers are objects.
LEMMA RememberType ==
  ASSUME TypeOK, Remember
  PROVE  seen' \in [Request -> [ever : SUBSET Object, always : SUBSET Object]]
<1>1. \A r \in Request : Matching(req[r])' \subseteq Object
  BY DEF Matching
<1> QED
  BY <1>1 DEF Remember, TypeOK

\* A handler's step that leaves the metadata alone.
LEMMA StepType ==
  ASSUME TypeOK, Remember, UNCHANGED <<registry, meta>>, NEW r \in Request,
         NEW job \in UpdateJob \cup LookJob \cup {Idle}, Continue(r, job)
  PROVE  TypeOK'
<1>1. Life!TypeOK'
  BY LifeType DEF TypeOK
<1> QED
  BY <1>1, RememberType DEF TypeOK, Continue

\* One step per handler's call.
LEMMA HandlerType ==
  ASSUME NamesOK, NoClash, TypeOK, Remember, NEW r \in Request, Handler(r)
  PROVE  TypeOK'
<1> USE JobByPc
<1>1. ASSUME NEW o \in Object, NEW data \in Data, PathMetadataUpdate(r, o, data)
      PROVE  TypeOK'
  <2> DEFINE job == [pc |-> IF Kind(o) = "cluster" THEN "storeMetadata" ELSE "loadDatabase",
                     entry |-> [object |-> o, data |-> data]]
  <2>1. job \in UpdateJob /\ Continue(r, job)
    BY <1>1 DEF PathMetadataUpdate, UpdateJob, Entry
  <2> HIDE DEF job
  <2> QED
    BY <1>1, <2>1, StepType DEF PathMetadataUpdate
<1>2. CASE LoadDatabase(r)
  <2> DEFINE job == [req[r] EXCEPT !.pc = "storeMetadata"]
  <2>1. req[r] \in UpdateJob
    BY <1>2 DEF LoadDatabase, TypeOK
  <2>2. job \in UpdateJob
    BY <2>1 DEF UpdateJob
  <2>3. Continue(r, job) \/ Continue(r, Idle)
    BY <1>2 DEF LoadDatabase, Return
  <2> HIDE DEF job
  <2> QED
    BY <1>2, <2>2, <2>3, StepType DEF LoadDatabase
<1>3. CASE StoreMetadata(r)
  <2>1. req[r] \in UpdateJob
    BY <1>3 DEF StoreMetadata, TypeOK
  <2>2. req[r].entry \in Entry /\ Id(req[r].entry.object) \in MetaId
    BY <2>1 DEF UpdateJob, Entry, MetaId
  <2>3. Life!TypeOK'
    BY <1>3, LifeType DEF TypeOK, StoreMetadata
  <2>4. /\ meta' \in [MetaId -> Entry \cup {Absent}]
        /\ \A id \in MetaId : meta'[id] # Absent => Id(meta'[id].object) = id
    BY <1>3, <2>2 DEF TypeOK, StoreMetadata
  <2>5. req' \in [Request -> UpdateJob \cup LookJob \cup {Idle}]
    BY <1>3 DEF TypeOK, StoreMetadata, Return, Continue
  <2> QED
    BY <2>3, <2>4, <2>5, RememberType DEF TypeOK
<1>4. ASSUME NEW kind \in {"cluster", "database"}, NEW query \in Data,
             PathMetadataRead(r, kind, query)
      PROVE  TypeOK'
  <2> DEFINE job == [pc |-> "loadEntry", kind |-> kind, list |-> FALSE,
                     query |-> query, todo |-> Ids(kind), answer |-> {}]
  <2>1. job \in LookJob /\ Continue(r, job)
    BY <1>4 DEF PathMetadataRead, LookJob, Ids
  <2> HIDE DEF job
  <2> QED
    BY <1>4, <2>1, StepType DEF PathMetadataRead
<1>5. CASE PathMetadataList(r)
  <2> DEFINE job == [pc |-> "loadEntry", kind |-> "cluster", list |-> TRUE,
                     query |-> Anything, todo |-> Ids("cluster"), answer |-> {}]
  <2>1. job \in LookJob /\ Continue(r, job)
    BY <1>5 DEF PathMetadataList, LookJob, Ids
  <2> HIDE DEF job
  <2> QED
    BY <1>5, <2>1, StepType DEF PathMetadataList
<1>6. ASSUME NEW id \in MetaId, LoadEntry(r, id) PROVE TypeOK'
  <2> DEFINE found == IF meta[id] # Absent /\ MatchAttrs(meta[id].data, req[r].query)
                      THEN {meta[id].object} ELSE {}
             job == [req[r] EXCEPT !.todo = @ \ {id}, !.answer = @ \cup found]
  <2>1. req[r] \in LookJob
    BY <1>6 DEF LoadEntry, Looks, TypeOK
  <2>2. found \subseteq Object
    BY DEF TypeOK, Entry
  <2>3. Continue(r, job)
    BY <1>6 DEF LoadEntry
  <2> HIDE DEF found
  <2>4. job \in LookJob
    BY <2>1, <2>2 DEF LookJob
  <2> HIDE DEF job
  <2> QED
    BY <1>6, <2>3, <2>4, StepType DEF LoadEntry
<1>7. CASE ListDatabases(r)
  <2> DEFINE job == [req[r] EXCEPT !.kind = "database", !.todo = Ids("database")]
  <2>1. req[r] \in LookJob
    BY <1>7 DEF ListDatabases, Looks, TypeOK
  <2>2. job \in LookJob /\ Continue(r, job)
    BY <1>7, <2>1 DEF ListDatabases, LookJob, Ids
  <2> HIDE DEF job
  <2> QED
    BY <1>7, <2>2, StepType DEF ListDatabases
<1>8. CASE Answer(r)
  BY <1>8, StepType DEF Answer, Return
<1>9. CASE Fail(r)
  BY <1>9, StepType DEF Fail, Return
<1> QED
  BY <1>1, <1>2, <1>3, <1>4, <1>5, <1>6, <1>7, <1>8, <1>9 DEF Handler

\* Every step keeps the types.
LEMMA NextType ==
  ASSUME NamesOK, NoClash, TypeOK, [Next]_vars
  PROVE  TypeOK'
<1>1. CASE UNCHANGED vars
  BY <1>1 DEF vars, TypeOK, Life!TypeOK
<1>2. ASSUME NEW r \in Request, Handler(r), Remember PROVE TypeOK'
  BY <1>2, HandlerType
<1>3. ASSUME NEW id \in MetaId, PathMetadataDelete(id), Remember PROVE TypeOK'
  <2>1. Life!TypeOK'
    BY <1>3, LifeType DEF TypeOK, PathMetadataDelete
  <2> QED
    BY <1>3, <2>1, RememberType DEF TypeOK, PathMetadataDelete
<1>4. ASSUME Life!Next, UNCHANGED <<meta, req>>, Remember PROVE TypeOK'
  <2>1. Life!TypeOK'
    BY <1>4, LifeType DEF TypeOK
  <2> QED
    BY <1>4, <2>1, RememberType DEF TypeOK
<1> QED
  BY <1>1, <1>2, <1>3, <1>4 DEF Next

\* Whatever metadata is stored and removed, and by however many requests, an
\* entry stands under the identifier of the object it names.
THEOREM Typing == Spec => []TypeOK
<1>1. Init => TypeOK
  <2>1. Init => Life!TypeOK
    BY DEF Init, Life!Init, Life!TypeOK, Life!Status
  <2> QED
    BY <2>1 DEF Init, TypeOK
<1>2. TypeOK /\ [Next]_vars => TypeOK'
  BY NextType, NamesOK, NoClash
<1> QED
  BY <1>1, <1>2, PTL DEF Spec

\* What is stored for one object replaces nothing of another, as long as
\* hyphens are used on one side only.
THEOREM OwnMetadataOnly ==
  ASSUME OneKindPlain
  PROVE  Spec => MetadataOfOneObjectOnly
<1> DEFINE Action ==
      \A r \in Request : StoreMetadata(r) =>
        \A id \in MetaId :
          meta[id] # Absent /\ meta[id].object # req[r].entry.object => meta'[id] = meta[id]
<1>1. ASSUME TypeOK, [Next]_vars PROVE [Action]_vars
  <2>1. ASSUME NEW r \in Request, StoreMetadata(r), NEW id \in MetaId,
               meta[id] # Absent, meta[id].object # req[r].entry.object
        PROVE  meta'[id] = meta[id]
    <3>1. req[r] \in UpdateJob
      BY <1>1, <2>1, JobByPc DEF StoreMetadata, TypeOK
    <3>2. req[r].entry.object \in Object
      BY <3>1 DEF UpdateJob, Entry
    <3>3. meta[id].object \in Object /\ Id(meta[id].object) = id
      BY <1>1, <2>1 DEF TypeOK, Entry
    <3>4. Id(req[r].entry.object) # id
      BY <2>1, <3>2, <3>3, NamesOK, OneKindPlain, DistinctIds
    <3> QED
      BY <1>1, <2>1, <3>4 DEF StoreMetadata, TypeOK
  <2> QED
    BY <2>1
<1>2. MetadataOfOneObjectOnly <=> [][Action]_vars
  BY DEF MetadataOfOneObjectOnly
<1> QED
  BY <1>1, <1>2, Typing, PTL DEF Spec

(***************************************************************************)
(* Lookups.  What has matched all along is in the answer, or its entry has *)
(* still to be read, now or in the second half of a list.                  *)
(***************************************************************************)
LookGood(r) ==
  /\ \A id \in req[r].todo : Head(id) = req[r].kind
  /\ req[r].answer \subseteq seen[r].ever
  /\ \A o \in seen[r].always :
       \/ o \in req[r].answer
       \/ Id(o) \in req[r].todo
       \/ req[r].list /\ req[r].kind = "cluster" /\ Kind(o) = "database"

LookupInv == \A r \in Request : Looks(r) => LookGood(r)

\* An object matches by the entry under its own identifier.
LEMMA MatchingLater ==
  ASSUME TypeOK', NEW r \in Request, NEW o \in Matching(req[r])'
  PROVE  /\ o \in Object /\ Id(o) \in MetaId
         /\ meta'[Id(o)] # Absent /\ meta'[Id(o)].object = o
         /\ Kind(o) = req'[r].kind \/ req'[r].list
         /\ MatchAttrs(meta'[Id(o)].data, req'[r].query)
<1>1. PICK id \in MetaId : /\ meta'[id] # Absent /\ meta'[id].object = o
                           /\ Kind(o) = req'[r].kind \/ req'[r].list
                           /\ MatchAttrs(meta'[id].data, req'[r].query)
  BY DEF Matching
<1>2. o \in Object /\ Id(o) = id
  BY <1>1 DEF TypeOK, Matching
<1> QED
  BY <1>1, <1>2

\* What the history holds of a lookup after a step.
LEMMA SeenLater ==
  ASSUME Remember, NEW r \in Request, Looks(r)'
  PROVE  /\ Looks(r) => /\ seen'[r].ever = seen[r].ever \cup Matching(req[r])'
                        /\ seen'[r].always = seen[r].always \cap Matching(req[r])'
         /\ ~Looks(r) => /\ seen'[r].ever = Matching(req[r])'
                         /\ seen'[r].always = Matching(req[r])'
  BY DEF Remember

\* A lookup that another request, a removal or the registry passes by.
LEMMA OtherLooks ==
  ASSUME LookupInv, Remember, NEW r \in Request, req'[r] = req[r], Looks(r)'
  PROVE  LookGood(r)'
<1>1. Looks(r) /\ LookGood(r)
  BY DEF Looks, LookupInv
<1>2. seen[r].ever \subseteq seen'[r].ever /\ seen'[r].always \subseteq seen[r].always
  BY <1>1, SeenLater
<1> QED
  BY <1>1, <1>2 DEF LookGood

\* A handler's step owes what is good of its own lookup.
LEMMA OwnLooks ==
  ASSUME TypeOK, LookupInv, Remember, NEW r \in Request, NEW job, Continue(r, job),
         Looks(r)' => LookGood(r)'
  PROVE  LookupInv'
<1>1. \A q \in Request \ {r} : req'[q] = req[q]
  BY DEF Continue, TypeOK
<1>2. ASSUME NEW q \in Request, Looks(q)' PROVE LookGood(q)'
  BY <1>1, <1>2, OtherLooks
<1> QED
  BY <1>2 DEF LookupInv

\* A lookup and a list begin with the entries of a kind.
LEMMA BeginLooks ==
  ASSUME NamesOK, TypeOK, TypeOK', LookupInv, Remember, UNCHANGED meta, NEW r \in Request,
         req[r] = Idle, NEW kind \in {"cluster", "database"}, NEW list \in BOOLEAN,
         NEW query, list => kind = "cluster",
         Continue(r, [pc |-> "loadEntry", kind |-> kind, list |-> list,
                      query |-> query, todo |-> Ids(kind), answer |-> {}])
  PROVE  LookupInv'
<1> DEFINE job == [pc |-> "loadEntry", kind |-> kind, list |-> list,
                   query |-> query, todo |-> Ids(kind), answer |-> {}]
<1>1. req'[r] = job
  BY DEF Continue, TypeOK
<1>2. ASSUME Looks(r)' PROVE LookGood(r)'
  <2>1. seen'[r].ever = Matching(req[r])' /\ seen'[r].always = Matching(req[r])'
    BY <1>2, SeenLater DEF Looks
  <2>2. ASSUME NEW o \in seen'[r].always
        PROVE  Id(o) \in Ids(kind) \/ (list /\ kind = "cluster" /\ Kind(o) = "database")
    <3>1. /\ o \in Object /\ Id(o) \in MetaId /\ meta[Id(o)] # Absent
          /\ Kind(o) = kind \/ list
      BY <1>1, <2>1, <2>2, MatchingLater
    <3>2. Head(Id(o)) = Kind(o) /\ Kind(o) \in {"cluster", "database"}
      BY <3>1, HeadIsKind DEF Kind
    <3> QED
      BY <3>1, <3>2 DEF Ids
  <2> QED
    BY <1>1, <2>1, <2>2 DEF LookGood, Ids
<1> QED
  BY <1>2, OwnLooks

\* The loop reads one entry: what matches is answered, what has gone or no
\* longer matches has not matched all along.
LEMMA LoadEntryLooks ==
  ASSUME NamesOK, TypeOK, TypeOK', LookupInv, Remember, NEW r \in Request,
         NEW id \in MetaId, LoadEntry(r, id)
  PROVE  LookupInv'
<1> DEFINE found == IF meta[id] # Absent /\ MatchAttrs(meta[id].data, req[r].query)
                    THEN {meta[id].object} ELSE {}
           job == [req[r] EXCEPT !.todo = @ \ {id}, !.answer = @ \cup found]
<1>1. req[r] \in LookJob /\ Looks(r) /\ LookGood(r) /\ id \in req[r].todo
  BY JobByPc DEF LoadEntry, Looks, TypeOK, LookupInv
<1>2. SUFFICES ASSUME Looks(r)' PROVE LookGood(r)'
  <2>1. Continue(r, job)
    BY DEF LoadEntry
  <2> QED
    BY <2>1, OwnLooks
<1>3. req'[r] = job
  BY DEF LoadEntry, Continue, TypeOK
<1> HIDE DEF found
<1>4. /\ job.pc = req[r].pc /\ job.kind = req[r].kind /\ job.list = req[r].list
      /\ job.query = req[r].query
      /\ job.todo = req[r].todo \ {id} /\ job.answer = req[r].answer \cup found
  BY <1>1 DEF LookJob
<1> HIDE DEF job
<1>5. meta' = meta
  BY DEF LoadEntry
<1>6. found \subseteq Matching(req[r])'
  <2>1. ASSUME meta[id] # Absent, MatchAttrs(meta[id].data, req[r].query)
        PROVE  meta[id].object \in Matching(req[r])'
    <3>1. meta[id].object \in Object /\ Id(meta[id].object) = id
      BY <2>1 DEF TypeOK, Entry
    <3>2. Kind(meta[id].object) = req[r].kind
      BY <1>1, <3>1, HeadIsKind DEF LookGood
    <3> QED
      BY <1>3, <1>4, <1>5, <2>1, <3>1, <3>2 DEF Matching
  <2> QED
    BY <2>1 DEF found
<1>7. /\ seen'[r].ever = seen[r].ever \cup Matching(req[r])'
      /\ seen'[r].always = seen[r].always \cap Matching(req[r])'
  BY <1>1, <1>2, SeenLater
<1>8. ASSUME NEW o \in seen'[r].always, Id(o) = id PROVE o \in found
  BY <1>3, <1>4, <1>5, <1>7, <1>8, MatchingLater DEF found
<1> QED
  BY <1>1, <1>3, <1>4, <1>6, <1>7, <1>8 DEF LookGood

\* The list has answered with the clusters and goes on with the databases.
LEMMA ListDatabasesLooks ==
  ASSUME NamesOK, TypeOK, TypeOK', LookupInv, Remember, NEW r \in Request,
         ListDatabases(r)
  PROVE  LookupInv'
<1> DEFINE job == [req[r] EXCEPT !.kind = "database", !.todo = Ids("database")]
<1>1. /\ req[r] \in LookJob /\ Looks(r) /\ LookGood(r)
      /\ req[r].list /\ req[r].kind = "cluster" /\ req[r].todo = {}
  BY JobByPc DEF ListDatabases, Looks, TypeOK, LookupInv
<1>2. SUFFICES ASSUME Looks(r)' PROVE LookGood(r)'
  <2>1. Continue(r, job)
    BY DEF ListDatabases
  <2> QED
    BY <2>1, OwnLooks
<1>3. /\ job.pc = req[r].pc /\ job.kind = "database" /\ job.list = req[r].list
      /\ job.query = req[r].query
      /\ job.todo = Ids("database") /\ job.answer = req[r].answer
  BY <1>1 DEF LookJob
<1>4. req'[r] = job
  BY DEF ListDatabases, Continue, TypeOK
<1> HIDE DEF job
<1>5. /\ seen'[r].ever = seen[r].ever \cup Matching(req[r])'
      /\ seen'[r].always = seen[r].always \cap Matching(req[r])'
  BY <1>1, <1>2, SeenLater
<1>6. ASSUME NEW o \in seen'[r].always
      PROVE  o \in req[r].answer \/ Id(o) \in Ids("database")
  <2>1. o \in Object /\ Id(o) \in MetaId /\ meta[Id(o)] # Absent
    BY <1>5, <1>6, MatchingLater DEF ListDatabases
  <2>2. o \in req[r].answer \/ Kind(o) = "database"
    BY <1>1, <1>5, <1>6 DEF LookGood
  <2>3. Head(Id(o)) = Kind(o)
    BY <2>1, HeadIsKind
  <2> QED
    BY <2>1, <2>2, <2>3 DEF Ids
<1>7. \A i \in req'[r].todo : Head(i) = req'[r].kind
  BY <1>3, <1>4 DEF Ids
<1>8. req'[r].answer \subseteq seen'[r].ever
  BY <1>1, <1>3, <1>4, <1>5 DEF LookGood
<1> QED
  BY <1>3, <1>4, <1>6, <1>7, <1>8 DEF LookGood

\* The other calls of handlers end a lookup, or are no part of one.
LEMMA HandlerLooks ==
  ASSUME NamesOK, NoClash, TypeOK, TypeOK', LookupInv, Remember,
         NEW r \in Request, Handler(r)
  PROVE  LookupInv'
<1>1. ASSUME NEW job, Continue(r, job), job = Idle \/ job \in UpdateJob PROVE LookupInv'
  <2>1. req'[r] = job
    BY <1>1 DEF Continue, TypeOK
  <2>2. ~Looks(r)'
    BY <1>1, <2>1 DEF Looks, UpdateJob
  <2> QED
    BY <1>1, <2>2, OwnLooks
<1>2. ASSUME NEW o \in Object, NEW data \in Data, PathMetadataUpdate(r, o, data)
      PROVE  LookupInv'
  <2> DEFINE job == [pc |-> IF Kind(o) = "cluster" THEN "storeMetadata" ELSE "loadDatabase",
                     entry |-> [object |-> o, data |-> data]]
  <2>1. job \in UpdateJob /\ Continue(r, job)
    BY <1>2 DEF PathMetadataUpdate, UpdateJob, Entry
  <2> HIDE DEF job
  <2> QED
    BY <1>1, <2>1
<1>3. CASE LoadDatabase(r)
  <2> DEFINE job == [req[r] EXCEPT !.pc = "storeMetadata"]
  <2>1. req[r] \in UpdateJob
    BY <1>3, JobByPc DEF LoadDatabase, TypeOK
  <2>2. job \in UpdateJob
    BY <2>1 DEF UpdateJob
  <2>3. Continue(r, job) \/ Continue(r, Idle)
    BY <1>3 DEF LoadDatabase, Return
  <2> HIDE DEF job
  <2> QED
    BY <1>1, <2>2, <2>3
<1>4. ASSUME NEW kind \in {"cluster", "database"}, NEW query \in Data,
             PathMetadataRead(r, kind, query)
      PROVE  LookupInv'
  BY <1>4, BeginLooks DEF PathMetadataRead
<1>5. CASE PathMetadataList(r)
  BY <1>5, BeginLooks DEF PathMetadataList
<1>6. ASSUME NEW id \in MetaId, LoadEntry(r, id) PROVE LookupInv'
  BY <1>6, LoadEntryLooks
<1>7. CASE ListDatabases(r)
  BY <1>7, ListDatabasesLooks
<1>8. CASE StoreMetadata(r) \/ Answer(r) \/ Fail(r)
  BY <1>1, <1>8 DEF StoreMetadata, Answer, Fail, Return
<1> QED
  BY <1>2, <1>3, <1>4, <1>5, <1>6, <1>7, <1>8 DEF Handler

\* While entries come and go, and whatever the number of lookups: an answer
\* has every object that matched all along and none that never did.
THEOREM FaithfulLookups == Spec => []LookupIsFaithful
<1>1. Init => LookupInv
  BY DEF Init, LookupInv, Looks
<1>2. ASSUME TypeOK, TypeOK', LookupInv, [Next]_vars PROVE LookupInv'
  <2>1. CASE UNCHANGED vars
    BY <1>2, <2>1 DEF vars, LookupInv, Looks, LookGood
  <2>2. ASSUME NEW r \in Request, Handler(r), Remember PROVE LookupInv'
    BY <1>2, <2>2, NamesOK, NoClash, HandlerLooks
  <2>3. ASSUME UNCHANGED req, Remember PROVE LookupInv'
    BY <1>2, <2>3, OtherLooks DEF LookupInv
  <2> QED
    BY <1>2, <2>1, <2>2, <2>3 DEF Next, PathMetadataDelete
<1>3. TypeOK /\ LookupInv => LookupIsFaithful
  BY DEF LookupInv, LookGood, LookupIsFaithful, Answered
<1> QED
  BY <1>1, <1>2, <1>3, Typing, PTL DEF Spec
=============================================================================
