------------------------- MODULE ServiceCatalogProofs -------------------------
(***************************************************************************)
(* Proofs about the mocked service catalog: for any models, names and      *)
(* versions it shows the last model exported, and the services accepted    *)
(* since can be compiled.                                                  *)
(***************************************************************************)
EXTENDS ServiceCatalog, TLAPS

\* What an exporter that runs has sent so far.
Progress ==
    pc = "export" =>
        /\ ~complete /\ fresh = {}
        /\ \A name \in Names : model[name] # Nothing /\ name \notin pending => entities[name] # Nothing

\* The services accepted since the last export name entities of its model.
FreshAreDefined ==
    \A id \in fresh :
        /\ versions # Nothing
        /\ services[id] # Nothing
        /\ services[id].version \in Versions
        /\ versions[<<services[id].name, services[id].version>>] # Nothing

CatalogInv == TypeOK /\ CatalogIsTheModels /\ Progress /\ FreshAreDefined


\* One call of the exporter adds entities of the model, whichever of the two it is.
LEMMA ExporterTypes ==
    ASSUME TypeOK, NEW name \in Names, CreateEntity(name) \/ UpdateEntityVersions(name)
    PROVE  /\ entities' \in [Names -> Entities \cup {Nothing}] /\ entities' # Nothing
           /\ versions' \in [Keys -> Entities \cup {Nothing}] /\ versions' # Nothing
           /\ model[name] \in Bindings /\ model \in Models
<1> USE NothingAssumption
<1>1. model \in Models /\ model[name] # Nothing /\ pc = "export"
  BY DEF TypeOK, CreateEntity, UpdateEntityVersions
<1>2. model[name] \in Bindings /\ model[name].default \in Versions
  BY <1>1, ModelsAssumption DEF Bindings
<1>3. /\ entities \in [Names -> Entities \cup {Nothing}]
      /\ versions \in [Keys -> Entities \cup {Nothing}]
  BY <1>1 DEF TypeOK
<1>4. \A version \in Versions : Entity(name, version) \in Entities
  BY <1>1 DEF Entity, Entities
<1>5. CASE CreateEntity(name)
  BY <1>1, <1>2, <1>3, <1>4, <1>5 DEF CreateEntity
<1>6. CASE UpdateEntityVersions(name)
  <2>1. \A key \in Keys : key[1] = name /\ key[2] \in model[name].versions =>
            Entity(name, key[2]) \in Entities
    BY <1>4 DEF Keys
  <2>2. versions' \in [Keys -> Entities \cup {Nothing}]
    BY <1>3, <1>6, <2>1 DEF UpdateEntityVersions
  <2> QED
    BY <1>1, <1>2, <1>3, <1>4, <1>6, <2>2 DEF UpdateEntityVersions
<1> QED
  BY <1>5, <1>6

\* The variables keep their types.
LEMMA TypeStep == TypeOK /\ [Next]_vars => TypeOK'
<1> SUFFICES ASSUME TypeOK, [Next]_vars PROVE TypeOK'
  OBVIOUS
<1> USE NothingAssumption DEF TypeOK, Outcomes
<1>1. CASE ExportCompileFails
  BY <1>1 DEF ExportCompileFails, catalog
<1>2. ASSUME NEW exported \in Models, ExportServiceEntities(exported) PROVE TypeOK'
  <2>1. /\ NoEntities \in [Names -> Entities \cup {Nothing}]
        /\ NoVersions \in [Keys -> Entities \cup {Nothing}]
    BY DEF NoEntities, NoVersions
  <2> QED
    BY <1>2, <2>1 DEF ExportServiceEntities, Reset
<1>3. ASSUME NEW name \in Names, CreateEntity(name) \/ UpdateEntityVersions(name) PROVE TypeOK'
  <2>1. /\ UNCHANGED <<model, pc, services, outcome, complete, fresh>>
        /\ pc = "export" /\ pending' = pending \ {name}
    BY <1>3 DEF CreateEntity, UpdateEntityVersions
  <2> QED
    BY <1>3, <2>1, ExporterTypes
<1>4. CASE ExporterFails
  BY <1>4 DEF ExporterFails, catalog
<1>5. CASE ExportReturns
  BY <1>5 DEF ExportReturns, catalog
<1>6. ASSUME NEW id \in Ids, NEW name \in Names, NEW version \in Versions \cup {Nothing},
             AddService(id, name, version) \/ CreateService(id, name, version)
      PROVE  TypeOK'
  <2>1. \A error \in Outcomes : Raise(error) => TypeOK'
    BY DEF Raise, catalog
  <2>2. \A of \in Versions \cup {Nothing} : AddService(id, name, of) => TypeOK'
    <3> SUFFICES ASSUME NEW of \in Versions \cup {Nothing}, AddService(id, name, of),
                        outcome' # "ValueError"
                 PROVE  TypeOK'
      BY <2>1 DEF AddService, Raise, catalog
    <3>1. [name |-> name, version |-> of, deleted |-> FALSE] \in Services
      BY DEF Services
    <3> QED
      BY <3>1 DEF AddService, Raise, catalog
  <2>3. Failure(name, version) \in Outcomes
    BY DEF Failure
  <2>4. CASE CreateService(id, name, version) /\ Failure(name, version) = "none"
    <3>1. GetServiceEntity(name, version) \in Entities
      <4>1. versions \in [Keys -> Entities \cup {Nothing}] /\ entities \in [Names -> Entities \cup {Nothing}]
        BY <2>4 DEF Failure
      <4>2. entities[name] \in Entities
        BY <2>4, <4>1 DEF Failure
      <4>3. Resolve(name, version) \in Versions
        BY <4>2 DEF Resolve, Entities
      <4> QED
        BY <2>4, <4>1, <4>3 DEF Failure, GetServiceEntity, Keys
    <3>2. GetServiceEntity(name, version).version \in Versions
      BY <3>1 DEF Entities
    <3> QED
      BY <2>2, <2>4, <3>2 DEF CreateService
  <2>5. CASE CreateService(id, name, version) /\ Failure(name, version) # "none"
    BY <2>1, <2>3, <2>5 DEF CreateService
  <2> QED
    BY <1>6, <2>2, <2>4, <2>5
<1>7. ASSUME NEW id \in Ids, NEW deletes \in BOOLEAN, Transfer(id, deletes) PROVE TypeOK'
  <2>1. CASE FailureOf(id) # "none"
    BY <1>7, <2>1 DEF Transfer, Raise, FailureOf, Failure, catalog
  <2>2. CASE FailureOf(id) = "none"
    <3>1. services' \in [Ids -> Services \cup {Nothing}]
      BY <1>7, <2>2 DEF Transfer, Services
    <3> QED
      BY <1>7, <2>2, <3>1 DEF Transfer, catalog
  <2> QED
    BY <2>1, <2>2
<1>8. CASE ExportingServices
  BY <1>8 DEF ExportingServices, Raise, FailureOf, Failure, catalog
<1>9. CASE UNCHANGED vars
  BY <1>9 DEF vars, catalog
<1> QED
  BY <1>1, <1>2, <1>3, <1>4, <1>5, <1>6, <1>7, <1>8, <1>9 DEF Next

\* The types of the catalog, the inventory and the exporter's work.
THEOREM TypeCorrect == Spec => []TypeOK
<1>1. Init => TypeOK
  BY NothingAssumption DEF Init, TypeOK, Outcomes
<1> QED
  BY <1>1, TypeStep, PTL DEF Spec

-----------------------------------------------------------------------------
\* An exporter that still has a name to send has sent none of its versions: the calls
\* only add what the model defines.
LEMMA ExporterStep ==
    ASSUME TypeOK, CatalogIsTheModels, Progress,
           NEW name \in Names, CreateEntity(name) \/ UpdateEntityVersions(name)
    PROVE  CatalogIsTheModels' /\ Progress'
<1> USE NothingAssumption
<1>1. /\ model \in Models /\ model[name] # Nothing /\ pc = "export"
      /\ model[name] \in Bindings
      /\ model[name].default \in model[name].versions
      /\ ~model[name].versioned => model[name].versions = {model[name].default}
      /\ model[name].default \in Versions
  BY ExporterTypes, ModelsAssumption DEF TypeOK, CreateEntity, UpdateEntityVersions, Bindings
<1>2. UNCHANGED <<model, pc, complete, fresh>> /\ pending' = pending \ {name}
  BY DEF CreateEntity, UpdateEntityVersions
<1>3. /\ entities \in [Names -> Entities \cup {Nothing}]
      /\ versions \in [Keys -> Entities \cup {Nothing}]
  BY <1>1 DEF TypeOK
<1>4. entities' = [entities EXCEPT ![name] = Entity(name, model[name].default)]
  BY DEF CreateEntity, UpdateEntityVersions
<1>5. \A version \in Versions : Entity(name, version) \in Entities /\ Entity(name, version) # Nothing
  BY <1>1 DEF Entity, Entities
<1>6. entities'[name] = Entity(name, model[name].default) /\ entities'[name] # Nothing
  BY <1>1, <1>3, <1>4, <1>5
<1>7. \A other \in Names \ {name} : entities'[other] = entities[other]
  BY <1>3, <1>4
<1>8. \A other \in Names \ {name}, version \in Versions :
        versions'[<<other, version>>] = versions[<<other, version>>]
  BY <1>1, <1>3 DEF CreateEntity, UpdateEntityVersions, Keys
<1>9. \A version \in Versions :
        versions'[<<name, version>>] = IF version \in model[name].versions
                                      THEN Entity(name, version) ELSE Nothing
  <2>1. \A version \in Versions :
          versions[<<name, version>>] = IF entities[name] # Nothing /\ Defines(name, version)
                                        THEN Entity(name, version) ELSE Nothing
    BY <1>1 DEF CatalogIsTheModels
  <2>2. CASE CreateEntity(name)
    BY <1>1, <1>3, <2>1, <2>2 DEF CreateEntity, Keys, Defines
  <2>3. CASE UpdateEntityVersions(name)
    BY <1>1, <1>3, <2>1, <2>3 DEF UpdateEntityVersions, Keys, Defines
  <2> QED
    BY <2>2, <2>3
<1>10. Progress'
  BY <1>1, <1>2, <1>6, <1>7 DEF Progress
<1>11. CatalogIsTheModels'
  <2>1. \A other \in Names, version \in Versions :
          /\ Entity(other, version)' = Entity(other, version)
          /\ Defines(other, version)' = Defines(other, version)
    BY <1>2 DEF Entity, Defines
  <2> SUFFICES ASSUME NEW other \in Names
               PROVE  /\ \A version \in Versions :
                           versions'[<<other, version>>] =
                              IF entities'[other] # Nothing /\ Defines(other, version)
                              THEN Entity(other, version) ELSE Nothing
                      /\ entities'[other] # Nothing =>
                           /\ Defines(other, entities'[other].version)
                           /\ entities'[other] = Entity(other, model[other].default)
                      /\ complete /\ model[other] # Nothing => entities'[other] # Nothing
    BY <1>2, <2>1 DEF CatalogIsTheModels, Entity, Defines
  <2>2. CASE other = name
    BY <1>1, <1>6, <1>9, <2>2 DEF Defines, Entity
  <2>3. CASE other # name
    BY <1>1, <1>2, <1>7, <1>8, <2>3 DEF CatalogIsTheModels
  <2> QED
    BY <2>2, <2>3
<1> QED
  BY <1>10, <1>11

\* An entity of the catalog is found, and has the name and version it is asked for by.
LEMMA Found ==
    ASSUME TypeOK, CatalogIsTheModels, model # Nothing, NEW name \in Names, NEW version \in Versions,
           versions[<<name, version>>] # Nothing
    PROVE  /\ Failure(name, version) = "none"
           /\ GetServiceEntity(name, version).version = version
<1>1. versions[<<name, version>>] =
         IF entities[name] # Nothing /\ Defines(name, version) THEN Entity(name, version) ELSE Nothing
  BY DEF CatalogIsTheModels
<1>2. entities[name] # Nothing /\ versions[<<name, version>>] = Entity(name, version)
  BY <1>1
<1>3. versions # Nothing /\ Resolve(name, version) = version
  BY NothingAssumption DEF TypeOK, Resolve
<1> QED
  BY <1>2, <1>3 DEF Failure, GetServiceEntity, Entity

\* The calls of a test that are no export: the catalog stays as it is, and a service
\* that is added names an entity of it.
LEMMA InventoryStep ==
    ASSUME CatalogInv, UNCHANGED <<catalog, pending, pc, complete>>,
           \/ fresh' = fresh /\ \A id \in fresh :
                 services[id] # Nothing =>
                    /\ services'[id] # Nothing
                    /\ services'[id].name = services[id].name
                    /\ services'[id].version = services[id].version
           \/ \E id \in Ids, name \in Names, version \in Versions :
                /\ pc = "idle" /\ fresh' = fresh \cup {id}
                /\ versions # Nothing /\ versions[<<name, version>>] # Nothing
                /\ services[id] = Nothing
                /\ services' = [services EXCEPT ![id] =
                                  [name |-> name, version |-> version, deleted |-> FALSE]]
    PROVE  CatalogIsTheModels' /\ Progress' /\ FreshAreDefined'
<1>1. CatalogIsTheModels'
  BY DEF CatalogInv, CatalogIsTheModels, catalog, Entity, Defines
<1>2. Progress'
  BY DEF CatalogInv, Progress, catalog
<1>3. ASSUME fresh' = fresh,
             \A id \in fresh : services[id] # Nothing =>
                    /\ services'[id] # Nothing
                    /\ services'[id].name = services[id].name
                    /\ services'[id].version = services[id].version
      PROVE  FreshAreDefined'
  BY <1>3 DEF CatalogInv, FreshAreDefined, catalog
<1>4. ASSUME NEW id \in Ids, NEW name \in Names, NEW version \in Versions,
             fresh' = fresh \cup {id}, versions # Nothing, versions[<<name, version>>] # Nothing,
             services[id] = Nothing,
             services' = [services EXCEPT ![id] =
                            [name |-> name, version |-> version, deleted |-> FALSE]]
      PROVE  FreshAreDefined'
  <2>1. services \in [Ids -> Services \cup {Nothing}]
    BY DEF CatalogInv, TypeOK
  <2>2. [name |-> name, version |-> version, deleted |-> FALSE] \in Services
    BY DEF Services
  <2>3. services'[id] # Nothing /\ services'[id].name = name /\ services'[id].version = version
    BY <1>4, <2>1, <2>2, NothingAssumption
  <2>4. id \notin fresh
    BY <1>4 DEF CatalogInv, FreshAreDefined
  <2>5. \A other \in fresh : services'[other] = services[other]
    BY <1>4, <2>1, <2>4
  <2> QED
    BY <1>4, <2>3, <2>5 DEF CatalogInv, FreshAreDefined, catalog
<1> QED
  BY <1>1, <1>2, <1>3, <1>4

\* A call that raises changes nothing.
LEMMA RaiseStep ==
    ASSUME CatalogInv, NEW error, Raise(error)
    PROVE  CatalogIsTheModels' /\ Progress' /\ FreshAreDefined'
BY InventoryStep DEF Raise

LEMMA AddStep ==
    ASSUME CatalogInv, NEW id \in Ids, NEW name \in Names, NEW version \in Versions \cup {Nothing},
           AddService(id, name, version)
    PROVE  CatalogIsTheModels' /\ Progress' /\ FreshAreDefined'
<1>1. CASE services[id] # Nothing \/ ~Known(name, version)
  BY <1>1, RaiseStep DEF AddService
<1>2. CASE services[id] = Nothing /\ Known(name, version)
  <2>1. UNCHANGED <<catalog, pending, pc, complete>>
    BY <1>2 DEF AddService
  <2>2. CASE versions = Nothing
    <3>1. fresh' = fresh /\ fresh = {}
      BY <1>2, <2>2 DEF AddService, CatalogInv, FreshAreDefined
    <3> QED
      BY <2>1, <3>1, InventoryStep
  <2>3. CASE versions # Nothing
    <3>1. version \in Versions /\ versions[<<name, version>>] # Nothing
      BY <1>2, <2>3 DEF Known, Keys
    <3> QED
      BY <1>2, <2>1, <2>3, <3>1, InventoryStep DEF AddService
  <2> QED
    BY <2>2, <2>3
<1> QED
  BY <1>1, <1>2

\* The catalog shows one model, and the services accepted since are of that model.
LEMMA CatalogStep == CatalogInv /\ [Next]_vars => CatalogInv'
<1> SUFFICES ASSUME CatalogInv, [Next]_vars PROVE CatalogIsTheModels' /\ Progress' /\ FreshAreDefined'
  BY TypeStep DEF CatalogInv
<1>0. TypeOK /\ CatalogIsTheModels /\ Progress /\ FreshAreDefined
  BY DEF CatalogInv
<1>1. CASE ExportCompileFails
  BY <1>1, InventoryStep DEF ExportCompileFails
<1>2. ASSUME NEW exported \in Models, ExportServiceEntities(exported)
      PROVE  CatalogIsTheModels' /\ Progress' /\ FreshAreDefined'
  <2>1. /\ \A name \in Names : entities'[name] = Nothing
        /\ \A key \in Keys : versions'[key] = Nothing
        /\ ~complete' /\ fresh' = {} /\ model' = exported
        /\ \A name \in Names : exported[name] # Nothing => name \in pending'
    BY <1>2 DEF ExportServiceEntities, Reset, NoEntities, NoVersions
  <2> QED
    BY <2>1 DEF CatalogIsTheModels, Progress, FreshAreDefined, Keys
<1>3. ASSUME NEW name \in Names, CreateEntity(name) \/ UpdateEntityVersions(name)
      PROVE  CatalogIsTheModels' /\ Progress' /\ FreshAreDefined'
  <2>1. pc = "export" /\ fresh' = fresh
    BY <1>3 DEF CreateEntity, UpdateEntityVersions
  <2>2. FreshAreDefined'
    BY <1>0, <2>1 DEF Progress, FreshAreDefined
  <2> QED
    BY <1>0, <1>3, <2>2, ExporterStep
<1>4. CASE ExporterFails
  <2>1. UNCHANGED <<catalog, services, complete, fresh>> /\ pc' = "idle"
    BY <1>4 DEF ExporterFails
  <2> QED
    BY <1>0, <2>1 DEF CatalogIsTheModels, Progress, FreshAreDefined, catalog, Entity, Defines
<1>5. CASE ExportReturns
  <2>1. UNCHANGED <<catalog, services, fresh>> /\ pc' = "idle" /\ complete'
    BY <1>5 DEF ExportReturns
  <2>2. \A name \in Names : model[name] # Nothing => entities[name] # Nothing
    BY <1>0, <1>5 DEF ExportReturns, Progress
  <2> QED
    BY <1>0, <2>1, <2>2 DEF CatalogIsTheModels, Progress, FreshAreDefined, catalog, Entity, Defines
<1>6. ASSUME NEW id \in Ids, NEW name \in Names, NEW version \in Versions \cup {Nothing},
             AddService(id, name, version) \/ CreateService(id, name, version)
      PROVE  CatalogIsTheModels' /\ Progress' /\ FreshAreDefined'
  <2>1. CASE CreateService(id, name, version) /\ Failure(name, version) = "none"
    <3>1. versions \in [Keys -> Entities \cup {Nothing}] /\ entities \in [Names -> Entities \cup {Nothing}]
      BY <1>0, <2>1 DEF Failure, TypeOK
    <3>2. entities[name] \in Entities
      BY <2>1, <3>1 DEF Failure
    <3>3. Resolve(name, version) \in Versions
      BY <3>2 DEF Resolve, Entities
    <3>4. GetServiceEntity(name, version) \in Entities
      BY <2>1, <3>1, <3>3 DEF Failure, GetServiceEntity, Keys
    <3>5. GetServiceEntity(name, version).version \in Versions
      BY <3>4 DEF Entities
    <3> QED
      BY <2>1, <3>5, AddStep DEF CreateService
  <2>2. CASE CreateService(id, name, version) /\ Failure(name, version) # "none"
    BY <2>2, RaiseStep DEF CreateService
  <2> QED
    BY <1>6, <2>1, <2>2, AddStep
<1>7. ASSUME NEW id \in Ids, NEW deletes \in BOOLEAN, Transfer(id, deletes)
      PROVE  CatalogIsTheModels' /\ Progress' /\ FreshAreDefined'
  <2>1. CASE FailureOf(id) # "none"
    BY <1>7, <2>1, RaiseStep DEF Transfer
  <2>2. CASE FailureOf(id) = "none"
    <3>1. /\ UNCHANGED <<catalog, pending, pc, complete, fresh>>
          /\ services[id] \in Services
          /\ services \in [Ids -> Services \cup {Nothing}]
          /\ services' = [services EXCEPT ![id].deleted = @ \/ deletes]
      BY <1>0, <1>7, <2>2 DEF Transfer, TypeOK
    <3>2. \A other \in Ids \ {id} : services'[other] = services[other]
      BY <3>1
    <3>3. /\ services'[id] \in Services
          /\ services'[id].name = services[id].name
          /\ services'[id].version = services[id].version
      BY <3>1 DEF Services
    <3>4. fresh \subseteq Ids
      BY <1>0 DEF TypeOK
    <3> QED
      BY <3>1, <3>2, <3>3, <3>4, InventoryStep, NothingAssumption
  <2> QED
    BY <2>1, <2>2
<1>8. CASE ExportingServices
  BY <1>8, RaiseStep DEF ExportingServices
<1>9. CASE UNCHANGED vars
  BY <1>9, InventoryStep DEF vars
<1> QED
  BY <1>1, <1>2, <1>3, <1>4, <1>5, <1>6, <1>7, <1>8, <1>9 DEF Next

LEMMA CatalogInvariant == Spec => []CatalogInv
<1>1. Init => CatalogInv
  BY NothingAssumption
     DEF Init, CatalogInv, TypeOK, Outcomes, CatalogIsTheModels, Progress, FreshAreDefined
<1> QED
  BY <1>1, CatalogStep, PTL DEF Spec

\* Whatever exports fail, the catalog shows the model that was exported last, and all
\* of it once the export has returned.
THEOREM CatalogShowsTheModel == Spec => []CatalogIsTheModels
BY CatalogInvariant, PTL DEF CatalogInv

\* A service that was accepted since the last export can be compiled.
THEOREM AcceptedResolve == Spec => []FreshServicesResolve
<1>1. CatalogInv => FreshServicesResolve
  <2> SUFFICES ASSUME CatalogInv, NEW id \in fresh
               PROVE  /\ FailureOf(id) = "none"
                      /\ GetServiceEntity(services[id].name, services[id].version).version
                            = services[id].version
    BY DEF FreshServicesResolve
  <2>1. /\ versions # Nothing /\ services[id] \in Services
        /\ services[id].version \in Versions
        /\ versions[<<services[id].name, services[id].version>>] # Nothing
        /\ model # Nothing
    BY NothingAssumption DEF CatalogInv, FreshAreDefined, TypeOK
  <2>2. services[id].name \in Names
    BY <2>1 DEF Services
  <2> QED
    BY <2>1, <2>2, Found DEF CatalogInv, FailureOf
<1> QED
  BY <1>1, CatalogInvariant, PTL

\* No step but the beginning of an export takes the entity of a service away.
THEOREM OnlyExportsUnresolve == Spec => OnlyAnExportUnresolves
<1>1. ASSUME CatalogInv, [Next]_vars, NEW id \in Live,
             FailureOf(id) = "none", FailureOf(id)' # "none"
      PROVE  pc' = "export"
  <2>1. /\ services \in [Ids -> Services \cup {Nothing}] /\ id \in Ids
        /\ services[id] # Nothing /\ services[id] \in Services
    BY <1>1 DEF CatalogInv, TypeOK, Live
  <2>2. ASSUME UNCHANGED catalog, services'[id].name = services[id].name,
               services'[id].version = services[id].version
        PROVE  FALSE
    BY <1>1, <2>2 DEF FailureOf, Failure, Resolve, catalog
  <2>3. ASSUME UNCHANGED <<catalog, services>> PROVE FALSE
    BY <2>2, <2>3
  <2>4. ASSUME NEW error, Raise(error) PROVE FALSE
    BY <2>3, <2>4 DEF Raise
  <2>5. ASSUME NEW other \in Ids, NEW name \in Names, NEW version, AddService(other, name, version)
        PROVE  FALSE
    <3>1. CASE services[other] # Nothing \/ ~Known(name, version)
      BY <2>4, <2>5, <3>1 DEF AddService
    <3>2. CASE services[other] = Nothing /\ Known(name, version)
      <4>1. UNCHANGED catalog /\ services'[id] = services[id]
        BY <2>1, <2>5, <3>2 DEF AddService
      <4> QED
        BY <2>2, <4>1
    <3> QED
      BY <3>1, <3>2
  <2>6. ASSUME NEW other \in Ids, NEW deletes \in BOOLEAN, Transfer(other, deletes) PROVE FALSE
    <3>1. CASE FailureOf(other) # "none"
      BY <2>4, <2>6, <3>1 DEF Transfer
    <3>2. CASE FailureOf(other) = "none"
      <4>1. /\ UNCHANGED catalog
            /\ services' = [services EXCEPT ![other].deleted = @ \/ deletes]
        BY <2>6, <3>2 DEF Transfer
      <4>2. services'[id].name = services[id].name /\ services'[id].version = services[id].version
        BY <2>1, <4>1 DEF Services
      <4> QED
        BY <2>2, <4>1, <4>2
    <3> QED
      BY <3>1, <3>2
  <2>7. CASE ExportCompileFails
    BY <2>3, <2>7 DEF ExportCompileFails
  <2>8. ASSUME NEW exported \in Models, ExportServiceEntities(exported) PROVE pc' = "export"
    BY <2>8 DEF ExportServiceEntities
  <2>9. ASSUME NEW name \in Names, CreateEntity(name) \/ UpdateEntityVersions(name) PROVE pc' = "export"
    BY <2>9 DEF CreateEntity, UpdateEntityVersions
  <2>10. CASE ExporterFails
    BY <2>3, <2>10 DEF ExporterFails
  <2>11. CASE ExportReturns
    BY <2>3, <2>11 DEF ExportReturns
  <2>12. ASSUME NEW other \in Ids, NEW name \in Names, NEW version \in Versions \cup {Nothing},
                CreateService(other, name, version)
         PROVE  FALSE
    BY <2>4, <2>5, <2>12 DEF CreateService
  <2>13. CASE ExportingServices
    BY <2>4, <2>13 DEF ExportingServices
  <2>14. CASE UNCHANGED vars
    BY <2>3, <2>14 DEF vars
  <2> QED
    BY <1>1, <2>5, <2>6, <2>7, <2>8, <2>9, <2>10, <2>11, <2>12, <2>13, <2>14 DEF Next
<1>2. CatalogInv /\ [Next]_vars =>
        [\A id \in Live : FailureOf(id) = "none" /\ FailureOf(id)' # "none" => pc' = "export"]_vars
  BY <1>1
<1> QED
  BY <1>2, CatalogInvariant, PTL DEF Spec, OnlyAnExportUnresolves
=============================================================================
