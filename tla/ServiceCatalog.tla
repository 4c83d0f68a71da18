---------------------------- MODULE ServiceCatalog ----------------------------
(***************************************************************************)
(* The mocked service catalog of LsmProject (lsm_project.py:554-757): the  *)
(* export of a model's service entities, call by call of the lsm module's  *)
(* exporter, and the services of the inventory, which name an entity and a *)
(* version that a later export may no longer define.                       *)
(***************************************************************************)
EXTENDS Naturals, FiniteSets

CONSTANTS
    Names,    \* of service entities
    Versions, \* of a service entity
    Ids,      \* of services
    Models,   \* the models a test exports, with the entities they define
    Nothing   \* Python's None

\* A model defines some versions of each entity, one of them the default.  A binding
\* without versions defines one.
Bindings == [versions : (SUBSET Versions) \ {{}}, default : Versions, versioned : BOOLEAN]
ASSUME ModelsAssumption ==
    \A model \in Models :
        /\ model \in [Names -> Bindings \cup {Nothing}]
        /\ \A name \in Names :
             model[name] # Nothing =>
                /\ model[name].default \in model[name].versions
                /\ ~model[name].versioned => model[name].versions = {model[name].default}

\* A service entity, as far as it matters: what model defined it.
Entities == [name : Names, version : Versions, model : Models]
Keys == Names \X Versions
Services == [name : Names, version : Versions \cup {Nothing}, deleted : BOOLEAN]
ASSUME NothingAssumption ==
    /\ Nothing \notin Bindings \cup Versions \cup Models \cup Entities \cup Services
    /\ Nothing \notin [Names -> Entities \cup {Nothing}]
    /\ Nothing \notin [Keys -> Entities \cup {Nothing}]
NoEntities == [name \in Names |-> Nothing]
NoVersions == [key \in Keys |-> Nothing]

VARIABLES
    model,    \* LsmProject.model: the last one exported, or Nothing
    entities, \* LsmProject.service_entities: the default of each name
    versions, \* LsmProject.service_entity_versions
    pending,  \* what the exporter still has to send
    pc,       \* "idle", or "export" while the exporter runs
    services, \* LsmProject.services: a record by id, or Nothing
    outcome,  \* how the last call ended
    \* The rest is history:
    complete, \* the last exporter has not failed
    fresh     \* the services added since the last export

catalog == <<model, entities, versions>>
vars == <<catalog, pending, pc, services, outcome, complete, fresh>>

Outcomes == {"none", "returned", "CompileError", "ExportError", "LookupError", "RuntimeError", "ValueError"}

Init ==
    /\ model = Nothing /\ entities = Nothing /\ versions = Nothing
    /\ pending = {} /\ pc = "idle" /\ outcome = "none"
    /\ services = [id \in Ids |-> Nothing]
    /\ complete = TRUE /\ fresh = {}

Entity(name, version) == [name |-> name, version |-> version, model |-> model]

-----------------------------------------------------------------------------
\* Mutant: the catalog is emptied before the compile that may fail.
ResetFirst ==
    /\ pc = "idle" /\ outcome' = "CompileError"
    /\ entities' = NoEntities /\ versions' = NoVersions
    /\ UNCHANGED <<model, pending, pc, services, complete, fresh>>

\* export_service_entities, when the compile of the model fails.
ExportCompileFails ==
    /\ pc = "idle" /\ outcome' = "CompileError"
    /\ UNCHANGED <<catalog, pending, pc, services, complete, fresh>>

\* Mutant: the catalog is not emptied, the new export comes on top.
NoReset ==
    /\ entities' = IF entities = Nothing THEN NoEntities ELSE entities
    /\ versions' = IF versions = Nothing THEN NoVersions ELSE versions

Reset == entities' = NoEntities /\ versions' = NoVersions

\* export_service_entities, when it does not: from here on the model is the one
\* that later compiles use.
ExportServiceEntities(exported) ==
    /\ pc = "idle" /\ pc' = "export" /\ outcome' = "none"
    /\ model' = exported
    /\ Reset
    /\ pending' = {name \in Names : exported[name] # Nothing}
    /\ complete' = FALSE /\ fresh' = {}
    /\ UNCHANGED services

\* The calls of do_export_service_entities.  lsm_service_catalog_create_entity, or
\* update_entity, which does the same:
CreateEntity(name) ==
    /\ pc = "export" /\ name \in pending
    /\ ~model[name].versioned
    /\ LET version == model[name].default
       IN /\ versions' = [versions EXCEPT ![<<name, version>>] = Entity(name, version)]
          /\ entities' = [entities EXCEPT ![name] = Entity(name, version)]
    /\ pending' = pending \ {name}
    /\ UNCHANGED <<model, pc, services, outcome, complete, fresh>>

\* lsm_service_catalog_update_entity_versions.
UpdateEntityVersions(name) ==
    /\ pc = "export" /\ name \in pending
    /\ model[name].versioned
    /\ versions' = [key \in Keys |->
                      IF key[1] = name /\ key[2] \in model[name].versions
                      THEN Entity(name, key[2]) ELSE versions[key]]
    /\ entities' = [entities EXCEPT ![name] = Entity(name, model[name].default)]
    /\ pending' = pending \ {name}
    /\ UNCHANGED <<model, pc, services, outcome, complete, fresh>>

ExporterFails ==
    /\ pc = "export" /\ pc' = "idle" /\ outcome' = "ExportError"
    /\ pending' = {}
    /\ UNCHANGED <<catalog, services, complete, fresh>>

ExportReturns ==
    /\ pc = "export" /\ pending = {}
    /\ pc' = "idle" /\ outcome' = "returned"
    /\ complete' = TRUE
    /\ UNCHANGED <<catalog, pending, services, fresh>>

-----------------------------------------------------------------------------
\* get_service_entity: the version it looks up, the exception it raises, the entity.
Resolve(name, version) == IF version # Nothing THEN version ELSE entities[name].version
Failure(name, version) ==
    IF versions = Nothing THEN "RuntimeError"
    ELSE IF entities[name] = Nothing \/ versions[<<name, Resolve(name, version)>>] = Nothing
         THEN "LookupError"
         ELSE "none"
GetServiceEntity(name, version) == versions[<<name, Resolve(name, version)>>]

Raise(error) ==
    /\ outcome' = error
    /\ UNCHANGED <<catalog, pending, pc, services, complete, fresh>>

\* Mutant: add_service trusts the test.
KnownAlways(name, version) == TRUE

\* The check of add_service, for the version the service has itself.
Known(name, version) ==
    versions # Nothing => <<name, version>> \in Keys /\ versions[<<name, version>>] # Nothing

AddService(id, name, version) ==
    /\ pc = "idle"
    /\ IF services[id] # Nothing \/ ~Known(name, version)
       THEN Raise("ValueError")
       ELSE /\ services' = [services EXCEPT ![id] =
                              [name |-> name, version |-> version, deleted |-> FALSE]]
            /\ fresh' = IF versions = Nothing THEN fresh ELSE fresh \cup {id}
            /\ outcome' = "returned"
            /\ UNCHANGED <<catalog, pending, pc, complete>>

\* create_service up to the auto transfers, which LsmProject follows: the service
\* gets the version of the entity that was found.
CreateService(id, name, version) ==
    /\ pc = "idle"
    /\ IF Failure(name, version) # "none" THEN Raise(Failure(name, version))
       ELSE AddService(id, name, GetServiceEntity(name, version).version)

FailureOf(id) == Failure(services[id].name, services[id].version)

\* update_service and auto_transfer start with the service's entity; a transfer may
\* delete the service.
Transfer(id, deletes) ==
    /\ pc = "idle" /\ services[id] # Nothing
    /\ IF FailureOf(id) # "none" THEN Raise(FailureOf(id))
       ELSE /\ services' = [services EXCEPT ![id].deleted = @ \/ deletes]
            /\ outcome' = "returned"
            /\ UNCHANGED <<catalog, pending, pc, complete, fresh>>

\* exporting_services, which every validation of an export goes through, looks up
\* the entity of every service that is not deleted.
Live == {id \in Ids : services[id] # Nothing /\ ~services[id].deleted}
ExportingServices ==
    /\ pc = "idle"
    /\ \/ /\ \A id \in Live : FailureOf(id) = "none"
          /\ Raise("returned")
       \/ \E id \in Live : FailureOf(id) # "none" /\ Raise(FailureOf(id))

Next ==
    \/ ExportCompileFails
    \/ \E exported \in Models : ExportServiceEntities(exported)
    \/ \E name \in Names : CreateEntity(name) \/ UpdateEntityVersions(name)
    \/ ExporterFails \/ ExportReturns
    \/ \E id \in Ids, name \in Names, version \in Versions \cup {Nothing} :
        AddService(id, name, version) \/ CreateService(id, name, version)
    \/ \E id \in Ids, deletes \in BOOLEAN : Transfer(id, deletes)
    \/ ExportingServices

Spec == Init /\ [][Next]_vars

-----------------------------------------------------------------------------
\* The types of the variables.
TypeOK ==
    /\ model \in Models \cup {Nothing}
    /\ (model = Nothing) = (versions = Nothing) /\ (model = Nothing) = (entities = Nothing)
    /\ entities \in [Names -> Entities \cup {Nothing}] \cup {Nothing}
    /\ versions \in [Keys -> Entities \cup {Nothing}] \cup {Nothing}
    /\ pending \subseteq Names /\ pc \in {"idle", "export"}
    /\ pc = "export" => model # Nothing /\ \A name \in pending : model[name] # Nothing
    /\ services \in [Ids -> Services \cup {Nothing}]
    /\ outcome \in Outcomes /\ complete \in BOOLEAN /\ fresh \subseteq Ids

\* The catalog shows the model that later compiles use, and never a mixture of two:
\* whatever exports failed, each of its entities is one of that model, a name it
\* knows has all the model's versions and the model's default, and after an export
\* that returned no name is missing.
Defines(name, version) == model[name] # Nothing /\ version \in model[name].versions
CatalogIsTheModels ==
    model # Nothing => \A name \in Names :
        /\ \A version \in Versions :
             versions[<<name, version>>] =
                IF entities[name] # Nothing /\ Defines(name, version)
                THEN Entity(name, version) ELSE Nothing
        /\ entities[name] # Nothing => Defines(name, entities[name].version)
        /\ entities[name] # Nothing => entities[name] = Entity(name, model[name].default)
        /\ complete /\ model[name] # Nothing => entities[name] # Nothing

\* A service that was accepted since the last export, complete or not, can be
\* compiled: its entity is found, in the version it asked for.
FreshServicesResolve ==
    \A id \in fresh :
        /\ FailureOf(id) = "none"
        /\ GetServiceEntity(services[id].name, services[id].version).version = services[id].version

\* A service only loses its entity to an export of a model that compiles: one that
\* fails to compile leaves the test where it was.
OnlyAnExportUnresolves ==
    [][\A id \in Live :
        FailureOf(id) = "none" /\ FailureOf(id)' # "none" => pc' = "export"]_vars
=============================================================================
