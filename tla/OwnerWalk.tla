------------------------------ MODULE OwnerWalk ------------------------------
(***************************************************************************)
(* LsmProject.get_owner_root and get_resource_set: the walk from a service *)
(* up its ownership tree, and the name of the resource set its resources   *)
(* belong to.  The inventory does not change during the walk; it holds any *)
(* services a test can put in it: relations may dangle, make a cycle or    *)
(* hold what is no id.                                                     *)
(***************************************************************************)
EXTENDS Naturals, FiniteSets

CONSTANTS
    Ids,            \* the ids of services, in the inventory or only referred to;
                    \* however it is written, an id is the one it converts to
    NoIds,          \* values that are no uuid
    ServiceRecords, \* the services a test may add: their binding and attributes
    ResolvedSets,   \* what a resource_set_resolver may answer
    Nothing,        \* Python's None
    Empty           \* the empty attribute set, which is falsy as None is

NoOwner     == "no owner"
LookupError == "LookupError"
ValueError  == "ValueError"

\* binding: "independent" (no relation_to_owner), "external" (relation_to_owner
\* without owner) or "owned" (both).  An attribute set is None, empty, or holds
\* the relation to the owner, whose value can be None.
OwnerValues   == Ids \cup NoIds \cup {Nothing}
AttributeSets == {Nothing, Empty} \cup [owner : OwnerValues]
AllRecords    == [binding   : {"independent", "external", "owned"},
                  candidate : AttributeSets,
                  active    : AttributeSets,
                  rollback  : AttributeSets]

ASSUME RecordsAssumption == ServiceRecords \subseteq AllRecords
ASSUME NothingAssumption ==
    Ids \cap (NoIds \cup {Nothing, NoOwner, LookupError, ValueError}) = {}

VARIABLES
    services,   \* the inventory: a function from some ids to their services
    resolver,   \* the set self.resource_set_resolver answers for a root, or None
    start,      \* what the walk was called for
    root, visited, pc,
    resourceSet \* what get_resource_set returned

vars == <<services, resolver, start, root, visited, pc, resourceSet>>

Outcomes == {"named", "LookupError", "ValueError"}

\* candidate_attributes or active_attributes or rollback_attributes or {}
Attributes(srv) ==
    LET Falsy == {Nothing, Empty}
    IN  IF srv.candidate \notin Falsy THEN srv.candidate
        ELSE IF srv.active \notin Falsy THEN srv.active
        ELSE srv.rollback

OwnerId(attributes) ==
    IF attributes \in {Nothing, Empty} THEN Nothing ELSE attributes.owner

\* uuid.UUID(str(value))
ToUuid(value) == IF value \in Ids THEN value ELSE ValueError

\* Mutant: a service that is not in the inventory counts as a root.
GetOwnerLenient(id) ==
    IF id \notin DOMAIN services THEN NoOwner
    ELSE IF services[id].binding # "owned" THEN NoOwner
    ELSE IF OwnerId(Attributes(services[id])) = Nothing THEN LookupError
    ELSE ToUuid(OwnerId(Attributes(services[id])))

GetOwner(id) ==
    IF id \notin DOMAIN services THEN LookupError
    ELSE IF services[id].binding # "owned" THEN NoOwner
    ELSE IF OwnerId(Attributes(services[id])) = Nothing THEN LookupError
    ELSE ToUuid(OwnerId(Attributes(services[id])))

Init ==
    /\ \E inventory \in SUBSET Ids : services \in [inventory -> ServiceRecords]
    /\ resolver \in ResolvedSets \cup {Nothing}
    /\ start \in Ids \cup NoIds
    /\ root = Nothing
    /\ visited = {}
    /\ pc = "call"
    /\ resourceSet = Nothing

StartWalk ==
    /\ pc = "call"
    /\ ToUuid(start) \in Ids
    /\ root' = ToUuid(start)
    /\ visited' = {root'}
    /\ pc' = "walk"
    /\ UNCHANGED <<services, resolver, start, resourceSet>>

\* What the walk was called for, or the value of a relation, is no uuid: the same
\* exception as that of a cycle.
FailConversion ==
    /\ \/ pc = "call" /\ ToUuid(start) = ValueError
       \/ pc = "walk" /\ GetOwner(root) = ValueError
    /\ pc' = "ValueError"
    /\ UNCHANGED <<services, resolver, start, root, visited, resourceSet>>

\* Mutant: no check that an owner was seen.
ClimbAgain ==
    /\ pc = "walk"
    /\ GetOwner(root) \in Ids
    /\ root' = GetOwner(root)
    /\ visited' = visited \cup {GetOwner(root)}
    /\ UNCHANGED <<services, resolver, start, pc, resourceSet>>

Climb ==
    /\ pc = "walk"
    /\ GetOwner(root) \in Ids \ visited
    /\ root' = GetOwner(root)
    /\ visited' = visited \cup {GetOwner(root)}
    /\ UNCHANGED <<services, resolver, start, pc, resourceSet>>

\* Mutant: any answer but a new owner is taken for a cycle.
FindCycleAlways ==
    /\ pc = "walk"
    /\ GetOwner(root) \notin Ids \ visited
    /\ pc' = "ValueError"
    /\ UNCHANGED <<services, resolver, start, root, visited, resourceSet>>

FindCycle ==
    /\ pc = "walk"
    /\ GetOwner(root) \in visited
    /\ pc' = "ValueError"
    /\ UNCHANGED <<services, resolver, start, root, visited, resourceSet>>

ReachRoot ==
    /\ pc = "walk"
    /\ GetOwner(root) = NoOwner
    /\ pc' = "root"
    /\ UNCHANGED <<services, resolver, start, root, visited, resourceSet>>

FailLookup ==
    /\ \/ pc = "walk" /\ GetOwner(root) = LookupError
       \/ pc = "root" /\ services[root].binding = "external" /\ resolver = Nothing
    /\ pc' = "LookupError"
    /\ UNCHANGED <<services, resolver, start, root, visited, resourceSet>>

NameResourceSet ==
    /\ pc = "root"
    /\ \/ services[root].binding = "independent" /\ resourceSet' = root
       \/ /\ services[root].binding = "external"
          /\ resolver # Nothing
          /\ resourceSet' = resolver
    /\ pc' = "named"
    /\ UNCHANGED <<services, resolver, start, root, visited>>

Next ==
    \/ StartWalk \/ Climb \/ ReachRoot \/ NameResourceSet
    \/ FailConversion \/ FindCycle \/ FailLookup

Spec == Init /\ [][Next]_vars /\ WF_vars(Next)

-----------------------------------------------------------------------------
\* The ids one reaches from a service by following ownership relations, defined
\* without the walk: the smallest set that holds it and is closed under GetOwner.
Closed(S) == \A id \in S : GetOwner(id) \in Ids => GetOwner(id) \in S
Reach(id) == {t \in Ids : \A S \in SUBSET Ids : id \in S /\ Closed(S) => t \in S}

\* The types of the variables.
TypeOK ==
    /\ DOMAIN services \subseteq Ids
    /\ services \in [DOMAIN services -> ServiceRecords]
    /\ resolver \in ResolvedSets \cup {Nothing}
    /\ start \in Ids \cup NoIds
    /\ root \in Ids \cup {Nothing}
    /\ pc \in {"walk", "root", "named"} => root \in Ids
    /\ visited \subseteq Ids
    /\ pc \in {"call", "walk", "root"} \cup Outcomes
    /\ resourceSet \in Ids \cup ResolvedSets \cup {Nothing}

\* get_owner_root returns the only ownerless service that is reachable from the
\* service it was called for, and that service is in the inventory.
RootIsTheOnlyOwnerless ==
    pc \in {"root", "named"} =>
        /\ root \in DOMAIN services
        /\ {id \in Reach(start) : GetOwner(id) = NoOwner} = {root}

\* All the services of one ownership path contribute to the same tree: the root
\* found for the service is also reachable from every owner met on the way.
PathSharesTheRoot ==
    pc \in {"root", "named"} => \A id \in Reach(start) : root \in Reach(id)

\* ValueError never stands for a root that could have been found: what was asked for
\* is no uuid, or every reachable service is owned by a reachable one, which is a
\* cycle, but for one whose relation holds no uuid, where the path breaks off.
ValueErrorIsReal ==
    pc = "ValueError" =>
        \/ start \in NoIds
        \/ \A id \in Reach(start) : GetOwner(id) \in Reach(start) \cup {ValueError}

\* The walk always ends, also on cyclic relations.
WalkEnds == <>(pc \in Outcomes)
=============================================================================
