--------------------------- MODULE OwnerWalkProofs ---------------------------
(***************************************************************************)
(* The walk up an ownership tree ends at the right service, for every      *)
(* inventory: theorems about OwnerWalk checked by TLAPS.                   *)
(***************************************************************************)
EXTENDS OwnerWalk, TLAPS

\* The walk has begun: what it was called for is an id.
Begun == root # Nothing

\* What the walk maintains: everything visited is reachable from the start, is
\* owned by something visited (the current service apart), and leads to the
\* current service.
PathInv ==
    /\ start \in visited
    /\ root \in visited
    /\ visited \subseteq Reach(start)
    /\ \A id \in visited \ {root} : GetOwner(id) \in visited
    /\ \A id \in visited : root \in Reach(id)

\* What each control point adds to it.
OutcomeInv ==
    /\ pc = "call" => ~Begun
    /\ pc \in {"root", "named"} => GetOwner(root) = NoOwner
    /\ pc = "ValueError" =>
          IF Begun THEN GetOwner(root) \in visited \cup {ValueError} ELSE start \in NoIds

IInv == TypeOK /\ (Begun => PathInv) /\ OutcomeInv

\* get_owner answers an id, None, or raises LookupError or ValueError.
LEMMA GetOwnerType ==
    ASSUME TypeOK, NEW id \in Ids
    PROVE  /\ GetOwner(id) \in Ids \cup {NoOwner, LookupError, ValueError}
           /\ GetOwner(id) # LookupError => id \in DOMAIN services
<1>1. CASE id \notin DOMAIN services
  BY <1>1 DEF GetOwner
<1>2. CASE id \in DOMAIN services
  <2> DEFINE srv == services[id]
             attrs == Attributes(srv)
  <2>1. ToUuid(OwnerId(attrs)) \in Ids \cup {ValueError}
    BY DEF ToUuid
  <2>2. QED
    BY <1>2, <2>1 DEF GetOwner
<1>3. QED
  BY <1>1, <1>2

\* Every id reaches itself, and what it reaches is closed under get_owner.
LEMMA ReachBasics ==
    ASSUME NEW id \in Ids
    PROVE  id \in Reach(id) /\ Closed(Reach(id))
  BY DEF Reach, Closed

\* A closed set that holds an id holds all that the id reaches.
LEMMA ReachInClosed ==
    ASSUME NEW id \in Ids, NEW S \in SUBSET Ids, id \in S, Closed(S)
    PROVE  Reach(id) \subseteq S
  BY DEF Reach

\* The inventory does not change, so that ownership does not.
LEMMA OwnershipFixed ==
    ASSUME [Next]_vars
    PROVE  /\ services' = services /\ start' = start
           /\ \A id : GetOwner(id)' = GetOwner(id)
           /\ \A id : Reach(id)' = Reach(id)
<1>1. services' = services /\ start' = start
  BY DEF Next, vars, StartWalk, Climb, FailConversion, FindCycle, ReachRoot, FailLookup,
     NameResourceSet
<1>2. \A id : GetOwner(id)' = GetOwner(id)
  BY <1>1 DEF GetOwner
<1>3. \A id : Reach(id)' = Reach(id)
  BY <1>2 DEF Reach, Closed
<1>4. QED
  BY <1>1, <1>2, <1>3

LEMMA TypeInit == Init => TypeOK
  BY DEF Init, TypeOK

LEMMA TypeNext == TypeOK /\ [Next]_vars => TypeOK'
<1> SUFFICES ASSUME TypeOK, [Next]_vars PROVE TypeOK'
  OBVIOUS
<1> USE DEF TypeOK, Outcomes
<1>1. CASE Climb
  BY <1>1 DEF Climb
<1>2. CASE FindCycle
  BY <1>2 DEF FindCycle
<1>3. CASE ReachRoot
  BY <1>3 DEF ReachRoot
<1>4. CASE FailLookup
  BY <1>4 DEF FailLookup
<1>5. CASE NameResourceSet
  BY <1>5 DEF NameResourceSet
<1>6. CASE StartWalk
  BY <1>6, NothingAssumption DEF StartWalk
<1>7. CASE FailConversion
  BY <1>7 DEF FailConversion
<1>8. CASE UNCHANGED vars
  BY <1>8 DEF vars
<1>9. QED
  BY <1>1, <1>2, <1>3, <1>4, <1>5, <1>6, <1>7, <1>8 DEF Next

\* The variables hold what their declarations say.
THEOREM TypeCorrect == Spec => []TypeOK
  BY TypeInit, TypeNext, PTL DEF Spec

LEMMA InvInit == Init => IInv
  BY TypeInit DEF Init, IInv, Begun, OutcomeInv

LEMMA InvNext == IInv /\ [Next]_vars => IInv'
<1> SUFFICES ASSUME IInv, [Next]_vars PROVE IInv'
  OBVIOUS
<1>1. TypeOK'
  BY TypeNext DEF IInv
<1>2. CASE StartWalk
  <2>1. start \in Ids /\ root' = start /\ visited' = {start} /\ pc' = "walk" /\ start' = start
    BY <1>2, NothingAssumption DEF StartWalk, ToUuid
  <2>2. start \in Reach(start)
    BY <2>1, ReachBasics
  <2>3. PathInv'
    BY <2>1, <2>2, OwnershipFixed DEF PathInv
  <2>4. QED
    BY <1>1, <2>1, <2>3 DEF IInv, OutcomeInv
<1>3. CASE Climb
  <2> DEFINE owner == GetOwner(root)
  <2>1. owner \in Ids \ visited /\ root' = owner /\ visited' = visited \cup {owner}
    BY <1>3 DEF Climb
  <2>2. visited \subseteq Ids /\ root \in Ids /\ PathInv
    BY <1>3, NothingAssumption DEF Climb, IInv, TypeOK, Begun
  <2>3. \A id \in visited : owner \in Reach(id)
    <3> TAKE id \in visited
    <3>1. root \in Reach(id) /\ id \in Ids
      BY <2>2 DEF PathInv
    <3>2. Closed(Reach(id))
      BY <3>1, ReachBasics
    <3>3. QED
      BY <3>1, <3>2, <2>1 DEF Closed
  <2>4. owner \in Reach(owner)
    BY <2>1, ReachBasics
  <2>5. PathInv'
    BY <2>1, <2>2, <2>3, <2>4, OwnershipFixed DEF PathInv
  <2>6. OutcomeInv'
    BY <1>3 DEF Climb, OutcomeInv
  <2>7. QED
    BY <1>1, <2>5, <2>6 DEF IInv
<1>4. ASSUME UNCHANGED <<root, visited>>, OutcomeInv' PROVE IInv'
  BY <1>1, <1>4, OwnershipFixed DEF IInv, PathInv, Begun
<1>5. CASE FailConversion
  <2>1. OutcomeInv'
    <3>1. CASE pc = "call"
      BY <1>5, <3>1, NothingAssumption DEF FailConversion, ToUuid, OutcomeInv, IInv, TypeOK, Begun
    <3>2. CASE pc = "walk" /\ GetOwner(root) = ValueError
      BY <1>5, <3>2, NothingAssumption, OwnershipFixed
         DEF FailConversion, OutcomeInv, IInv, TypeOK, Begun
    <3>3. QED
      BY <1>5, <3>1, <3>2 DEF FailConversion
  <2>2. QED
    BY <1>4, <1>5, <2>1 DEF FailConversion
<1>6. CASE FindCycle
  <2>1. OutcomeInv'
    BY <1>6, NothingAssumption, OwnershipFixed DEF FindCycle, OutcomeInv, IInv, TypeOK, Begun
  <2>2. QED
    BY <1>4, <1>6, <2>1 DEF FindCycle
<1>7. CASE ReachRoot
  <2>1. OutcomeInv'
    BY <1>7, OwnershipFixed DEF ReachRoot, OutcomeInv
  <2>2. QED
    BY <1>4, <1>7, <2>1 DEF ReachRoot
<1>8. CASE FailLookup
  <2>1. OutcomeInv'
    BY <1>8 DEF FailLookup, OutcomeInv
  <2>2. QED
    BY <1>4, <1>8, <2>1 DEF FailLookup
<1>9. CASE NameResourceSet
  <2>1. OutcomeInv'
    BY <1>9, OwnershipFixed DEF NameResourceSet, OutcomeInv, IInv
  <2>2. QED
    BY <1>4, <1>9, <2>1 DEF NameResourceSet
<1>10. CASE UNCHANGED vars
  <2>1. OutcomeInv'
    BY <1>10, OwnershipFixed DEF vars, OutcomeInv, IInv, Begun
  <2>2. QED
    BY <1>4, <1>10, <2>1 DEF vars
<1>11. QED
  BY <1>2, <1>3, <1>5, <1>6, <1>7, <1>8, <1>9, <1>10 DEF Next

\* Once the walk has stopped at a root, at a cycle or where the path breaks off, the
\* visited services are exactly the reachable ones.
LEMMA VisitedIsReach ==
    ASSUME IInv, Begun, pc \in {"root", "named", "ValueError"}
    PROVE  visited = Reach(start)
<1>1. Closed(visited)
  BY NothingAssumption DEF IInv, PathInv, OutcomeInv, Closed, Begun
<1>2. visited \in SUBSET Ids /\ start \in visited /\ start \in Ids
  BY DEF IInv, PathInv, TypeOK
<1>3. Reach(start) \subseteq visited
  BY <1>1, <1>2, ReachInClosed
<1>4. QED
  BY <1>3 DEF IInv, PathInv

LEMMA InvImplies ==
    IInv => RootIsTheOnlyOwnerless /\ PathSharesTheRoot /\ ValueErrorIsReal
<1> SUFFICES ASSUME IInv
             PROVE  RootIsTheOnlyOwnerless /\ PathSharesTheRoot /\ ValueErrorIsReal
  OBVIOUS
<1>1. visited \subseteq Ids /\ start \in Ids \cup NoIds
  BY DEF IInv, TypeOK
<1>2. ASSUME pc \in {"root", "named"}
      PROVE  root \in Ids /\ PathInv /\ visited = Reach(start) /\ GetOwner(root) = NoOwner
  <2>1. root \in Ids /\ Begun
    BY <1>2, NothingAssumption DEF IInv, TypeOK, Begun
  <2>2. QED
    BY <1>2, <2>1, VisitedIsReach DEF IInv, OutcomeInv
<1>3. RootIsTheOnlyOwnerless
  <2> SUFFICES ASSUME pc \in {"root", "named"}
               PROVE  /\ root \in DOMAIN services
                      /\ {id \in Reach(start) : GetOwner(id) = NoOwner} = {root}
    BY DEF RootIsTheOnlyOwnerless
  <2>1. root \in Ids /\ PathInv /\ visited = Reach(start) /\ GetOwner(root) = NoOwner
    BY <1>2
  <2>2. root \in DOMAIN services
    BY <2>1, GetOwnerType DEF IInv, NoOwner, LookupError
  <2>3. \A id \in visited \ {root} : GetOwner(id) # NoOwner
    BY <1>1, <2>1, NothingAssumption DEF PathInv
  <2>4. QED
    BY <2>1, <2>2, <2>3 DEF PathInv
<1>4. PathSharesTheRoot
  BY <1>2 DEF PathSharesTheRoot, PathInv
<1>5. ValueErrorIsReal
  <2> SUFFICES ASSUME pc = "ValueError", start \notin NoIds
               PROVE  \A id \in Reach(start) : GetOwner(id) \in Reach(start) \cup {ValueError}
    BY DEF ValueErrorIsReal
  <2>1. PathInv /\ visited = Reach(start) /\ GetOwner(root) \in visited \cup {ValueError}
    BY VisitedIsReach DEF IInv, OutcomeInv
  <2>2. QED
    BY <2>1 DEF PathInv
<1>6. QED
  BY <1>3, <1>4, <1>5

\* get_owner_root finds the one ownerless service above the given one, whatever
\* the inventory: its result does not depend on the way up.
THEOREM RootCorrect == Spec => [](RootIsTheOnlyOwnerless /\ PathSharesTheRoot)
<1>1. IInv => RootIsTheOnlyOwnerless /\ PathSharesTheRoot
  BY InvImplies
<1>2. QED
  BY InvInit, InvNext, <1>1, PTL DEF Spec

\* Whatever the inventory, ValueError never stands for a root that could have been found:
\* the path up from the service is a cycle or breaks off at a value that is no uuid.
THEOREM ValueErrorCorrect == Spec => []ValueErrorIsReal
<1>1. IInv => ValueErrorIsReal
  BY InvImplies
<1>2. QED
  BY InvInit, InvNext, <1>1, PTL DEF Spec
=============================================================================
