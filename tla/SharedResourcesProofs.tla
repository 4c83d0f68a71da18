------------------------ MODULE SharedResourcesProofs ------------------------
(***************************************************************************)
(* What SharedResources promises, for any resources, sets and hashes: the  *)
(* memory of LsmProject never forgets, and agrees with every export that   *)
(* was accepted.                                                           *)
(***************************************************************************)
EXTENDS SharedResources, TLAPS

\* What has been accepted as shared is remembered as it was, and nothing the last
\* passed validation saw as owned is.
MemoryInv ==
    /\ \A one \in accepted :
         one.resource \in Known /\ sharedSet[one.resource] = one.hash
    /\ result = "passed" => Owned \cap Known = {}

IInv == TypeOK /\ MemoryInv

-----------------------------------------------------------------------------
\* The resources of an export, with their kinds and hashes.
LEMMA ExportType ==
    ASSUME export \in Exports
    PROVE  /\ DOMAIN export \subseteq Resources
           /\ \A r \in DOMAIN export : export[r].hash \in Hashes
           /\ Owned \subseteq DOMAIN export
           /\ SharedResources = DOMAIN export \ Owned
  BY DEF Exports, Emissions, Owned, SharedResources

\* Remembering adds to the memory and changes nothing that is in it.
LEMMA RememberKeeps ==
    ASSUME NEW new, Remember(new)
    PROVE  /\ Known' = Known \cup new
           /\ \A r \in Known : sharedSet'[r] = sharedSet[r]
           /\ \A r \in new \ Known : sharedSet'[r] = export[r].hash
  BY DEF Remember, Known

LEMMA RememberType ==
    ASSUME TypeOK, NEW new \in SUBSET SharedResources, Remember(new)
    PROVE  Known' \subseteq Resources /\ sharedSet' \in [Known' -> Hashes]
<1>1. new \subseteq Resources /\ \A r \in new : export[r].hash \in Hashes
  BY ExportType DEF TypeOK
<1>2. \A r \in Known : sharedSet[r] \in Hashes
  BY DEF TypeOK
<1>3. QED
  BY <1>1, <1>2 DEF TypeOK, Remember, Known

LEMMA TypeInit == Init => TypeOK
<1> SUFFICES ASSUME Init PROVE TypeOK
  OBVIOUS
<1>1. export \in Exports
  <2>1. NoResource \in [{} -> Emissions]
    BY DEF NoResource
  <2>2. QED
    BY <2>1 DEF Init, Exports
<1>2. Known = {} /\ sharedSet \in [Known -> Hashes]
  BY DEF Init, NoResource, Known
<1>3. QED
  BY <1>1, <1>2 DEF Init, TypeOK

LEMMA TypeNext == TypeOK /\ [Next]_vars => TypeOK'
<1> SUFFICES ASSUME TypeOK, [Next]_vars PROVE TypeOK'
  OBVIOUS
<1>1. CASE ChangeServices
  BY <1>1 DEF ChangeServices, TypeOK, Known
<1>2. CASE PartialCompile
  BY <1>2 DEF PartialCompile, TypeOK, Known
<1>3. ASSUME NEW root, NEW additional, NEW patterns, Validate(root, additional, patterns)
      PROVE  TypeOK'
  BY <1>3 DEF Validate, End, TypeOK, Known
<1>4. CASE FullCompile
  BY <1>4 DEF FullCompile, End, TypeOK, Known
<1>5. CASE SharedChanged
  <2>1. PICK new \in SUBSET SharedResources : Remember(new)
    BY <1>5 DEF SharedChanged
  <2>2. Known' \subseteq Resources /\ sharedSet' \in [Known' -> Hashes]
    BY <2>1, RememberType
  <2>3. QED
    BY <1>5, <2>2 DEF SharedChanged, End, TypeOK
<1>6. CASE SharedIsOwned
  <2>1. Known' \subseteq Resources /\ sharedSet' \in [Known' -> Hashes]
    BY <1>6, RememberType DEF SharedIsOwned
  <2>2. QED
    BY <1>6, <2>1 DEF SharedIsOwned, End, TypeOK
<1>7. CASE PartialAccepted \/ FullAccepted
  <2>1. Accept
    BY <1>7 DEF PartialAccepted, FullAccepted
  <2>2. Known' \subseteq Resources /\ sharedSet' \in [Known' -> Hashes]
    BY <2>1, RememberType DEF Accept
  <2>3. accepted' \subseteq [resource : Resources, hash : Hashes]
    BY <2>1, ExportType DEF Accept, TypeOK
  <2>4. QED
    BY <1>7, <2>1, <2>2, <2>3 DEF PartialAccepted, FullAccepted, Accept, End, TypeOK
<1>8. CASE UNCHANGED vars
  BY <1>8 DEF vars, TypeOK, Known
<1>9. QED
  BY <1>1, <1>2, <1>3, <1>4, <1>5, <1>6, <1>7, <1>8 DEF Next

\* The memory, the last export and what was accepted keep their types.
THEOREM TypeCorrect == Spec => []TypeOK
  BY TypeInit, TypeNext, PTL DEF Spec

-----------------------------------------------------------------------------
LEMMA MemoryInit == Init => MemoryInv
  BY DEF Init, MemoryInv

\* A step that accepts nothing and passes nothing keeps the memory right.
LEMMA MemoryKept ==
    ASSUME MemoryInv, accepted' = accepted, result' # "passed",
           Known \subseteq Known', \A r \in Known : sharedSet'[r] = sharedSet[r]
    PROVE  MemoryInv'
  BY DEF MemoryInv

\* An export that is accepted agrees with the memory, and is remembered.
LEMMA MemoryAccepts ==
    ASSUME TypeOK, MemoryInv, Accept
    PROVE  MemoryInv'
<1>1. /\ Known' = Known \cup SharedResources
      /\ \A r \in Known : sharedSet'[r] = sharedSet[r]
      /\ \A r \in SharedResources \ Known : sharedSet'[r] = export[r].hash
  BY RememberKeeps DEF Accept
<1>2. \A r \in SharedResources : sharedSet'[r] = export[r].hash
  BY <1>1 DEF Accept, Accepted, Changed
<1>3. \A one \in accepted' : one.resource \in Known' /\ sharedSet'[one.resource] = one.hash
  <2>1. ASSUME NEW one \in accepted
        PROVE  one.resource \in Known' /\ sharedSet'[one.resource] = one.hash
    BY <1>1, <2>1 DEF MemoryInv
  <2>2. ASSUME NEW r \in SharedResources,
               NEW one, one = [resource |-> r, hash |-> export[r].hash]
        PROVE  one.resource \in Known' /\ sharedSet'[one.resource] = one.hash
    BY <1>1, <1>2, <2>2
  <2>3. QED
    BY <2>1, <2>2 DEF Accept
<1>4. Owned' = Owned /\ SharedResources \cap Owned = {}
  BY DEF Accept, Owned, SharedResources
<1>5. Owned' \cap Known' = {}
  BY <1>1, <1>4 DEF Accept, Accepted
<1>6. QED
  BY <1>3, <1>5 DEF MemoryInv

LEMMA MemoryNext == TypeOK /\ MemoryInv /\ [Next]_vars => MemoryInv'
<1> SUFFICES ASSUME TypeOK, MemoryInv, [Next]_vars PROVE MemoryInv'
  OBVIOUS
<1>1. CASE ChangeServices
  BY <1>1, MemoryKept DEF ChangeServices, Known
<1>2. CASE PartialCompile
  BY <1>2, MemoryKept DEF PartialCompile, Known
<1>3. ASSUME NEW root, NEW additional, NEW patterns, Validate(root, additional, patterns)
      PROVE  MemoryInv'
  BY <1>3, MemoryKept DEF Validate, End, Known
<1>4. CASE FullCompile
  <2>1. result' # "passed"
    BY <1>4 DEF FullCompile, End, TypeOK
  <2>2. QED
    BY <1>4, <2>1, MemoryKept DEF FullCompile, Known
<1>5. CASE SharedChanged
  <2>1. PICK new : Remember(new)
    BY <1>5 DEF SharedChanged
  <2>2. QED
    BY <1>5, <2>1, RememberKeeps, MemoryKept DEF SharedChanged, End
<1>6. CASE SharedIsOwned
  <2>1. result' # "passed"
    BY <1>6 DEF SharedIsOwned, End
  <2>2. QED
    BY <1>6, <2>1, RememberKeeps, MemoryKept DEF SharedIsOwned
<1>7. CASE PartialAccepted \/ FullAccepted
  BY <1>7, MemoryAccepts DEF PartialAccepted, FullAccepted
<1>8. CASE UNCHANGED vars
  BY <1>8 DEF vars, MemoryInv, Known, Owned
<1>9. QED
  BY <1>1, <1>2, <1>3, <1>4, <1>5, <1>6, <1>7, <1>8 DEF Next

LEMMA InvInit == Init => IInv
  BY TypeInit, MemoryInit DEF IInv
LEMMA InvNext == IInv /\ [Next]_vars => IInv'
  BY TypeNext, MemoryNext DEF IInv

\* A shared resource that was accepted once is the same in every later export that
\* is accepted.
THEOREM SharedIsStable == Spec => []SharedNeverChanges
<1>1. IInv => SharedNeverChanges
  <2> SUFFICES ASSUME IInv, NEW one \in accepted, NEW other \in accepted,
                      one.resource = other.resource
               PROVE  one = other
    BY DEF SharedNeverChanges
  <2>1. one.hash = other.hash
    BY DEF IInv, MemoryInv
  <2>2. /\ one \in [resource : Resources, hash : Hashes]
        /\ other \in [resource : Resources, hash : Hashes]
    BY DEF IInv, TypeOK
  <2>3. QED
    BY <2>1, <2>2
<1>2. QED
  BY InvInit, InvNext, <1>1, PTL DEF Spec

\* A validation that passes has seen no resource as owned that was ever accepted
\* as shared.
THEOREM SharedIsUnowned == Spec => []SharedNeverOwned
<1>1. IInv => SharedNeverOwned
  BY DEF IInv, MemoryInv, SharedNeverOwned
<1>2. QED
  BY InvInit, InvNext, <1>1, PTL DEF Spec
=============================================================================
