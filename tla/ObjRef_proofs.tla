----------------------------- MODULE ObjRef_proofs -----------------------------
(* Proofs about the references of a source, for every finite set of        *)
(* holders.                                                                *)
EXTENDS ObjRef, FiniteSetTheorems, TLAPS

\* Which lookups are safe: those that return what they got, and enumerations of
\* a list under the mutex the destruction waits for.  Removals do not overlap:
\* the frontend removes sources on its UI thread.
Careful ==
    /\ ~RemovalsOverlap
    /\ Lookups \cap {"by_name", "by_uuid"} = {}
    /\ \A l \in Lookups \cap Enumerations : Guard[ListOf[l]] = ContextMutex

-----------------------------------------------------------------------------
(* The inductive invariant.                                                *)

Searching(h) == pc[h] \in {"load", "exchange"}
Locking(h) == op[h] \in Lookups
Destroying(h) == pc[h] \in {"destroy", "unlist_uuid", "unlist_name", "queue",
                            "drop_control"}

\* A holder's operation fits where the holder is.
OpsFit ==
    \A h \in Holders :
        /\ pc[h] = "idle" => op[h] = "none"
        /\ pc[h] \in {"load", "exchange", "found", "expired"} => op[h] # "none"
        /\ pc[h] = "next" => Enumerating(h)
        /\ pc[h] = "expired" => ~Enumerating(h)
        /\ Destroying(h) => op[h] = "none" \/ Enumerating(h)

\* A lookup has its list locked.
Locked == \A h \in Holders : Locking(h) => mutex[MutexOf(h)] = h

\* The counts are those of the holders.
WeakCounted == weak_refs = Cardinality(weak) - (IF control = "held" THEN 0 ELSE 1)

\* A lookup finds a source that is listed, and its holder has nothing to lose.
Searches ==
    \A h \in Holders :
        /\ Searching(h) => h \notin strong
        /\ Searching(h) /\ ~Locking(h) => h \in weak
        /\ Searching(h) /\ Locking(h) => ListOf[op[h]] \in listed
        /\ pc[h] = "found" => h \in strong

\* A source is destroyed by the one holder that released the last reference.
OneDestroys ==
    /\ \A g, h \in Holders : Destroying(g) /\ Destroying(h) => g = h
    /\ destroying \/ (\E h \in Holders : Destroying(h)) => strong = {}
    /\ \A h \in Holders : pc[h] = "destroy" => ~destroying

\* Who removes the source holds it, once more after obs_source_get_ref, and is
\* alone.  The reference of the canvas goes before source->canvas is reset, and
\* the place in its list before both.
Removals ==
    /\ \A h \in Holders : Removing(h) => h \in strong /\ ~Searching(h) /\ ~Destroying(h)
    /\ \A h \in Holders : Removing(h) => op[h] = "none" \/ Enumerating(h)
    /\ \A g, h \in Holders : Removing(g) /\ Removing(h) => g = h
    /\ \A h \in Holders : h \in own <=> Removing(h) /\ pc[h] # "get_own"
    /\ canvas => OfCanvas
    /\ \A h \in Holders :
        pc[h] \in {"leave_canvas", "release_canvas", "forget_canvas"} => canvas
    /\ canvas /\ SceneRef =>
        Canvas \in strong \/ \E h \in Holders : pc[h] = "forget_canvas"
    /\ \A h \in Holders :
        pc[h] \in {"release_canvas", "forget_canvas"} => "name" \notin listed
    /\ \A h \in Holders : pc[h] = "release_canvas" /\ SceneRef => Canvas \in strong
    /\ Canvas \in strong => SceneRef
    /\ OfCanvas /\ ~canvas => "name" \notin listed

\* How far the destruction is.
Phases ==
    /\ source # "alive" => listed = {} /\ destroying
    /\ control # "held" => source # "alive" /\ ~ \E h \in Holders : Destroying(h)
    /\ \A h \in Holders :
        /\ pc[h] \in {"unlist_uuid", "unlist_name", "queue"} => source = "alive"
        /\ Destroying(h) /\ pc[h] # "destroy" => destroying
        /\ pc[h] \in {"unlist_name", "queue"} => "uuid" \notin listed
        /\ pc[h] = "queue" => listed = {}
        /\ pc[h] = "drop_control" => source # "alive"

\* The source is not freed while its list is walked.
WalksSafe == \A h \in Holders : Enumerating(h) => source # "freed"

\* A freed control has no weak references.
ControlFreed == control = "freed" => weak = {}

IInv ==
    /\ TypeOK /\ OpsFit /\ Locked /\ Counted /\ WeakCounted /\ Searches
    /\ OneDestroys /\ Removals /\ Phases /\ WalksSafe /\ ControlFreed

-----------------------------------------------------------------------------
(* Facts about lookups, mutexes and counts.                                *)

\* A lookup searches a list that is under a mutex.
LEMMA LookupType ==
    ASSUME NEW l \in Lookups
    PROVE  /\ ListOf[l] \in Lists
           /\ Guard[ListOf[l]] \in Mutexes
           /\ l \notin {"none", "weak"}
           /\ l \in Enumerations => l \notin {"by_name", "by_uuid", "transition"}
<1>1. l \in {"by_name", "by_uuid", "transition", "enum_sources", "enum_scenes"}
  BY LookupsAssumption DEF ListOf
<1>2. ListOf[l] \in Lists
  BY <1>1 DEF ListOf, Lists
<1>3. Guard[ListOf[l]] \in Mutexes
  BY <1>2 DEF Lists, Mutexes
<1> QED  BY <1>1, <1>2, <1>3 DEF Enumerations

\* The sets of holders have cardinalities, which change by one.
LEMMA Finite ==
    ASSUME TypeOK
    PROVE  /\ Cardinality(strong) \in Nat /\ Cardinality(weak) \in Nat
           /\ Cardinality(own) \in Nat
           /\ Cardinality(strong) = 0 <=> strong = {}
           /\ Cardinality(weak) = 0 <=> weak = {}
           /\ Cardinality(own) = 0 <=> own = {}
<1>1. IsFiniteSet(Holders \cup {Canvas})
  BY HoldersAssumption, FS_AddElement
<1>2. IsFiniteSet(strong) /\ IsFiniteSet(weak) /\ IsFiniteSet(own)
  BY <1>1, FS_Subset, HoldersAssumption DEF TypeOK
<1> QED  BY <1>2, FS_CardinalityType, FS_EmptySet

LEMMA CardinalityAdd ==
    ASSUME NEW S \in SUBSET (Holders \cup {Canvas}), NEW h, h \notin S
    PROVE  Cardinality(S \cup {h}) = Cardinality(S) + 1
<1>1. IsFiniteSet(Holders \cup {Canvas})
  BY HoldersAssumption, FS_AddElement
<1> QED  BY <1>1, FS_Subset, FS_AddElement

LEMMA CardinalityRemove ==
    ASSUME NEW S \in SUBSET (Holders \cup {Canvas}), NEW h \in S
    PROVE  /\ Cardinality(S \ {h}) = Cardinality(S) - 1
           /\ Cardinality(S \ {h}) \in Nat
           /\ Cardinality(S \ {h}) = 0 => S \ {h} = {}
<1>1. IsFiniteSet(Holders \cup {Canvas})
  BY HoldersAssumption, FS_AddElement
<1>2. IsFiniteSet(S)
  BY <1>1, FS_Subset
<1>3. IsFiniteSet(S \ {h})
  BY <1>2, FS_RemoveElement
<1> QED  BY <1>2, <1>3, FS_RemoveElement, FS_CardinalityType, FS_EmptySet

\* Who has the reference of obs_source_remove has the caller's as well, so that
\* a source without holders has the count -1.
LEMMA OwnHeld ==
    ASSUME IInv
    PROVE  /\ own \subseteq strong
           /\ strong = {} => refs = -1
           /\ refs \in Int
           /\ strong = {} => own = {}
<1>1. own \subseteq strong
  BY DEF IInv, Removals, TypeOK
<1>2. strong = {} => Cardinality(strong) = 0 /\ Cardinality(own) = 0
  BY <1>1, Finite DEF IInv
<1> QED  BY <1>1, <1>2 DEF IInv, Counted, TypeOK

-----------------------------------------------------------------------------
(* Every step keeps the invariant.                                         *)

LEMMA AddRefKeeps ==
    ASSUME Careful, IInv, NEW h \in Holders, NEW g \in Holders, AddRef(h, g)
    PROVE  IInv'
<1> USE DEF AddRef, Using, Calling, counts, held, removal, destruction
<1>1. Cardinality(strong \cup {g}) = Cardinality(strong) + 1
  BY CardinalityAdd DEF IInv, TypeOK
<1>2. TypeOK'
  BY DEF IInv, TypeOK
<1>3. OpsFit'
  BY DEF IInv, OpsFit, Enumerating, Destroying
<1>4. Locked'
  BY DEF IInv, Locked, Locking, MutexOf
<1>5. Counted'
  BY <1>1, Finite DEF IInv, Counted, TypeOK, Searches, Searching
<1>6. WeakCounted' /\ ControlFreed'
  BY DEF IInv, WeakCounted, ControlFreed
<1>7. Searches'
  BY DEF IInv, Searches, Searching, Locking
<1>8. OneDestroys'
  BY DEF IInv, OneDestroys, Destroying
<1>9. Phases'
  BY DEF IInv, Phases, Destroying
<1>10. WalksSafe'
  BY DEF IInv, WalksSafe, Enumerating
<1>20. Removals'
  BY HoldersAssumption DEF IInv, Removals, Removing, Searching, Destroying, Enumerating, OneDestroys, Searches, TypeOK
<1> QED  BY <1>2, <1>3, <1>4, <1>5, <1>6, <1>7, <1>8, <1>9, <1>10, <1>20 DEF IInv

LEMMA WeakAddRefKeeps ==
    ASSUME Careful, IInv, NEW h \in Holders, NEW g \in Holders, WeakAddRef(h, g)
    PROVE  IInv'
<1> USE DEF WeakAddRef, Using, Calling, counts, held, removal, destruction
<1>1. Cardinality(weak \cup {g}) = Cardinality(weak) + 1
  BY CardinalityAdd DEF IInv, TypeOK
<1>2. TypeOK'
  BY DEF IInv, TypeOK
<1>3. OpsFit'
  BY DEF IInv, OpsFit, Enumerating, Destroying
<1>4. Locked'
  BY DEF IInv, Locked, Locking, MutexOf
<1>5. Counted'
  BY DEF IInv, Counted
<1>6. WeakCounted' /\ ControlFreed'
  BY <1>1, Finite DEF IInv, WeakCounted, ControlFreed, Phases, TypeOK, OneDestroys, Destroying
<1>7. Searches'
  BY DEF IInv, Searches, Searching, Locking
<1>8. OneDestroys'
  BY DEF IInv, OneDestroys, Destroying
<1>9. Phases'
  BY DEF IInv, Phases, Destroying
<1>10. WalksSafe'
  BY DEF IInv, WalksSafe, Enumerating
<1>20. Removals'
  BY DEF IInv, Removals, Removing, Searching, Destroying, Enumerating, OneDestroys, Searches, TypeOK
<1> QED  BY <1>2, <1>3, <1>4, <1>5, <1>6, <1>7, <1>8, <1>9, <1>10, <1>20 DEF IInv

LEMMA WeakReleaseKeeps ==
    ASSUME Careful, IInv, NEW h \in Holders, WeakRelease(h)
    PROVE  IInv'
<1> USE DEF WeakRelease, counts, held, removal, destruction
<1>1. /\ Cardinality(weak \ {h}) = Cardinality(weak) - 1
      /\ Cardinality(weak \ {h}) \in Nat
      /\ Cardinality(weak \ {h}) = 0 => weak \ {h} = {}
  BY CardinalityRemove DEF IInv, TypeOK
<1>0. /\ control = "held" => control' = "held"
      /\ control' = "freed" => weak' = {}
  BY <1>1, Finite DEF IInv, TypeOK, WeakCounted, ControlFreed
<1>2. TypeOK'
  BY <1>1, Finite DEF IInv, TypeOK, Labels, Lists, Counted, WeakCounted
<1>3. OpsFit'
  BY DEF IInv, OpsFit, Enumerating, Destroying
<1>4. Locked'
  BY DEF IInv, Locked, Locking, MutexOf
<1>5. Counted'
  BY DEF IInv, Counted
<1>6. WeakCounted' /\ ControlFreed'
  BY <1>1, <1>0, Finite DEF IInv, TypeOK, WeakCounted, ControlFreed
<1>7. Searches'
  BY DEF IInv, Searches, Searching, Locking
<1>8. OneDestroys'
  BY DEF IInv, OneDestroys, Destroying
<1>9. Phases'
  BY <1>0 DEF IInv, Phases, Destroying
<1>10. WalksSafe'
  BY DEF IInv, WalksSafe, Enumerating
<1>20. Removals'
  BY DEF IInv, Removals, Removing, Searching, Destroying, Enumerating, OneDestroys, Searches, TypeOK
<1> QED  BY <1>2, <1>3, <1>4, <1>5, <1>6, <1>7, <1>8, <1>9, <1>10, <1>20 DEF IInv

LEMMA GetSourceKeeps ==
    ASSUME Careful, IInv, NEW h \in Holders, GetSource(h)
    PROVE  IInv'
<1> USE DEF GetSource, counts, held, removal, destruction
<1>1. TypeOK'
  BY DEF IInv, TypeOK, Labels, Lists
<1>2. OpsFit'
  BY DEF IInv, OpsFit, Enumerating, Destroying, TypeOK, Enumerations
<1>3. Locked'
  BY Finite, LookupType, HoldersAssumption DEF IInv, Locked, Locking, MutexOf, TypeOK, Enumerating, OpsFit, Enumerations
<1>4. Counted'
  BY DEF IInv, Counted
<1>5. WeakCounted' /\ ControlFreed'
  BY DEF IInv, WeakCounted, ControlFreed
<1>6. Searches'
  BY Finite, LookupType, HoldersAssumption DEF IInv, Searches, Searching, Locking, TypeOK, OpsFit, Enumerating, Enumerations, Locked, MutexOf, CanLock, Phases
<1>7. OneDestroys'
  BY DEF IInv, OneDestroys, Destroying
<1>8. Phases'
  BY DEF IInv, Phases, Destroying
<1>9. WalksSafe'
  BY Finite DEF IInv, WalksSafe, Enumerating, TypeOK, Phases, Locked, Locking, MutexOf, Careful, Enumerations, Searches, Searching
<1>20. Removals'
  BY DEF IInv, Removals, Removing, Searching, Destroying, Enumerating, OneDestroys, Searches, TypeOK
<1> QED  BY <1>1, <1>2, <1>3, <1>4, <1>5, <1>6, <1>7, <1>8, <1>9, <1>20 DEF IInv

LEMMA FindKeeps ==
    ASSUME Careful, IInv, NEW h \in Holders, NEW l \in Lookups, Find(h, l)
    PROVE  IInv'
<1> USE DEF Find, counts, held, removal, destruction
<1>1. TypeOK'
  BY DEF IInv, TypeOK, Labels, Lists
<1>2. OpsFit'
  BY Finite, LookupType, HoldersAssumption DEF IInv, OpsFit, Enumerating, Destroying, TypeOK, Enumerations
<1>3. Locked'
  BY Finite, LookupType, HoldersAssumption DEF IInv, Locked, Locking, MutexOf, TypeOK, Enumerating, OpsFit, Enumerations
<1>4. Counted'
  BY DEF IInv, Counted
<1>5. WeakCounted' /\ ControlFreed'
  BY DEF IInv, WeakCounted, ControlFreed
<1>6. Searches'
  BY DEF IInv, Searches, Searching, Locking, TypeOK, OpsFit, Enumerating, Enumerations
<1>7. OneDestroys'
  BY DEF IInv, OneDestroys, Destroying
<1>8. Phases'
  BY DEF IInv, Phases, Destroying
<1>9. WalksSafe'
  BY DEF IInv, WalksSafe, Enumerating, TypeOK, Phases
<1>20. Removals'
  BY DEF IInv, Removals, Removing, Searching, Destroying, Enumerating, OneDestroys, Searches, TypeOK
<1> QED  BY <1>1, <1>2, <1>3, <1>4, <1>5, <1>6, <1>7, <1>8, <1>9, <1>20 DEF IInv

LEMMA LoadKeeps ==
    ASSUME Careful, IInv, NEW h \in Holders, Load(h)
    PROVE  IInv'
<1> USE DEF Load, counts, held, removal, destruction
<1>1. TypeOK'
  BY DEF IInv, TypeOK, Labels, Lists
<1>2. OpsFit'
  BY DEF IInv, OpsFit, Enumerating, Destroying
<1>3. Locked'
  BY DEF IInv, Locked, Locking, MutexOf
<1>4. Counted'
  BY DEF IInv, Counted
<1>5. WeakCounted' /\ ControlFreed'
  BY DEF IInv, WeakCounted, ControlFreed
<1>6. Searches'
  BY DEF IInv, Searches, Searching, Locking
<1>7. OneDestroys'
  BY DEF IInv, OneDestroys, Destroying
<1>8. Phases'
  BY DEF IInv, Phases, Destroying
<1>9. WalksSafe'
  BY DEF IInv, WalksSafe, Enumerating
<1>20. Removals'
  BY DEF IInv, Removals, Removing, Searching, Destroying, Enumerating, OneDestroys, Searches, TypeOK
<1> QED  BY <1>1, <1>2, <1>3, <1>4, <1>5, <1>6, <1>7, <1>8, <1>9, <1>20 DEF IInv

LEMMA ExchangeKeeps ==
    ASSUME Careful, IInv, NEW h \in Holders, Exchange(h)
    PROVE  IInv'
<1> USE DEF Exchange, counts, held, removal, destruction
<1>1. h \notin strong
  BY DEF IInv, Searches, Searching
<1>2. TypeOK'
  BY <1>1 DEF IInv, TypeOK, Labels, Lists
<1>3. OpsFit'
  BY <1>1 DEF IInv, OpsFit, Enumerating, Destroying, TypeOK, Enumerations
<1>4. Locked'
  BY DEF IInv, Locked, Locking, MutexOf
<1>5. Counted'
  <2>1. Cardinality(strong \cup {h}) = Cardinality(strong) + 1
    BY <1>1, CardinalityAdd DEF IInv, TypeOK
  <2>2. CASE refs = owners[h]
    <3>1. refs' = refs + 1 /\ strong' = strong \cup {h}
      BY <2>2
    <3>2. /\ refs = Cardinality(strong) + Cardinality(own) - 1
          /\ Cardinality(strong) \in Nat /\ Cardinality(own) \in Nat /\ own' = own
      BY Finite DEF IInv, TypeOK, Counted
    <3>3. Cardinality(strong') = Cardinality(strong) + 1
      BY <2>1, <3>1
    <3> HIDE DEF Exchange
    <3> QED  BY <3>1, <3>2, <3>3 DEF Counted
  <2>3. CASE refs # owners[h]
    BY <2>3 DEF IInv, Counted
  <2> QED  BY <2>2, <2>3
<1>6. WeakCounted' /\ ControlFreed'
  BY DEF IInv, WeakCounted, ControlFreed
<1>7. Searches'
  BY <1>1 DEF IInv, Searches, Searching, Locking, TypeOK, OpsFit, Enumerating, Enumerations
<1>8. OneDestroys'
  BY <1>1, OwnHeld DEF IInv, OneDestroys, Destroying, TypeOK
<1>9. Phases'
  BY <1>1 DEF IInv, Phases, Destroying, TypeOK, OneDestroys, Lists
<1>10. WalksSafe'
  BY DEF IInv, WalksSafe, Enumerating
<1>20. Removals'
  BY HoldersAssumption DEF IInv, Removals, Removing, Searching, Destroying, Enumerating, OneDestroys, Searches, TypeOK
<1> QED  BY <1>2, <1>3, <1>4, <1>5, <1>6, <1>7, <1>8, <1>9, <1>10, <1>20 DEF IInv

LEMMA ExpiredKeeps ==
    ASSUME Careful, IInv, NEW h \in Holders, Expired(h)
    PROVE  IInv'
<1> USE DEF Expired, counts, held, removal, destruction
<1>1. TypeOK'
  BY DEF IInv, TypeOK, Labels, Lists
<1>2. OpsFit'
  BY DEF IInv, OpsFit, Enumerating, Destroying
<1>3. Locked'
  BY DEF IInv, Locked, Locking, MutexOf
<1>4. Counted'
  BY DEF IInv, Counted
<1>5. WeakCounted' /\ ControlFreed'
  BY DEF IInv, WeakCounted, ControlFreed
<1>6. Searches'
  BY DEF IInv, Searches, Searching, Locking
<1>7. OneDestroys'
  BY DEF IInv, OneDestroys, Destroying
<1>8. Phases'
  BY DEF IInv, Phases, Destroying
<1>9. WalksSafe'
  BY DEF IInv, WalksSafe, Enumerating
<1>20. Removals'
  BY DEF IInv, Removals, Removing, Searching, Destroying, Enumerating, OneDestroys, Searches, TypeOK
<1> QED  BY <1>1, <1>2, <1>3, <1>4, <1>5, <1>6, <1>7, <1>8, <1>9, <1>20 DEF IInv

LEMMA ReturnKeeps ==
    ASSUME Careful, IInv, NEW h \in Holders, Return(h)
    PROVE  IInv'
<1> USE DEF Return, counts, held, removal, destruction
<1>1. strong' = strong
  BY DEF IInv, TypeOK, Careful
<1>2. TypeOK'
  BY DEF IInv, TypeOK, Labels, Lists
<1>3. OpsFit'
  BY DEF IInv, OpsFit, Enumerating, Destroying, TypeOK, Enumerations
<1>4. Locked'
  BY Finite, LookupType, HoldersAssumption DEF IInv, Locked, Locking, MutexOf, TypeOK, Enumerating, OpsFit, Enumerations
<1>5. Counted'
  BY <1>1 DEF IInv, Counted
<1>6. WeakCounted' /\ ControlFreed'
  BY DEF IInv, WeakCounted, ControlFreed
<1>7. Searches'
  BY DEF IInv, Searches, Searching, Locking
<1>8. OneDestroys'
  BY <1>1 DEF IInv, OneDestroys, Destroying
<1>9. Phases'
  BY DEF IInv, Phases, Destroying
<1>10. WalksSafe'
  BY Finite DEF IInv, WalksSafe, Enumerating, TypeOK, Phases, Locked, Locking, MutexOf, Careful, Enumerations, Searches, Searching
<1>20. Removals'
  BY <1>1, HoldersAssumption DEF IInv, Removals, Removing, Searching, Destroying, Enumerating, OneDestroys, Searches, TypeOK
<1> QED  BY <1>2, <1>3, <1>4, <1>5, <1>6, <1>7, <1>8, <1>9, <1>10, <1>20 DEF IInv

LEMMA NextElementKeeps ==
    ASSUME Careful, IInv, NEW h \in Holders, NextElement(h)
    PROVE  IInv'
<1> USE DEF NextElement, counts, held, removal, destruction
<1>1. TypeOK'
  BY DEF IInv, TypeOK, Labels, Lists
<1>2. OpsFit'
  BY DEF IInv, OpsFit, Enumerating, Destroying, TypeOK, Enumerations
<1>3. Locked'
  BY Finite, LookupType, HoldersAssumption DEF IInv, Locked, Locking, MutexOf, TypeOK, Enumerating, OpsFit, Enumerations
<1>4. Counted'
  BY DEF IInv, Counted
<1>5. WeakCounted' /\ ControlFreed'
  BY DEF IInv, WeakCounted, ControlFreed
<1>6. Searches'
  BY DEF IInv, Searches, Searching, Locking
<1>7. OneDestroys'
  BY DEF IInv, OneDestroys, Destroying
<1>8. Phases'
  BY DEF IInv, Phases, Destroying
<1>9. WalksSafe'
  BY Finite DEF IInv, WalksSafe, Enumerating, TypeOK, Phases, Locked, Locking, MutexOf, Careful, Enumerations, Searches, Searching
<1>20. Removals'
  BY DEF IInv, Removals, Removing, Searching, Destroying, Enumerating, OneDestroys, Searches, TypeOK
<1> QED  BY <1>1, <1>2, <1>3, <1>4, <1>5, <1>6, <1>7, <1>8, <1>9, <1>20 DEF IInv

LEMMA RemoveTestKeeps ==
    ASSUME Careful, IInv, NEW h \in Holders, RemoveTest(h)
    PROVE  IInv'
<1> USE DEF RemoveTest, Using, Calling, counts, held, removal, destruction
<1>1. TypeOK'
  BY DEF IInv, TypeOK, Labels, Lists
<1>2. OpsFit'
  BY DEF IInv, OpsFit, Enumerating, Destroying, Removals, Removing, Searching, TypeOK, Enumerations
<1>3. Locked'
  BY DEF IInv, Locked, Locking, MutexOf
<1>4. Counted'
  BY DEF IInv, Counted
<1>5. WeakCounted' /\ ControlFreed'
  BY DEF IInv, WeakCounted, ControlFreed
<1>6. Searches'
  BY DEF IInv, Searches, Searching, Locking, Removals, Removing, TypeOK
<1>7. OneDestroys'
  BY DEF IInv, OneDestroys, Destroying, Removals, Removing, TypeOK
<1>8. Phases'
  BY DEF IInv, Phases, Destroying, Removals, Removing, OneDestroys, TypeOK, Lists
<1>9. WalksSafe'
  BY DEF IInv, WalksSafe, Enumerating
<1>20. Removals'
  BY DEF IInv, Removals, Removing, Searching, Destroying, Enumerating, OneDestroys, Searches, TypeOK, OpsFit, Careful
<1> QED  BY <1>1, <1>2, <1>3, <1>4, <1>5, <1>6, <1>7, <1>8, <1>9, <1>20 DEF IInv

LEMMA GetOwnKeeps ==
    ASSUME Careful, IInv, NEW h \in Holders, GetOwn(h)
    PROVE  IInv'
<1> USE DEF GetOwn, Using, Calling, counts, held, removal, destruction
<1>0. h \notin own /\ h \in strong /\ refs' = refs + 1 /\ own' = own \cup {h} /\ strong' = strong
      /\ refs \in Int /\ own \in SUBSET (Holders \cup {Canvas}) /\ refs + 1 # -1
  BY Finite DEF IInv, Removals, Removing, TypeOK, Counted
<1>01. refs + 1 \in Nat /\ Cardinality(own') = Cardinality(own) + 1
  BY <1>0, CardinalityAdd DEF IInv, TypeOK
<1>1. TypeOK'
  BY <1>0, <1>01 DEF IInv, TypeOK, Labels, Lists
<1>2. OpsFit'
  BY <1>0, <1>01 DEF IInv, OpsFit, Enumerating, Destroying, Removals, Removing, Searching, TypeOK, Enumerations
<1>3. Locked'
  BY DEF IInv, Locked, Locking, MutexOf
<1>4. Counted'
  BY <1>0, <1>01, Finite DEF IInv, Counted, TypeOK
<1>5. WeakCounted' /\ ControlFreed'
  BY <1>0, <1>01 DEF IInv, WeakCounted, ControlFreed
<1>6. Searches'
  BY <1>0, <1>01 DEF IInv, Searches, Searching, Locking, Removals, Removing, TypeOK
<1>7. OneDestroys'
  BY <1>0, <1>01 DEF IInv, OneDestroys, Destroying, Removals, Removing, TypeOK
<1>8. Phases'
  BY <1>0, <1>01 DEF IInv, Phases, Destroying, Removals, Removing, OneDestroys, TypeOK, Lists
<1>9. WalksSafe'
  BY <1>0, <1>01 DEF IInv, WalksSafe, Enumerating
<1>20. Removals'
  BY <1>0, <1>01 DEF IInv, Removals, Removing, Searching, Destroying, Enumerating, OneDestroys, Searches, TypeOK, OpsFit, Careful
<1> QED  BY <1>1, <1>2, <1>3, <1>4, <1>5, <1>6, <1>7, <1>8, <1>9, <1>20 DEF IInv

LEMMA TestCanvasKeeps ==
    ASSUME Careful, IInv, NEW h \in Holders, TestCanvas(h)
    PROVE  IInv'
<1> USE DEF TestCanvas, Using, Calling, counts, held, removal, destruction
<1>1. TypeOK'
  BY DEF IInv, TypeOK, Labels, Lists
<1>2. OpsFit'
  BY DEF IInv, OpsFit, Enumerating, Destroying, Removals, Removing, Searching, TypeOK, Enumerations
<1>3. Locked'
  BY DEF IInv, Locked, Locking, MutexOf
<1>4. Counted'
  BY DEF IInv, Counted
<1>5. WeakCounted' /\ ControlFreed'
  BY DEF IInv, WeakCounted, ControlFreed
<1>6. Searches'
  BY DEF IInv, Searches, Searching, Locking, Removals, Removing, TypeOK
<1>7. OneDestroys'
  BY DEF IInv, OneDestroys, Destroying, Removals, Removing, TypeOK
<1>8. Phases'
  BY DEF IInv, Phases, Destroying, Removals, Removing, OneDestroys, TypeOK, Lists
<1>9. WalksSafe'
  BY DEF IInv, WalksSafe, Enumerating
<1>20. Removals'
  BY DEF IInv, Removals, Removing, Searching, Destroying, Enumerating, OneDestroys, Searches, TypeOK, OpsFit, Careful
<1> QED  BY <1>1, <1>2, <1>3, <1>4, <1>5, <1>6, <1>7, <1>8, <1>9, <1>20 DEF IInv

LEMMA LeaveCanvasKeeps ==
    ASSUME Careful, IInv, NEW h \in Holders, LeaveCanvas(h)
    PROVE  IInv'
<1> USE DEF LeaveCanvas, Using, Calling, counts, held, removal, destruction
<1>1. TypeOK'
  BY DEF IInv, TypeOK, Labels, Lists
<1>2. OpsFit'
  BY DEF IInv, OpsFit, Enumerating, Destroying, Removals, Removing, Searching, TypeOK, Enumerations
<1>3. Locked'
  BY DEF IInv, Locked, Locking, MutexOf
<1>4. Counted'
  BY DEF IInv, Counted
<1>5. WeakCounted' /\ ControlFreed'
  BY DEF IInv, WeakCounted, ControlFreed
<1>6. Searches'
  <2>1. ASSUME NEW k \in Holders, Searching(k), Locking(k)
        PROVE  ListOf[op[k]] \in listed'
    BY <2>1, LookupType, HoldersAssumption
       DEF IInv, TypeOK, OpsFit, Locked, Locking, MutexOf, Searches, Searching,
           Enumerating, CanLock, Removals, Removing
  <2> QED  BY <2>1 DEF IInv, Searches, Searching, Locking, TypeOK
<1>7. OneDestroys'
  BY DEF IInv, OneDestroys, Destroying, Removals, Removing, TypeOK
<1>8. Phases'
  BY DEF IInv, Phases, Destroying, Removals, Removing, OneDestroys, TypeOK, Lists
<1>9. WalksSafe'
  BY DEF IInv, WalksSafe, Enumerating
<1>20. Removals'
  BY DEF IInv, Removals, Removing, Searching, Destroying, Enumerating, OneDestroys, Searches, TypeOK, OpsFit, Careful
<1> QED  BY <1>1, <1>2, <1>3, <1>4, <1>5, <1>6, <1>7, <1>8, <1>9, <1>20 DEF IInv

LEMMA ReleaseCanvasKeeps ==
    ASSUME Careful, IInv, NEW h \in Holders, ReleaseCanvas(h)
    PROVE  IInv'
<1> USE DEF ReleaseCanvas, Using, Calling, counts, held, removal, destruction
<1>0. /\ h \in own /\ h \in strong
      /\ h \in strong'
      /\ strong' = strong \ {Canvas} /\ own' = own
      /\ SceneRef => Canvas \in strong
      /\ ~SceneRef => Canvas \notin strong
  BY HoldersAssumption DEF IInv, Removals, Removing
<1>01. /\ SceneRef => Cardinality(strong') = Cardinality(strong) - 1
       /\ ~SceneRef => Cardinality(strong') = Cardinality(strong)
  <2>1. CASE SceneRef
    BY <1>0, <2>1, CardinalityRemove DEF IInv, TypeOK
  <2>2. CASE ~SceneRef
    <3>1. strong' = strong
      BY <1>0, <2>2
    <3> QED  BY <3>1, <2>2
  <2> QED  BY <2>1, <2>2
<1>02. strong' \subseteq Holders \cup {Canvas} /\ own' = own
  BY <1>0 DEF IInv, TypeOK
<1>03. Cardinality(strong) \in Nat /\ Cardinality(own) \in Nat /\ Cardinality(own) # 0
  BY <1>0, Finite DEF IInv
<1>04. /\ refs' = Cardinality(strong') + Cardinality(own') - 1
       /\ refs' \in Nat
  <2>1. refs = Cardinality(strong) + Cardinality(own) - 1
    BY DEF IInv, Counted
  <2>2. refs' = IF SceneRef THEN refs - 1 ELSE refs
    OBVIOUS
  <2>3. SceneRef => Cardinality(strong) # 0
    BY <1>0, Finite DEF IInv
  <2> HIDE DEF ReleaseCanvas
  <2> QED  BY <2>1, <2>2, <2>3, <1>01, <1>02, <1>03
<1>1. TypeOK'
  BY <1>0, <1>02, <1>04, HoldersAssumption DEF IInv, TypeOK, Labels, Lists
<1>2. OpsFit'
  BY <1>0, <1>02, <1>04, HoldersAssumption DEF IInv, OpsFit, Enumerating, Destroying, Removals, Removing, Searching, TypeOK, Enumerations
<1>3. Locked'
  BY DEF IInv, Locked, Locking, MutexOf
<1>4. Counted'
  BY <1>04 DEF Counted
<1>5. WeakCounted' /\ ControlFreed'
  BY <1>0, <1>02, <1>04, HoldersAssumption DEF IInv, WeakCounted, ControlFreed
<1>6. Searches'
  BY <1>0, <1>02, <1>04, HoldersAssumption DEF IInv, Searches, Searching, Locking, Removals, Removing, TypeOK
<1>7. OneDestroys'
  BY <1>0, <1>02, <1>04, HoldersAssumption DEF IInv, OneDestroys, Destroying, Removals, Removing, TypeOK
<1>8. Phases'
  BY <1>0, <1>02, <1>04, HoldersAssumption DEF IInv, Phases, Destroying, Removals, Removing, OneDestroys, TypeOK, Lists
<1>9. WalksSafe'
  BY <1>0, <1>02, <1>04, HoldersAssumption DEF IInv, WalksSafe, Enumerating
<1>20. Removals'
  BY <1>0, <1>02, <1>04, HoldersAssumption DEF IInv, Removals, Removing, Searching, Destroying, Enumerating, OneDestroys, Searches, TypeOK, OpsFit, Careful
<1> QED  BY <1>1, <1>2, <1>3, <1>4, <1>5, <1>6, <1>7, <1>8, <1>9, <1>20 DEF IInv

LEMMA ForgetCanvasKeeps ==
    ASSUME Careful, IInv, NEW h \in Holders, ForgetCanvas(h)
    PROVE  IInv'
<1> USE DEF ForgetCanvas, Using, Calling, counts, held, removal, destruction
<1>1. TypeOK'
  BY DEF IInv, TypeOK, Labels, Lists
<1>2. OpsFit'
  BY DEF IInv, OpsFit, Enumerating, Destroying, Removals, Removing, Searching, TypeOK, Enumerations
<1>3. Locked'
  BY DEF IInv, Locked, Locking, MutexOf
<1>4. Counted'
  BY DEF IInv, Counted
<1>5. WeakCounted' /\ ControlFreed'
  BY DEF IInv, WeakCounted, ControlFreed
<1>6. Searches'
  BY DEF IInv, Searches, Searching, Locking, Removals, Removing, TypeOK
<1>7. OneDestroys'
  BY DEF IInv, OneDestroys, Destroying, Removals, Removing, TypeOK
<1>8. Phases'
  BY DEF IInv, Phases, Destroying, Removals, Removing, OneDestroys, TypeOK, Lists
<1>9. WalksSafe'
  BY DEF IInv, WalksSafe, Enumerating
<1>20. Removals'
  BY DEF IInv, Removals, Removing, Searching, Destroying, Enumerating, OneDestroys, Searches, TypeOK, OpsFit, Careful
<1> QED  BY <1>1, <1>2, <1>3, <1>4, <1>5, <1>6, <1>7, <1>8, <1>9, <1>20 DEF IInv

LEMMA DropOwnKeeps ==
    ASSUME Careful, IInv, NEW h \in Holders, DropOwn(h)
    PROVE  IInv'
<1> USE DEF DropOwn, Using, Calling, counts, held, removal, destruction
<1>0. /\ h \in own /\ h \in strong /\ strong' = strong /\ own' = own \ {h}
      /\ refs' = refs - 1 /\ own \in SUBSET (Holders \cup {Canvas})
  BY DEF IInv, Removals, Removing, TypeOK
<1>01. Cardinality(own') = Cardinality(own) - 1
  BY <1>0, CardinalityRemove
<1>02. /\ refs' = Cardinality(strong') + Cardinality(own') - 1
       /\ refs' \in Nat
  <2> HIDE DEF DropOwn
  <2> QED  BY <1>0, <1>01, Finite DEF IInv, Counted
<1>1. TypeOK'
  BY <1>0, <1>02 DEF IInv, TypeOK, Labels, Lists
<1>2. OpsFit'
  BY <1>0, <1>02 DEF IInv, OpsFit, Enumerating, Destroying, Removals, Removing, Searching, TypeOK, Enumerations
<1>3. Locked'
  BY DEF IInv, Locked, Locking, MutexOf
<1>4. Counted'
  BY <1>02 DEF Counted
<1>5. WeakCounted' /\ ControlFreed'
  BY <1>0, <1>02 DEF IInv, WeakCounted, ControlFreed
<1>6. Searches'
  BY <1>0, <1>02 DEF IInv, Searches, Searching, Locking, Removals, Removing, TypeOK
<1>7. OneDestroys'
  BY <1>0, <1>02 DEF IInv, OneDestroys, Destroying, Removals, Removing, TypeOK
<1>8. Phases'
  BY <1>0, <1>02 DEF IInv, Phases, Destroying, Removals, Removing, OneDestroys, TypeOK, Lists
<1>9. WalksSafe'
  BY <1>0, <1>02 DEF IInv, WalksSafe, Enumerating
<1>20. Removals'
  BY <1>0, <1>02 DEF IInv, Removals, Removing, Searching, Destroying, Enumerating, OneDestroys, Searches, TypeOK, OpsFit, Careful
<1> QED  BY <1>1, <1>2, <1>3, <1>4, <1>5, <1>6, <1>7, <1>8, <1>9, <1>20 DEF IInv

LEMMA ReleaseKeeps ==
    ASSUME Careful, IInv, NEW h \in Holders, Release(h)
    PROVE  IInv'
<1> USE DEF Release, Using, Calling, After, counts, held, removal, destruction
<1>1. /\ Cardinality(strong \ {h}) = Cardinality(strong) - 1
      /\ Cardinality(strong \ {h}) \in Nat
      /\ Cardinality(strong \ {h}) = 0 => strong \ {h} = {}
  BY CardinalityRemove DEF IInv, TypeOK
<1>11. refs' = Cardinality(strong \ {h}) + Cardinality(own) - 1 /\ Cardinality(own) \in Nat
  BY <1>1, Finite DEF IInv, Counted, TypeOK
<1>0. /\ refs' = -1 => strong' = {}
      /\ ~destroying /\ \A g \in Holders : ~Destroying(g)
      /\ ~Removing(h) /\ h # Canvas /\ h \notin own
  <2>1. refs' = -1 => Cardinality(strong \ {h}) = 0
    <3>1. ASSUME NEW m \in Nat, NEW n \in Nat, m + n - 1 = -1
          PROVE  m = 0
      BY <3>1
    <3> QED  BY <1>1, <1>11, <3>1 DEF IInv
  <2>2. refs' = -1 => strong' = {}
    BY <1>1, <2>1
  <2>3. ~destroying /\ \A g \in Holders : ~Destroying(g)
    BY DEF IInv, OneDestroys
  <2>4. ~Removing(h) /\ h # Canvas
    BY HoldersAssumption DEF Removing
  <2>5. h \notin own
    BY <2>4 DEF IInv, Removals
  <2> QED  BY <2>2, <2>3, <2>4, <2>5
<1>2. TypeOK'
  BY <1>1, <1>11 DEF IInv, TypeOK, Labels, Lists
<1>3. OpsFit'
  BY DEF IInv, OpsFit, Enumerating, Destroying
<1>4. Locked'
  BY DEF IInv, Locked, Locking, MutexOf
<1>5. Counted'
  <2>1. refs' = Cardinality(strong') + Cardinality(own') - 1
    BY <1>11
  <2> HIDE DEF Release
  <2> QED  BY <2>1 DEF Counted
<1>6. WeakCounted' /\ ControlFreed'
  BY DEF IInv, WeakCounted, ControlFreed
<1>7. Searches'
  BY <1>1 DEF IInv, Searches, Searching, Locking, TypeOK, OpsFit, Enumerating, Enumerations
<1>8. OneDestroys'
  BY <1>0 DEF IInv, OneDestroys, Destroying, TypeOK
<1>9. Phases'
  BY <1>1 DEF IInv, Phases, Destroying, TypeOK, OneDestroys, Lists
<1>10. WalksSafe'
  BY DEF IInv, WalksSafe, Enumerating
<1>20. Removals'
  BY <1>0 DEF IInv, Removals, Removing, Searching, Destroying, Enumerating, OneDestroys, Searches, TypeOK
<1> QED  BY <1>2, <1>3, <1>4, <1>5, <1>6, <1>7, <1>8, <1>9, <1>10, <1>20 DEF IInv

LEMMA DestroyKeeps ==
    ASSUME Careful, IInv, NEW h \in Holders, Destroy(h)
    PROVE  IInv'
<1> USE DEF Destroy, counts, held, removal, destruction
<1>1. TypeOK'
  BY DEF IInv, TypeOK, Labels, Lists
<1>2. OpsFit'
  BY DEF IInv, OpsFit, Enumerating, Destroying
<1>3. Locked'
  BY DEF IInv, Locked, Locking, MutexOf
<1>4. Counted'
  BY DEF IInv, Counted
<1>5. WeakCounted' /\ ControlFreed'
  BY DEF IInv, WeakCounted, ControlFreed
<1>6. Searches'
  BY DEF IInv, Searches, Searching, Locking
<1>7. OneDestroys'
  BY DEF IInv, OneDestroys, Destroying, TypeOK, OpsFit, Enumerating, Enumerations, Counted
<1>8. Phases'
  BY DEF IInv, Phases, Destroying, TypeOK, OneDestroys, Lists
<1>9. WalksSafe'
  BY DEF IInv, WalksSafe, Enumerating
<1>20. Removals'
  BY DEF IInv, Removals, Removing, Searching, Destroying, Enumerating, OneDestroys, Searches, TypeOK
<1> QED  BY <1>1, <1>2, <1>3, <1>4, <1>5, <1>6, <1>7, <1>8, <1>9, <1>20 DEF IInv

LEMMA UnlistUuidKeeps ==
    ASSUME Careful, IInv, NEW h \in Holders, UnlistUuid(h)
    PROVE  IInv'
<1> USE DEF UnlistUuid, counts, held, removal, destruction
<1>1. TypeOK'
  BY DEF IInv, TypeOK, Labels, Lists
<1>2. OpsFit'
  BY DEF IInv, OpsFit, Enumerating, Destroying
<1>3. Locked'
  BY DEF IInv, Locked, Locking, MutexOf
<1>4. Counted'
  BY DEF IInv, Counted
<1>5. WeakCounted' /\ ControlFreed'
  BY DEF IInv, WeakCounted, ControlFreed
<1>6. Searches'
  BY Finite, LookupType, HoldersAssumption DEF IInv, Searches, Searching, Locking, TypeOK, OpsFit, Enumerating, Enumerations, Locked, MutexOf, CanLock, Phases
<1>7. OneDestroys'
  BY DEF IInv, OneDestroys, Destroying
<1>8. Phases'
  BY DEF IInv, Phases, Destroying
<1>9. WalksSafe'
  BY DEF IInv, WalksSafe, Enumerating
<1>20. Removals'
  BY DEF IInv, Removals, Removing, Searching, Destroying, Enumerating, OneDestroys, Searches, TypeOK
<1> QED  BY <1>1, <1>2, <1>3, <1>4, <1>5, <1>6, <1>7, <1>8, <1>9, <1>20 DEF IInv

LEMMA UnlistNameKeeps ==
    ASSUME Careful, IInv, NEW h \in Holders, UnlistName(h)
    PROVE  IInv'
<1> USE DEF UnlistName, counts, held, removal, destruction
<1>0. /\ strong = {} /\ strong' = {}
      /\ refs' = refs /\ own' = own
      /\ \A k \in Holders : ~Removing(k)
  BY DEF IInv, OneDestroys, Destroying, Removals, Removing
<1>1. TypeOK'
  BY <1>0 DEF IInv, TypeOK, Labels, Lists
<1>2. OpsFit'
  BY DEF IInv, OpsFit, Enumerating, Destroying
<1>3. Locked'
  BY DEF IInv, Locked, Locking, MutexOf
<1>4. Counted'
  BY <1>0 DEF IInv, Counted
<1>5. WeakCounted' /\ ControlFreed'
  BY DEF IInv, WeakCounted, ControlFreed
<1>6. Searches'
  BY <1>0, LookupType, HoldersAssumption DEF IInv, Searches, Searching, Locking, TypeOK, OpsFit, Enumerating, Enumerations, Locked, MutexOf, CanLock, Phases
<1>7. OneDestroys'
  BY <1>0 DEF IInv, OneDestroys, Destroying
<1>8. Phases'
  BY <1>0 DEF IInv, Removals, Phases, Destroying, TypeOK, OneDestroys, Lists
<1>9. WalksSafe'
  BY DEF IInv, WalksSafe, Enumerating
<1>20. Removals'
  BY <1>0 DEF IInv, Removals, Removing, Searching, Destroying, Enumerating, OneDestroys, Searches, TypeOK
<1> QED  BY <1>1, <1>2, <1>3, <1>4, <1>5, <1>6, <1>7, <1>8, <1>9, <1>20 DEF IInv

LEMMA QueueKeeps ==
    ASSUME Careful, IInv, NEW h \in Holders, Queue(h)
    PROVE  IInv'
<1> USE DEF Queue, counts, held, removal, destruction
<1>1. TypeOK'
  BY DEF IInv, TypeOK, Labels, Lists
<1>2. OpsFit'
  BY DEF IInv, OpsFit, Enumerating, Destroying
<1>3. Locked'
  BY DEF IInv, Locked, Locking, MutexOf
<1>4. Counted'
  BY DEF IInv, Counted
<1>5. WeakCounted' /\ ControlFreed'
  BY DEF IInv, WeakCounted, ControlFreed
<1>6. Searches'
  BY DEF IInv, Searches, Searching, Locking
<1>7. OneDestroys'
  BY DEF IInv, OneDestroys, Destroying
<1>8. Phases'
  BY DEF IInv, Phases, Destroying, TypeOK, OneDestroys, Lists
<1>9. WalksSafe'
  BY DEF IInv, WalksSafe, Enumerating
<1>20. Removals'
  BY DEF IInv, Removals, Removing, Searching, Destroying, Enumerating, OneDestroys, Searches, TypeOK
<1> QED  BY <1>1, <1>2, <1>3, <1>4, <1>5, <1>6, <1>7, <1>8, <1>9, <1>20 DEF IInv

LEMMA DropControlKeeps ==
    ASSUME Careful, IInv, NEW h \in Holders, DropControl(h)
    PROVE  IInv'
<1> USE DEF DropControl, After, counts, held, removal, destruction
<1>1. control = "held" /\ weak_refs = Cardinality(weak)
  BY Finite DEF IInv, Phases, Destroying, WeakCounted
<1>2. TypeOK'
  BY <1>1, Finite DEF IInv, TypeOK, Labels
<1>3. OpsFit'
  BY DEF IInv, Removals, Removing, OneDestroys, OpsFit, Enumerating, Destroying
<1>4. Locked'
  BY DEF IInv, Locked, Locking, MutexOf
<1>5. Counted'
  BY DEF IInv, Counted
<1>6. WeakCounted' /\ ControlFreed'
  BY Finite DEF IInv, WeakCounted, ControlFreed, Phases, TypeOK, OneDestroys, Destroying
<1>7. Searches'
  BY DEF IInv, Searches, Searching, Locking
<1>8. OneDestroys'
  BY DEF IInv, OneDestroys, Destroying
<1>9. Phases'
  BY DEF IInv, Phases, Destroying, TypeOK, OneDestroys, Lists
<1>10. WalksSafe'
  BY DEF IInv, WalksSafe, Enumerating
<1>20. Removals'
  BY DEF IInv, Removals, Removing, Searching, Destroying, Enumerating, OneDestroys, Searches, TypeOK
<1> QED  BY <1>2, <1>3, <1>4, <1>5, <1>6, <1>7, <1>8, <1>9, <1>10, <1>20 DEF IInv

LEMMA DestroyDeferKeeps ==
    ASSUME Careful, IInv, DestroyDefer
    PROVE  IInv'
<1> USE DEF DestroyDefer, counts, held, removal, destruction
<1>1. TypeOK'
  BY DEF IInv, TypeOK
<1>2. OpsFit'
  BY DEF IInv, OpsFit, Enumerating, Destroying
<1>3. Locked'
  BY DEF IInv, Locked, Locking, MutexOf
<1>4. Counted'
  BY DEF IInv, Counted
<1>5. WeakCounted' /\ ControlFreed'
  BY DEF IInv, WeakCounted, ControlFreed
<1>6. Searches'
  BY DEF IInv, Searches, Searching, Locking
<1>7. OneDestroys'
  BY DEF IInv, OneDestroys, Destroying
<1>8. Phases'
  BY DEF IInv, Phases, Destroying
<1>9. WalksSafe'
  BY Finite, LookupType, HoldersAssumption DEF IInv, WalksSafe, Enumerating, TypeOK, Phases, Locked, Locking, MutexOf, Careful, Enumerations, Searches, Searching
<1>20. Removals'
  BY DEF IInv, Removals, Removing, Searching, Destroying, Enumerating, OneDestroys, Searches, TypeOK
<1> QED  BY <1>1, <1>2, <1>3, <1>4, <1>5, <1>6, <1>7, <1>8, <1>9, <1>20 DEF IInv

LEMMA Start ==
    ASSUME Init
    PROVE  IInv
<1>1. TypeOK
  <2>1. refs \in Nat \cup {-1} /\ weak_refs \in Nat \cup {-1}
    BY DEF Init
  <2>2. /\ strong \subseteq Holders \cup {Canvas} /\ weak \subseteq Holders
        /\ own \subseteq Holders /\ removed \in BOOLEAN /\ canvas \in BOOLEAN
    BY DEF Init, OfCanvas
  <2>3. mutex \in [Mutexes -> Holders \cup {NoHolder}]
    BY DEF Init
  <2>4. pc \in [Holders -> Labels] /\ op \in [Holders -> Lookups \cup {"none", "weak"}]
    BY DEF Init, Labels
  <2>5. owners \in [Holders -> Int]
    BY DEF Init
  <2>6. /\ control \in {"held", "dropped", "freed"}
        /\ destroying \in BOOLEAN
        /\ listed \subseteq Lists
        /\ source \in {"alive", "queued", "freed"}
    BY DEF Init
  <2> QED  BY <2>1, <2>2, <2>3, <2>4, <2>5, <2>6 DEF TypeOK
<1>2. Counted /\ WeakCounted
  <2>1. Cardinality(own) = 0 /\ Cardinality(weak) = 0
    BY FS_EmptySet DEF Init
  <2>2. PICK h \in Holders : strong = {h} \cup (IF SceneRef THEN {Canvas} ELSE {})
    BY DEF Init
  <2>3. Cardinality({h}) = 1
    BY FS_Singleton
  <2>4. Cardinality({h} \cup {Canvas}) = 2
    BY <2>3, CardinalityAdd, HoldersAssumption
  <2>5. Cardinality(strong) = IF SceneRef THEN 2 ELSE 1
    <3>1. CASE SceneRef
      BY <2>2, <2>4, <3>1
    <3>2. CASE ~SceneRef
      <4>1. strong = {h}
        BY <2>2, <3>2
      <4> QED  BY <2>3, <3>2, <4>1
    <3> QED  BY <3>1, <3>2
  <2> QED  BY <2>1, <2>5, SceneRefAssumption DEF Init, Counted, WeakCounted
<1>3. OpsFit /\ Locked /\ Searches
  BY LookupType DEF Init, OpsFit, Locked, Locking, Searches, Searching, Enumerating,
     Enumerations, Destroying
<1>4. OneDestroys /\ Phases
  BY DEF Init, OneDestroys, Phases, Destroying
<1>5. WalksSafe /\ ControlFreed
  BY DEF Init, WalksSafe, ControlFreed
<1>6. Removals
  BY SceneRefAssumption, HoldersAssumption DEF Init, Removals, Removing
<1> QED  BY <1>1, <1>2, <1>3, <1>4, <1>5, <1>6 DEF IInv

LEMMA Step ==
    ASSUME Careful, IInv, [Next]_vars
    PROVE  IInv'
<1>1. ASSUME NEW h \in Holders, NEW g \in Holders,
             AddRef(h, g) \/ WeakAddRef(h, g)
      PROVE  IInv'
  BY <1>1, AddRefKeeps, WeakAddRefKeeps
<1>2. ASSUME NEW h \in Holders, WeakRelease(h) \/ Release(h)
      PROVE  IInv'
  BY <1>2, WeakReleaseKeeps, ReleaseKeeps
<1>3. ASSUME NEW h \in Holders, GetSource(h) \/ \E l \in Lookups : Find(h, l)
      PROVE  IInv'
  BY <1>3, GetSourceKeeps, FindKeeps
<1>4. ASSUME NEW h \in Holders, GetRef(h)
      PROVE  IInv'
  BY <1>4, LoadKeeps, ExchangeKeeps, ExpiredKeeps, ReturnKeeps, NextElementKeeps
     DEF GetRef
<1>5. ASSUME NEW h \in Holders, Unlist(h) \/ Destruction(h)
      PROVE  IInv'
  BY <1>5, UnlistUuidKeeps, UnlistNameKeeps, DestroyKeeps, QueueKeeps, DropControlKeeps
     DEF Unlist, Destruction
<1>8. ASSUME NEW h \in Holders, Remove(h)
      PROVE  IInv'
  BY <1>8, RemoveTestKeeps, GetOwnKeeps, TestCanvasKeeps, LeaveCanvasKeeps,
     ReleaseCanvasKeeps, ForgetCanvasKeeps, DropOwnKeeps DEF Remove
<1>6. CASE DestroyDefer
  BY <1>6, DestroyDeferKeeps
<1>7. CASE UNCHANGED vars
  BY <1>7 DEF vars, counts, held, removal, destruction, IInv, TypeOK, OpsFit, Locked, Locking,
     MutexOf, Counted, WeakCounted, Searches, Searching, OneDestroys, Phases,
     Removals, Removing, Destroying, WalksSafe, Enumerating, ControlFreed
<1> QED  BY <1>1, <1>2, <1>3, <1>4, <1>5, <1>6, <1>7, <1>8 DEF Next

\* With careful lookups and no two removals at once, the invariant holds of every
\* source.
THEOREM Invariance == Careful => (Spec => []IInv)
<1> SUFFICES ASSUME Careful
             PROVE  Spec => []IInv
  OBVIOUS
<1>1. Init => IInv
  BY Start
<1>2. IInv /\ [Next]_vars => IInv'
  BY Step
<1> QED  BY <1>1, <1>2, PTL DEF Spec

-----------------------------------------------------------------------------
(* What the invariant is for.                                              *)

\* Every variable has its type: in particular neither count falls below -1,
\* whatever releases and lookups race each other and a removal (obs_source_remove).
THEOREM TypeCorrect == Careful => (Spec => []TypeOK)
<1>1. IInv => TypeOK
  BY DEF IInv
<1> QED  BY <1>1, Invariance, PTL

\* obs_weak_ref::refs counts the strong references that were given out, that of
\* a canvas and that of a removal among them: only the last release sees -1, as
\* long as removals do not overlap.
THEOREM ReferencesCounted == Careful => (Spec => []Counted)
<1>1. IInv => Counted
  BY DEF IInv
<1> QED  BY <1>1, Invariance, PTL

\* obs_source_destroy runs once, as long as removals do not overlap.
THEOREM NoDoubleDestroy == Careful => (Spec => []DestroyedOnce)
<1>1. IInv => DestroyedOnce
  BY DEF IInv, OneDestroys, DestroyedOnce
<1> QED  BY <1>1, Invariance, PTL

\* Nobody uses a source that obs_source_destroy_defer has freed, as long as
\* removals do not overlap.
THEOREM SourceOutlivesUse == Careful => (Spec => []NoUseAfterFree)
<1>1. ASSUME IInv, source = "freed", NEW h \in Holders
      PROVE  ~UsesSource(h)
  <2>1. strong = {} /\ own = {} /\ listed = {}
    BY <1>1, OwnHeld DEF IInv, Phases, OneDestroys
  <2>2. ~(Searching(h) /\ op[h] # "weak")
    BY <1>1, <2>1 DEF IInv, Searches, Searching, Locking, OpsFit, TypeOK
  <2>3. pc[h] # "next"
    BY <1>1 DEF IInv, OpsFit, WalksSafe
  <2>4. pc[h] \notin {"destroy", "unlist_uuid", "unlist_name", "queue"}
    BY <1>1 DEF IInv, Phases, OneDestroys
  <2> QED  BY <2>1, <2>2, <2>3, <2>4 DEF UsesSource, Searching
<1>2. IInv => NoUseAfterFree
  BY <1>1 DEF NoUseAfterFree
<1> QED  BY <1>2, Invariance, PTL

\* Nobody uses a control that the last obs_weak_source_release has freed.
THEOREM ControlOutlivesUse == Careful => (Spec => []ControlOutlives)
<1>1. ASSUME IInv, control = "freed", NEW h \in Holders
      PROVE  ~UsesControl(h)
  <2>1. /\ strong = {} /\ own = {} /\ weak = {} /\ listed = {}
        /\ pc[h] # "drop_control"
    BY <1>1, OwnHeld DEF IInv, Phases, Destroying, OneDestroys, ControlFreed
  <2>2. ~Searching(h)
    BY <1>1, <2>1 DEF IInv, Searches
  <2> QED  BY <2>1, <2>2 DEF UsesControl, Searching
<1>2. IInv => ControlOutlives
  BY <1>1 DEF ControlOutlives
<1> QED  BY <1>2, Invariance, PTL
=============================================================================
