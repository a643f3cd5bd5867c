-------------------------------- MODULE ObjRef --------------------------------
(***************************************************************************)
(* The strong and weak references of one source (struct obs_weak_ref in    *)
(* libobs/obs-internal.h), the functions that look it up in the lists of   *)
(* libobs/obs.c, its removal from a canvas in libobs/obs-canvas.c, and its *)
(* destruction in libobs/obs-source.c.                                     *)
(*                                                                         *)
(* A holder is a place that keeps at most one strong and one weak          *)
(* reference: a variable of a thread, an item of a scene.  The source lies *)
(* in two lists, by uuid and by name, each under a recursive mutex; the    *)
(* list by name is a canvas's when that has a mutex of its own.  The       *)
(* canvas outlives the source.  The destruction task runs on a thread of   *)
(* its own (TaskQueue).                                                    *)
(***************************************************************************)
EXTENDS Integers, FiniteSets

CONSTANTS
    Holders,
    NoHolder,
    Canvas,        \* stands in `strong` for the reference of the canvas
    SceneRef,      \* the source is a scene of a canvas with the flag SCENE_REF
    RemovalsOverlap, \* whether a holder may remove the source while another does
    Guard,         \* list -> the mutex it is under
    ContextMutex,  \* obs_context_data::mutex, of the list last inserted into
    Lookups        \* the lookups that are made, of Lists and Enumerations

Lists == {"uuid", "name"}
Mutexes == {Guard["uuid"], Guard["name"], ContextMutex}

\* obs_get_source_by_name, obs_get_source_by_uuid, obs_get_transition_by_name,
\* obs_enum_sources, obs_canvas_enum_scenes and the list each one searches.
ListOf == [by_name |-> "name", by_uuid |-> "uuid", transition |-> "uuid",
           enum_sources |-> "uuid", enum_scenes |-> "name"]
Enumerations == {"enum_sources", "enum_scenes"}

\* requires_canvas: the list by name is that of a canvas.
OfCanvas == Guard["name"] # Guard["uuid"]

ASSUME HoldersAssumption ==
    IsFiniteSet(Holders) /\ NoHolder \notin Holders /\ Canvas \notin Holders
ASSUME GuardAssumption == DOMAIN Guard = Lists
ASSUME SceneRefAssumption == SceneRef \in BOOLEAN /\ (SceneRef => OfCanvas)
ASSUME LookupsAssumption == Lookups \subseteq DOMAIN ListOf

VARIABLES
    refs,          \* strong references - 1
    weak_refs,     \* weak references - 1, the strong ones having one together
    strong,        \* the holders that were given a strong reference
    weak,          \* the holders that were given a weak reference
    control,       \* the obs_weak_source: "held" by the strong references,
                   \* "dropped" by them, "freed"
    destroying,    \* obs_source::destroying
    removed,       \* obs_source::removed
    canvas,        \* whether obs_source::canvas is set
    own,           \* the holders that remove the source, with the reference of
                   \* obs_source_remove
    listed,        \* the lists the source is in
    source,        \* the obs_source: "alive", "queued" for destruction, "freed"
    mutex,         \* mutex -> its holder
    pc,
    op,            \* holder -> the operation it performs
    owners         \* holder -> local variable of obs_weak_ref_get_ref

counts == <<refs, weak_refs>>
held == <<strong, weak>>
removal == <<removed, canvas, own>>
destruction == <<control, destroying, listed, source>>
vars == <<counts, held, removal, destruction, mutex, pc, op, owners>>

\* The creator has a reference, and the canvas (obs_canvas_insert_source).
Init ==
    /\ refs = IF SceneRef THEN 1 ELSE 0
    /\ weak_refs = 0
    /\ strong \in {{h} \cup (IF SceneRef THEN {Canvas} ELSE {}) : h \in Holders}
    /\ weak = {}
    /\ removed = FALSE
    /\ canvas = OfCanvas
    /\ own = {}
    /\ control = "held"
    /\ destroying = FALSE
    /\ listed = Lists
    /\ source = "alive"
    /\ mutex = [m \in Mutexes |-> NoHolder]
    /\ pc = [h \in Holders |-> "idle"]
    /\ op = [h \in Holders |-> "none"]
    /\ owners = [h \in Holders |-> 0]

MutexOf(h) == Guard[ListOf[op[h]]]
Enumerating(h) == op[h] \in Enumerations
CanLock(h, m) == mutex[m] \in {NoHolder, h}

\* In the callback of an enumeration its holder may use the source.
Calling(h) == pc[h] = "found" /\ Enumerating(h)
Using(h) == h \in strong /\ (pc[h] = "idle" \/ Calling(h))

-----------------------------------------------------------------------------
(* References of a holder given to another one.                            *)

\* obs_source_addref, or obs_source_get_ref with a reference held
AddRef(h, g) ==
    /\ Using(h)
    /\ pc[g] = "idle" /\ g \notin strong
    /\ refs' = refs + 1
    /\ strong' = strong \cup {g}
    /\ UNCHANGED <<weak_refs, weak, removal, destruction, mutex, pc, op, owners>>

\* obs_source_get_weak_source and obs_weak_source_addref
WeakAddRef(h, g) ==
    /\ Using(h) \/ (h \in weak /\ pc[h] = "idle")
    /\ g \notin weak
    /\ weak_refs' = weak_refs + 1
    /\ weak' = weak \cup {g}
    /\ UNCHANGED <<refs, strong, removal, destruction, mutex, pc, op, owners>>

\* obs_weak_source_release
WeakRelease(h) ==
    /\ pc[h] = "idle"
    /\ h \in weak
    /\ weak_refs' = weak_refs - 1
    /\ weak' = weak \ {h}
    /\ control' = IF weak_refs' = -1 THEN "freed" ELSE control
    /\ UNCHANGED <<refs, strong, removal, destroying, listed, source, mutex, pc, op,
                   owners>>

-----------------------------------------------------------------------------
(* obs_weak_ref_get_ref, from a weak reference or under a list's mutex.    *)

\* obs_weak_source_get_source
GetSource(h) ==
    /\ pc[h] = "idle"
    /\ h \in weak /\ h \notin strong
    /\ pc' = [pc EXCEPT ![h] = "load"]
    /\ op' = [op EXCEPT ![h] = "weak"]
    /\ UNCHANGED <<counts, held, removal, destruction, mutex, owners>>

\* The lookup l finds the source in its list.
Find(h, l) ==
    /\ pc[h] = "idle"
    /\ h \notin strong
    /\ ListOf[l] \in listed
    /\ mutex[Guard[ListOf[l]]] = NoHolder
    /\ mutex' = [mutex EXCEPT ![Guard[ListOf[l]]] = h]
    /\ pc' = [pc EXCEPT ![h] = "load"]
    /\ op' = [op EXCEPT ![h] = l]
    /\ UNCHANGED <<counts, held, removal, destruction, owners>>

Load(h) ==
    /\ pc[h] = "load"
    /\ owners' = [owners EXCEPT ![h] = refs]
    /\ pc' = [pc EXCEPT ![h] = "exchange"]
    /\ UNCHANGED <<counts, held, removal, destruction, mutex, op>>

\* Mutant: the count is stored without a comparison.
ExchangeBlind(h) ==
    /\ pc[h] = "exchange"
    /\ owners[h] > -1
    /\ refs' = owners[h] + 1
    /\ strong' = strong \cup {h}
    /\ pc' = [pc EXCEPT ![h] = "found"]
    /\ UNCHANGED <<weak_refs, weak, removal, destruction, mutex, op, owners>>

\* Mutant: a source without references gets one again.
ExchangeRevives(h) ==
    /\ pc[h] = "exchange"
    /\ refs' = refs + 1
    /\ strong' = strong \cup {h}
    /\ pc' = [pc EXCEPT ![h] = "found"]
    /\ UNCHANGED <<weak_refs, weak, removal, destruction, mutex, op, owners>>

\* os_atomic_compare_exchange_long(&ref->refs, &owners, owners + 1)
Exchange(h) ==
    /\ pc[h] = "exchange"
    /\ owners[h] > -1
    /\ \/ /\ refs = owners[h]
          /\ refs' = refs + 1
          /\ strong' = strong \cup {h}
          /\ pc' = [pc EXCEPT ![h] = "found"]
          /\ UNCHANGED owners
       \/ /\ refs # owners[h]
          /\ owners' = [owners EXCEPT ![h] = refs]
          /\ UNCHANGED <<refs, strong, pc>>
    /\ UNCHANGED <<weak_refs, weak, removal, destruction, mutex, op>>

Expired(h) ==
    /\ pc[h] = "exchange"
    /\ owners[h] <= -1
    /\ pc' = [pc EXCEPT ![h] = IF Enumerating(h) THEN "next" ELSE "expired"]
    /\ UNCHANGED <<counts, held, removal, destruction, mutex, op, owners>>

\* The holder has what it asked for, or NULL.  get_context_by_name and
\* get_context_by_uuid return the source whether or not it got a reference.
Return(h) ==
    /\ pc[h] \in {"found", "expired"}
    /\ ~Enumerating(h)
    /\ strong' = IF op[h] \in {"by_name", "by_uuid"} THEN strong \cup {h} ELSE strong
    /\ mutex' = IF op[h] = "weak" THEN mutex
                                  ELSE [mutex EXCEPT ![MutexOf(h)] = NoHolder]
    /\ pc' = [pc EXCEPT ![h] = "idle"]
    /\ op' = [op EXCEPT ![h] = "none"]
    /\ UNCHANGED <<counts, weak, removal, destruction, owners>>

\* Mutant: the list stays locked.
NextElementLocked(h) ==
    /\ pc[h] = "next"
    /\ pc' = [pc EXCEPT ![h] = "idle"]
    /\ op' = [op EXCEPT ![h] = "none"]
    /\ UNCHANGED <<counts, held, removal, destruction, mutex, owners>>

\* The enumeration reads the source's link to the next one.
NextElement(h) ==
    /\ pc[h] = "next"
    /\ mutex' = [mutex EXCEPT ![MutexOf(h)] = NoHolder]
    /\ pc' = [pc EXCEPT ![h] = "idle"]
    /\ op' = [op EXCEPT ![h] = "none"]
    /\ UNCHANGED <<counts, held, removal, destruction, owners>>

-----------------------------------------------------------------------------
(* obs_source_remove and obs_source_release.                               *)

Removing(h) == pc[h] \in {"get_own", "test_canvas", "leave_canvas",
                          "release_canvas", "forget_canvas", "drop_own"}

\* What the holder goes on with after a call, s being the holders of `strong`.
After(h, s) ==
    IF h \in own THEN "drop_own"
    ELSE IF ~Enumerating(h) THEN "idle" ELSE IF h \in s THEN "found" ELSE "next"

\* obs_source_remove: the test of source->removed
RemoveTest(h) ==
    /\ Using(h)
    /\ ~removed
    /\ RemovalsOverlap \/ \A g \in Holders : ~Removing(g)
    /\ pc' = [pc EXCEPT ![h] = "get_own"]
    /\ UNCHANGED <<counts, held, removal, destruction, mutex, op, owners>>

\* obs_source_get_ref, with a reference held, and s->removed = true
GetOwn(h) ==
    /\ pc[h] = "get_own"
    /\ refs' = refs + 1
    /\ own' = own \cup {h}
    /\ removed' = TRUE
    /\ pc' = [pc EXCEPT ![h] = "test_canvas"]
    /\ UNCHANGED <<weak_refs, held, canvas, destruction, mutex, op, owners>>

\* Both reads of source->canvas, here and in obs_canvas_remove_source.
TestCanvas(h) ==
    /\ pc[h] = "test_canvas"
    /\ pc' = [pc EXCEPT ![h] = IF canvas THEN "leave_canvas" ELSE "drop_own"]
    /\ UNCHANGED <<counts, held, removal, destruction, mutex, op, owners>>

\* obs_canvas_remove_source: obs_context_data_remove_name
LeaveCanvas(h) ==
    /\ pc[h] = "leave_canvas"
    /\ CanLock(h, Guard["name"])
    /\ listed' = listed \ {"name"}
    /\ pc' = [pc EXCEPT ![h] = "release_canvas"]
    /\ UNCHANGED <<counts, held, removal, control, destroying, source, mutex, op,
                   owners>>

\* obs_canvas_remove_source: the reference of the canvas
ReleaseCanvas(h) ==
    /\ pc[h] = "release_canvas"
    /\ strong' = strong \ {Canvas}
    /\ refs' = IF SceneRef THEN refs - 1 ELSE refs
    /\ pc' = [pc EXCEPT ![h] = IF refs' = -1 THEN "destroy" ELSE "forget_canvas"]
    /\ UNCHANGED <<weak_refs, weak, removal, destruction, mutex, op, owners>>

ForgetCanvas(h) ==
    /\ pc[h] = "forget_canvas"
    /\ canvas' = FALSE
    /\ pc' = [pc EXCEPT ![h] = "drop_own"]
    /\ UNCHANGED <<counts, held, removed, own, destruction, mutex, op, owners>>

\* obs_source_release(s)
DropOwn(h) ==
    /\ pc[h] = "drop_own"
    /\ refs' = refs - 1
    /\ own' = own \ {h}
    /\ pc' = [pc EXCEPT ![h] = IF refs' = -1 THEN "destroy"
                               ELSE IF Enumerating(h) THEN "found" ELSE "idle"]
    /\ UNCHANGED <<weak_refs, held, removed, canvas, destruction, mutex, op, owners>>

Release(h) ==
    /\ Using(h)
    /\ refs' = refs - 1
    /\ strong' = strong \ {h}
    /\ pc' = [pc EXCEPT ![h] = IF refs' = -1 THEN "destroy" ELSE After(h, strong')]
    /\ UNCHANGED <<weak_refs, weak, removal, destruction, mutex, op, owners>>

\* obs_source_destroy
Destroy(h) ==
    /\ pc[h] = "destroy"
    /\ destroying' = TRUE
    /\ pc' = [pc EXCEPT ![h] = IF destroying THEN "drop_control" ELSE "unlist_uuid"]
    /\ UNCHANGED <<counts, held, removal, control, listed, source, mutex, op, owners>>

UnlistUuid(h) ==
    /\ pc[h] = "unlist_uuid"
    /\ CanLock(h, Guard["uuid"])
    /\ listed' = listed \ {"uuid"}
    /\ pc' = [pc EXCEPT ![h] = "unlist_name"]
    /\ UNCHANGED <<counts, held, removal, control, destroying, source, mutex, op, owners>>

\* A source of a canvas leaves it here, unless it was removed before, and the
\* canvas releases its reference.
UnlistName(h) ==
    /\ pc[h] = "unlist_name"
    /\ LET leaving == canvas \/ ~OfCanvas IN
        /\ leaving => CanLock(h, Guard["name"])
        /\ listed' = IF leaving THEN listed \ {"name"} ELSE listed
    /\ refs' = IF canvas /\ SceneRef THEN refs - 1 ELSE refs
    /\ strong' = IF canvas THEN strong \ {Canvas} ELSE strong
    /\ canvas' = FALSE
    /\ pc' = [pc EXCEPT ![h] = "queue"]
    /\ UNCHANGED <<weak_refs, weak, removed, own, control, destroying, source, mutex,
                   op, owners>>

Queue(h) ==
    /\ pc[h] = "queue"
    /\ source' = "queued"
    /\ pc' = [pc EXCEPT ![h] = "drop_control"]
    /\ UNCHANGED <<counts, held, removal, control, destroying, listed, mutex, op, owners>>

\* Mutant: the control is freed with the source.
DropControlFrees(h) ==
    /\ pc[h] = "drop_control"
    /\ weak_refs' = weak_refs - 1
    /\ control' = "freed"
    /\ pc' = [pc EXCEPT ![h] = After(h, strong)]
    /\ UNCHANGED <<refs, held, removal, destroying, listed, source, mutex, op, owners>>

\* obs_weak_source_release(control)
DropControl(h) ==
    /\ pc[h] = "drop_control"
    /\ weak_refs' = weak_refs - 1
    /\ control' = IF weak_refs' = -1 THEN "freed" ELSE "dropped"
    /\ pc' = [pc EXCEPT ![h] = After(h, strong)]
    /\ UNCHANGED <<refs, held, removal, destroying, listed, source, mutex, op, owners>>

\* Mutant: the list may be in use.
DestroyDeferAtOnce ==
    /\ source = "queued"
    /\ source' = "freed"
    /\ UNCHANGED <<counts, held, removal, control, destroying, listed, mutex, pc, op, owners>>

\* obs_source_destroy_defer, after obs_context_wait
DestroyDefer ==
    /\ source = "queued"
    /\ mutex[ContextMutex] = NoHolder
    /\ source' = "freed"
    /\ UNCHANGED <<counts, held, removal, control, destroying, listed, mutex, pc, op, owners>>

-----------------------------------------------------------------------------
GetRef(h) == Load(h) \/ Exchange(h) \/ Expired(h) \/ Return(h) \/ NextElement(h)
Remove(h) ==
    \/ RemoveTest(h) \/ GetOwn(h) \/ TestCanvas(h) \/ LeaveCanvas(h)
    \/ ReleaseCanvas(h) \/ ForgetCanvas(h) \/ DropOwn(h)
Unlist(h) == UnlistUuid(h) \/ UnlistName(h)
Destruction(h) == Destroy(h) \/ Queue(h) \/ DropControl(h)

Next ==
    \/ \E h, g \in Holders : AddRef(h, g) \/ WeakAddRef(h, g)
    \/ \E h \in Holders :
        \/ WeakRelease(h) \/ GetSource(h) \/ \E l \in Lookups : Find(h, l)
        \/ GetRef(h) \/ Remove(h) \/ Release(h) \/ Unlist(h) \/ Destruction(h)
    \/ DestroyDefer

Spec == Init /\ [][Next]_vars

\* Operations go on, callbacks return, and who waits for a mutex that is free
\* again and again gets it.  Who removes the source holds it, so that its
\* destruction does not wait for a removal.
Fairness ==
    /\ \A h \in Holders :
        /\ WF_vars(GetRef(h))
        /\ WF_vars(Enumerating(h) /\ Release(h))
        /\ SF_vars(Unlist(h))
        /\ WF_vars(Destruction(h))
    /\ SF_vars(DestroyDefer)

FairSpec == Spec /\ Fairness

-----------------------------------------------------------------------------
(* Properties.                                                             *)

Labels == {"idle", "load", "exchange", "found", "expired", "next", "get_own",
           "test_canvas", "leave_canvas", "release_canvas", "forget_canvas",
           "drop_own", "destroy", "unlist_uuid", "unlist_name", "queue",
           "drop_control"}

\* The variables have their types.
TypeOK ==
    /\ refs \in Nat \cup {-1}
    /\ weak_refs \in Nat \cup {-1}
    /\ strong \subseteq Holders \cup {Canvas}
    /\ own \subseteq Holders
    /\ removed \in BOOLEAN
    /\ canvas \in BOOLEAN
    /\ weak \subseteq Holders
    /\ control \in {"held", "dropped", "freed"}
    /\ destroying \in BOOLEAN
    /\ listed \subseteq Lists
    /\ source \in {"alive", "queued", "freed"}
    /\ mutex \in [Mutexes -> Holders \cup {NoHolder}]
    /\ pc \in [Holders -> Labels]
    /\ op \in [Holders -> Lookups \cup {"none", "weak"}]
    /\ owners \in [Holders -> Int]

\* Every strong reference that was given out and not released is counted, so
\* the last release, and no other one, sees -1.
Counted == refs = Cardinality(strong) + Cardinality(own) - 1

\* A source whose last reference was released is destroyed once: the message
\* "Double destroy just occurred" is never logged.
DestroyedOnce == \A h \in Holders : pc[h] = "destroy" => ~destroying

\* Where a holder reads or writes the source.
UsesSource(h) ==
    \/ h \in strong \cup own
    \/ pc[h] \in {"load", "exchange"} /\ op[h] # "weak"
    \/ pc[h] \in {"next", "destroy", "unlist_uuid", "unlist_name", "queue"}

\* Nobody who holds, looks up, enumerates or destroys a source finds it freed.
NoUseAfterFree == source = "freed" => \A h \in Holders : ~UsesSource(h)

\* Where a holder reads or writes the control.
UsesControl(h) ==
    \/ h \in strong \cup own \cup weak
    \/ pc[h] \in {"load", "exchange", "drop_control"}

\* The control outlives every reference, strong or weak, the source outlives,
\* and every lookup that tries to get one.
ControlOutlives == control = "freed" => \A h \in Holders : ~UsesControl(h)

\* A source without references is freed in the end, and its control once the
\* weak references are gone as well.
Reclaimed ==
    /\ refs = -1 ~> source = "freed"
    /\ (refs = -1 /\ weak = {}) ~> control = "freed"
=============================================================================
