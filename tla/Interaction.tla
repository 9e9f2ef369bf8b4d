---------------------------- MODULE Interaction -----------------------------
(***************************************************************************)
(* The two distance-gated interactions of the channel server, both handled *)
(* inline in Parse on the connection's thread:                             *)
(*   - PlasmaStart (PlasmaStart.cpp): start a system event for a plasma    *)
(*     entity, check that the character can interact with the point, pick  *)
(*     it, and end the event again if the pick did not succeed;            *)
(*   - ObjectInteraction (ObjectInteraction.cpp): look up the NPC or       *)
(*     object, gate on interaction distance unless the user is privileged, *)
(*     and hand a heap-allocated ActionList to the work queue, whose task  *)
(*     performs the actions and deletes the list.                          *)
(* Positions are abstracted to whether a character is within interaction   *)
(* range of the zone's entities.                                            *)
(***************************************************************************)
EXTENDS Integers, Sequences

CONSTANTS
    Client,      \* connections
    Privileged,  \* clients whose user level is above 0
    Plasma,      \* plasma entity ids in the zone
    NPoints,     \* points per plasma (ids 1 .. NPoints)
    PointInput,  \* point ids a client can send (int8 values)
    NpcIds,      \* entity ids of NPCs in the zone
    ObjIds,      \* entity ids of server objects in the zone
    HasActions,  \* entities whose definition has a non-empty action list
    OtherId,     \* an entity id that names nothing in the zone
    NoClient, NoEvent, NoPoint,
    MaxWork      \* bound: ActionList tasks waiting in the work queue

ASSUME /\ Privileged \subseteq Client
       /\ NpcIds \cap ObjIds = {} /\ HasActions \subseteq NpcIds \cup ObjIds
       /\ PointInput \subseteq -128 .. 127
       /\ OtherId \notin Plasma \cup NpcIds \cup ObjIds

Point == 1 .. NPoints

VARIABLES
    inZone,     \* ClientState::GetZone is not null
    near,       \* the character is within interaction range / line of sight
    event,      \* the client's current system event: a plasma id or NoEvent
    holder,     \* holder[p][pt]: the character that picked the point
    work,       \* ActionList tasks queued by ObjectInteraction: <<client, entity>>
    liveLists   \* ActionList objects allocated and not yet deleted

vars == <<inZone, near, event, holder, work, liveLists>>

TypeOK ==
    /\ inZone \in [Client -> BOOLEAN]
    /\ near \in [Client -> BOOLEAN]
    /\ event \in [Client -> Plasma \cup {NoEvent}]
    /\ holder \in [Plasma -> [Point -> Client \cup {NoClient}]]
    /\ work \in Seq(Client \X (NpcIds \cup ObjIds))
    /\ liveLists \in Nat

Init ==
    /\ inZone = [c \in Client |-> TRUE]
    /\ near \in [Client -> BOOLEAN]
    /\ event = [c \in Client |-> NoEvent]
    /\ holder = [p \in Plasma |-> [pt \in Point |-> NoClient]]
    /\ work = <<>>
    /\ liveLists = 0

-----------------------------------------------------------------------------
(* Movement and the plasma result handlers (outside src/), from the spec.  *)

\* The character moves into or out of range.
Move(c) ==
    /\ near' = [near EXCEPT ![c] = ~@]
    /\ UNCHANGED <<inZone, event, holder, work, liveLists>>

\* The client leaves the zone or enters it again.
ChangeZone(c) ==
    /\ event[c] = NoEvent
    /\ inZone' = [inZone EXCEPT ![c] = ~@]
    /\ UNCHANGED <<near, event, holder, work, liveLists>>

\* The plasma event finishes: the pick is released and the event ends.
PlasmaEnd(c) ==
    /\ event[c] # NoEvent
    /\ holder' = [holder EXCEPT ![event[c]] = [pt \in Point |->
                     IF @[pt] = c THEN NoClient ELSE @[pt]]]
    /\ event' = [event EXCEPT ![c] = NoEvent]
    /\ UNCHANGED <<inZone, near, work, liveLists>>

-----------------------------------------------------------------------------
(* PlasmaStart.cpp                                                          *)

\* PlasmaState::GetPoint((uint32_t)pointID): a negative id wraps to a huge
\* one, and an id beyond the plasma's points finds nothing.
GetPoint(pt) == IF pt \in Point THEN pt ELSE NoPoint

\* PlasmaState::PickPoint: a null point or one already taken is not picked.
PickPoint(p, point) == point # NoPoint /\ holder[p][point] = NoClient

\* Fault model of PlasmaStart: the event is left running after a failed pick.
PlasmaStartNoEnd(c, p, pt) ==
    /\ IF inZone[c] /\ p \in Plasma /\ pt # 0 /\ event[c] = NoEvent
       THEN LET point == GetPoint(pt)
                tooFar == point # NoPoint /\ ~near[c]
            IN IF ~tooFar /\ PickPoint(p, point)
               THEN /\ holder' = [holder EXCEPT ![p][point] = c]
                    /\ event' = [event EXCEPT ![c] = p]
               ELSE /\ event' = [event EXCEPT ![c] = p]
                    /\ UNCHANGED holder
       ELSE UNCHANGED <<event, holder>>
    /\ UNCHANGED <<inZone, near, work, liveLists>>

\* Parse, lines 45-98: with a zone, a plasma entity, a non-zero point id and
\* a system event started (StartSystemEvent fails while one is running), a
\* point out of reach is refused, any other is picked; if the pick did not
\* succeed, HandleEvent(client, nullptr) ends the event again.
PlasmaStart(c, p, pt) ==
    /\ IF inZone[c] /\ p \in Plasma /\ pt # 0 /\ event[c] = NoEvent
       THEN LET point == GetPoint(pt)
                tooFar == point # NoPoint /\ ~near[c]
            IN IF ~tooFar /\ PickPoint(p, point)
               THEN /\ holder' = [holder EXCEPT ![p][point] = c]
                    /\ event' = [event EXCEPT ![c] = p]
               ELSE UNCHANGED <<event, holder>>
       ELSE UNCHANGED <<event, holder>>
    /\ UNCHANGED <<inZone, near, work, liveLists>>

-----------------------------------------------------------------------------
(* ObjectInteraction.cpp                                                    *)

\* Lines 92-104: an NPC by that id, else a server object by that id.
Lookup(e) == e \in NpcIds \cup ObjIds

\* Fault model of ObjectInteraction: the empty action list is not deleted.
ObjectInteractionLeak(c, e) ==
    /\ Len(work) < MaxWork
    /\ inZone[c] /\ Lookup(e) /\ (c \in Privileged \/ near[c])
    /\ IF e \in HasActions
       THEN /\ work' = Append(work, <<c, e>>)
            /\ liveLists' = liveLists + 1
       ELSE /\ liveLists' = liveLists + 1
            /\ UNCHANGED work
    /\ UNCHANGED <<inZone, near, event, holder>>

\* Parse, lines 62-217: without a zone, an entity, privilege or range, only
\* a log line; otherwise a new ActionList, deleted at once when empty, else
\* handed with the client to QueueWork.
ObjectInteraction(c, e) ==
    /\ Len(work) < MaxWork
    /\ IF inZone[c] /\ Lookup(e) /\ (c \in Privileged \/ near[c])
       THEN IF e \in HasActions
            THEN /\ work' = Append(work, <<c, e>>)
                 /\ liveLists' = liveLists + 1
            ELSE UNCHANGED <<work, liveLists>>
       ELSE UNCHANGED <<work, liveLists>>
    /\ UNCHANGED <<inZone, near, event, holder>>

\* Fault model of PerformActionsTask: the list is deleted twice.
PerformActionsTaskDoubleDelete ==
    /\ work # <<>>
    /\ work' = Tail(work)
    /\ liveLists' = liveLists - 2
    /\ UNCHANGED <<inZone, near, event, holder>>

\* The queued lambda, lines 202-213: PerformActions, then delete the list.
PerformActionsTask ==
    /\ work # <<>>
    /\ work' = Tail(work)
    /\ liveLists' = liveLists - 1
    /\ UNCHANGED <<inZone, near, event, holder>>

Next ==
    \/ \E c \in Client :
         \/ Move(c) \/ ChangeZone(c) \/ PlasmaEnd(c)
         \/ \E p \in Plasma \cup {OtherId}, pt \in PointInput : PlasmaStart(c, p, pt)
         \/ \E e \in NpcIds \cup ObjIds \cup {OtherId} : ObjectInteraction(c, e)
    \/ PerformActionsTask

\* The work queue runs the tasks handed to it.
Spec == Init /\ [][Next]_vars /\ WF_vars(PerformActionsTask)

-----------------------------------------------------------------------------
(* Properties.                                                             *)

\* A client's system event is running exactly while it holds a picked
\* point of that plasma, and a point has one holder: a failed pick never
\* leaves PlasmaStart's event open, and a pick never happens outside one.
EventIffPick ==
    \A c \in Client :
        /\ event[c] # NoEvent => \E pt \in Point : holder[event[c]][pt] = c
        /\ \A p \in Plasma, pt \in Point : holder[p][pt] = c => event[c] = p

\* Every ActionList that is allocated and not yet deleted belongs to exactly
\* one task waiting in the work queue: none leaks and none is deleted twice.
ListsOwnedByTasks == liveLists = Len(work)
=============================================================================
