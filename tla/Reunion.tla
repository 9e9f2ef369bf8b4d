------------------------------ MODULE Reunion -------------------------------
(***************************************************************************)
(* The mitama reunion request (MitamaReunion.cpp).  Parse queues           *)
(* HandleMitamaReunion with the client's mitama handle and reunion index;  *)
(* the task checks the summoned demon, the mitama and the index, applies   *)
(* the reunion to the summoned demon, deletes the consumed mitama and      *)
(* queues the change set.  One client's demons live in two boxes (COMP and *)
(* depo), referenced forward from box slots and backward by the demon's    *)
(* DemonBox and BoxSlot.  A deleted demon object still resolves by UUID    *)
(* until the background writer has written its Delete.                     *)
(***************************************************************************)
EXTENDS Integers, Sequences, FiniteSets

CONSTANTS
    Demon,       \* the client's demons
    Kind,        \* Kind[d]: "mitamad" (IsMitamaDemon), "mitama" (a mitama type), "plain"
    NoDemon,     \* null demon / empty slot / handle 0
    NSlots,      \* slots per demon box
    InitBox,     \* box contents at the start of the behaviour
    IdxInput,    \* reunion indices a client can send (int8 values)
    MaxRank,     \* DoMitamaReunion fails once a reunion entry reaches this rank
    MaxTasks,    \* bound: HandleMitamaReunion tasks waiting in the work queue
    MaxQueue,    \* bound: change sets waiting for the background writer
    Serial       \* one handler or task of the client runs at a time

Box == {"comp", "depo"}
Slot == 0 .. NSlots - 1
ReunionIdx == 0 .. 11

ASSUME /\ Kind \in [Demon -> {"mitamad", "mitama", "plain"}]
       /\ NoDemon \notin Demon
       /\ InitBox \in [Box -> [Slot -> Demon \cup {NoDemon}]]
       /\ \A d \in Demon : \E b \in Box, s \in Slot : InitBox[b][s] = d
       /\ IdxInput \subseteq -128 .. 127
       /\ Serial \in BOOLEAN

VARIABLES
    box,       \* box[b][s]: DemonBox::GetDemons forward reference
    dBox,      \* dBox[d]: Demon::GetDemonBox back-reference
    dSlot,     \* dSlot[d]: Demon::GetBoxSlot back-reference
    active,    \* DemonState::GetEntity: the summoned demon, or NoDemon
    rank,      \* rank[d][k]: reunion entry k of demon d
    tasks,     \* HandleMitamaReunion tasks queued by Parse, in order
    dbQueue,   \* Delete sets of queued change sets, not yet written
    deleted,   \* demons whose Delete has been written (no longer resolvable)
    consumed,  \* mitamas deleted by a successful reunion (history)
    run        \* the task on the worker past its checks: what it captured

vars == <<box, dBox, dSlot, active, rank, tasks, dbQueue, deleted, consumed, run>>

NoRun == [pc |-> "none", demon |-> NoDemon, mitama |-> NoDemon, idx |-> 0]

\* Where InitBox keeps demon d.
HomeOf(d) == CHOOSE bs \in Box \X Slot : InitBox[bs[1]][bs[2]] = d

TypeOK ==
    /\ box \in [Box -> [Slot -> Demon \cup {NoDemon}]]
    /\ dBox \in [Demon -> Box]
    /\ dSlot \in [Demon -> Slot]
    /\ active \in Demon \cup {NoDemon}
    /\ rank \in [Demon -> [ReunionIdx -> 0 .. MaxRank]]
    /\ tasks \in Seq([mitama : Demon \cup {NoDemon}, idx : IdxInput])
    /\ dbQueue \in Seq(SUBSET Demon)
    /\ deleted \subseteq Demon /\ consumed \subseteq Demon
    /\ run \in [pc : {"none", "apply"}, demon : Demon \cup {NoDemon},
               mitama : Demon \cup {NoDemon}, idx : ReunionIdx]

Init ==
    /\ box = InitBox
    /\ dBox = [d \in Demon |-> HomeOf(d)[1]]
    /\ dSlot = [d \in Demon |-> HomeOf(d)[2]]
    /\ active = NoDemon
    /\ rank = [d \in Demon |-> [k \in ReunionIdx |-> 0]]
    /\ tasks = <<>>
    /\ dbQueue = <<>>
    /\ deleted = {}
    /\ consumed = {}
    /\ run = NoRun

-----------------------------------------------------------------------------
(* Other handlers of the same client (outside src/), from the spec.        *)

\* Under Serial dispatch another handler waits for the running task.
NoTaskRunning == Serial => run.pc = "none"

\* A demon still in the slot its back-reference names.
InItsSlot(d) == box[dBox[d]][dSlot[d]] = d

\* Summon a demon from the COMP.
Summon(d) ==
    /\ NoTaskRunning
    /\ active = NoDemon /\ dBox[d] = "comp" /\ InItsSlot(d)
    /\ active' = d
    /\ UNCHANGED <<box, dBox, dSlot, rank, tasks, dbQueue, deleted, consumed, run>>

Dismiss ==
    /\ NoTaskRunning
    /\ active # NoDemon
    /\ active' = NoDemon
    /\ UNCHANGED <<box, dBox, dSlot, rank, tasks, dbQueue, deleted, consumed, run>>

\* Move a demon that is not summoned into an empty slot of a box.
MoveDemon(d, b, s) ==
    /\ NoTaskRunning
    /\ d # active /\ InItsSlot(d) /\ box[b][s] = NoDemon
    /\ box' = [box EXCEPT ![dBox[d]][dSlot[d]] = NoDemon, ![b][s] = d]
    /\ dBox' = [dBox EXCEPT ![d] = b]
    /\ dSlot' = [dSlot EXCEPT ![d] = s]
    /\ UNCHANGED <<active, rank, tasks, dbQueue, deleted, consumed, run>>

\* CharacterManager::DoMitamaReunion's result: it succeeds unless the entry
\* is already at the cap.
ReunionAllowed(demon, k) == rank[demon][k] < MaxRank

\* CharacterManager::DeleteDemon: clear the box slot its back-reference
\* names; the Delete entry goes into the caller's change set.
DeleteDemon(d) == box' = [box EXCEPT ![dBox[d]][dSlot[d]] = NoDemon]

\* The background writer writes the oldest queued change set.
DbWorker ==
    /\ dbQueue # <<>>
    /\ deleted' = deleted \cup Head(dbQueue)
    /\ dbQueue' = Tail(dbQueue)
    /\ UNCHANGED <<box, dBox, dSlot, active, rank, tasks, consumed, run>>

-----------------------------------------------------------------------------
(* MitamaReunion.cpp                                                        *)

\* Parse, lines 120-138: queue the task with the handle and the index.
MitamaReunionParse(m, k) ==
    /\ NoTaskRunning
    /\ Len(tasks) < MaxTasks /\ Len(dbQueue) < MaxQueue
    /\ tasks' = Append(tasks, [mitama |-> m, idx |-> k])
    /\ UNCHANGED <<box, dBox, dSlot, active, rank, dbQueue, deleted, consumed, run>>

\* Lines 69-72: handle 0 is null; otherwise the object while it resolves.
Resolve(m) == IF m # NoDemon /\ m \notin deleted THEN m ELSE NoDemon

\* Fault model of ReunionChecks: the upper index bound is off by one.
ReunionChecksOffByOne(demon, mitama, k) ==
    /\ demon # NoDemon /\ mitama # NoDemon /\ demon # mitama
    /\ Kind[demon] = "mitamad"
    /\ k >= 0 /\ k <= 12

\* Lines 76-79: the summoned demon and the mitama exist and differ, the
\* summoned demon is a mitama demon, and the index is in [0, 12).
ReunionChecks(demon, mitama, k) ==
    /\ demon # NoDemon /\ mitama # NoDemon /\ demon # mitama
    /\ Kind[demon] = "mitamad"
    /\ k >= 0 /\ k < 12

\* GetMitamaIndex's success output, lines 80-83: the mitama's base demon is
\* one of the mitama types.
IsMitamaType(mitama) == Kind[mitama] = "mitama"

\* HandleMitamaReunion, lines 56-83, on the worker: take the summoned demon
\* (line 66) and resolve the mitama, then run the checks; a failed check
\* ends the task with the failure reply (lines 106-117).
HandleMitamaReunionCheck ==
    /\ tasks # <<>> /\ run.pc = "none"
    /\ LET t      == Head(tasks)
           mitama == Resolve(t.mitama)
       IN run' = IF ReunionChecks(active, mitama, t.idx) /\ IsMitamaType(mitama)
                 THEN [pc |-> "apply", demon |-> active, mitama |-> mitama, idx |-> t.idx]
                 ELSE NoRun
    /\ tasks' = Tail(tasks)
    /\ UNCHANGED <<box, dBox, dSlot, active, rank, dbQueue, deleted, consumed>>

\* Fault model of HandleMitamaReunionApply: the change set is never queued.
HandleMitamaReunionApplyNoQueue ==
    /\ run.pc = "apply"
    /\ IF ReunionAllowed(run.demon, run.idx)
       THEN /\ rank' = [rank EXCEPT ![run.demon][run.idx] = @ + 1]
            /\ DeleteDemon(run.mitama)
            /\ consumed' = consumed \cup {run.mitama}
       ELSE UNCHANGED <<box, rank, consumed>>
    /\ run' = NoRun
    /\ UNCHANGED <<dBox, dSlot, active, tasks, dbQueue, deleted>>

\* Fault model of HandleMitamaReunionApply: the summoned demon is deleted
\* in place of the mitama.
HandleMitamaReunionApplyDeletesDemon ==
    /\ run.pc = "apply"
    /\ IF ReunionAllowed(run.demon, run.idx)
       THEN /\ rank' = [rank EXCEPT ![run.demon][run.idx] = @ + 1]
            /\ DeleteDemon(run.demon)
            /\ dbQueue' = Append(dbQueue, {run.demon})
            /\ consumed' = consumed \cup {run.demon}
       ELSE UNCHANGED <<box, rank, dbQueue, consumed>>
    /\ run' = NoRun
    /\ UNCHANGED <<dBox, dSlot, active, tasks, deleted>>

\* HandleMitamaReunion, lines 85-117, with what the checks captured:
\* DoMitamaReunion, then DeleteDemon of the mitama and QueueChangeSet; if
\* the reunion fails, the failure reply.
HandleMitamaReunionApply ==
    /\ run.pc = "apply"
    /\ IF ReunionAllowed(run.demon, run.idx)
       THEN /\ rank' = [rank EXCEPT ![run.demon][run.idx] = @ + 1]
            /\ DeleteDemon(run.mitama)
            /\ dbQueue' = Append(dbQueue, {run.mitama})
            /\ consumed' = consumed \cup {run.mitama}
       ELSE UNCHANGED <<box, rank, dbQueue, consumed>>
    /\ run' = NoRun
    /\ UNCHANGED <<dBox, dSlot, active, tasks, deleted>>

Next ==
    \/ \E m \in Demon \cup {NoDemon}, k \in IdxInput : MitamaReunionParse(m, k)
    \/ HandleMitamaReunionCheck
    \/ HandleMitamaReunionApply
    \/ \E d \in Demon : Summon(d)
    \/ Dismiss
    \/ \E d \in Demon, b \in Box, s \in Slot : MoveDemon(d, b, s)
    \/ DbWorker

\* The work queue runs queued tasks to their end and the writer drains its
\* queue.
Spec == Init /\ [][Next]_vars /\ WF_vars(HandleMitamaReunionCheck)
            /\ WF_vars(HandleMitamaReunionApply) /\ WF_vars(DbWorker)

-----------------------------------------------------------------------------
(* Properties.                                                             *)

\* Every filled slot holds a demon no reunion consumed, whose back-reference
\* names that slot, and every demon not consumed is still in the slot it
\* names: deleting the mitama never clears a slot that holds another demon.
DemonRefsAgree ==
    /\ \A b \in Box, s \in Slot :
         box[b][s] # NoDemon => /\ box[b][s] \notin consumed
                                /\ dBox[box[b][s]] = b /\ dSlot[box[b][s]] = s
    /\ \A d \in Demon \ consumed : InItsSlot(d)

\* The summoned demon is never the mitama a reunion deleted: the mitama
\* checked distinct from the summoned demon at line 78 is still not the
\* summoned demon when DeleteDemon removes it at line 97.
SummonedNotConsumed == active \notin consumed

\* Every mitama a reunion consumed has its Delete written eventually: the
\* window in which the deleted mitama still resolves by handle closes.
ConsumedEventuallyDeleted == \A d \in Demon : d \in consumed ~> d \in deleted

=============================================================================
