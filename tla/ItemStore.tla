------------------------------ MODULE ItemStore ------------------------------
(***************************************************************************)
(* The persistent item data of the channel server: every character's       *)
(* inventory item box (forward references, slot -> item), every item's     *)
(* back-reference (ItemBox uuid and BoxSlot), and the world database copy  *)
(* of both.  A DatabaseChangeSet is a set of Update/Delete entries; the    *)
(* database serialises an object's fields as they are when the change set  *)
(* is processed, not as they were when the entry was added.                *)
(*                                                                         *)
(* The inventory of client c is identified by c itself (ItemBoxes(0) of    *)
(* the character bound to the connection).                                 *)
(***************************************************************************)
EXTENDS Naturals, Sequences, FiniteSets

CONSTANTS
    Client,      \* connections (each bound to one character and inventory)
    Item,        \* persistent items
    NSlots,      \* slots per inventory item box
    NoItem,      \* NULLUUID in an item box slot
    NoClient,    \* no connection / no item box
    Deleted,     \* database row removed by a Delete entry
    InitInv      \* inventories at the start of the behaviour

Slot == 0 .. NSlots - 1

ASSUME /\ NSlots \in Nat \ {0}
       /\ NoItem \notin Item /\ NoClient \notin Client
       /\ InitInv \in [Client -> [Slot -> Item \cup {NoItem}]]
       \* every item sits in exactly one slot of one inventory
       /\ \A i \in Item : \E c \in Client, s \in Slot :
             /\ InitInv[c][s] = i
             /\ \A d \in Client, t \in Slot : InitInv[d][t] = i => <<d, t>> = <<c, s>>

VARIABLES
    inv,       \* inv[c][s]: item box forward reference (ItemBox::GetItems)
    itemBox,   \* itemBox[i]: back-reference to the owning box (Item::GetItemBox)
    boxSlot,   \* boxSlot[i]: back-reference slot (Item::GetBoxSlot)
    dbInv,     \* item box rows in the world database
    dbItem,    \* item rows: <<box, slot>> or Deleted
    dbQueue    \* change sets handed to QueueChangeSet, not yet written

storeVars == <<inv, itemBox, boxSlot, dbInv, dbItem, dbQueue>>

\* An entry set of a DatabaseChangeSet: boxes and items to Update, items to Delete.
ChangeSet == [boxes : SUBSET Client, items : SUBSET Item, dels : SUBSET Item]

StoreTypeOK ==
    /\ inv \in [Client -> [Slot -> Item \cup {NoItem}]]
    /\ itemBox \in [Item -> Client \cup {NoClient}]
    /\ boxSlot \in [Item -> Slot]
    /\ dbInv \in [Client -> [Slot -> Item \cup {NoItem}]]
    /\ dbItem \in [Item -> (Client \X Slot) \cup {Deleted}]
    /\ dbQueue \in Seq(ChangeSet)

\* Where InitInv keeps item i.
HomeOf(i) == CHOOSE cs \in Client \X Slot : InitInv[cs[1]][cs[2]] = i

StoreInit ==
    /\ inv = InitInv
    /\ itemBox = [i \in Item |-> HomeOf(i)[1]]
    /\ boxSlot = [i \in Item |-> HomeOf(i)[2]]
    /\ dbInv = InitInv
    /\ dbItem = [i \in Item |-> HomeOf(i)]
    /\ dbQueue = <<>>

\* CharacterManager::GetFreeSlots: the empty slots of an item box.
GetFreeSlots(c) == {s \in Slot : inv[c][s] = NoItem}

\* Database side of processing a change set: each Update writes the object's
\* current in-memory fields, an Update of a deleted row writes nothing, and a
\* Delete removes the row.
ApplyChanges(cs) ==
    /\ dbInv' = [c \in Client |-> IF c \in cs.boxes THEN inv[c] ELSE dbInv[c]]
    /\ dbItem' = [i \in Item |->
                    CASE i \in cs.dels -> Deleted
                      [] i \in cs.items /\ dbItem[i] # Deleted -> <<itemBox[i], boxSlot[i]>>
                      [] OTHER -> dbItem[i]]

\* WorldDatabase::QueueChangeSet: hand the change set to the background writer.
QueueChangeSet(cs) == dbQueue' = Append(dbQueue, cs)

\* The background writer processes queued change sets in submission order.
DbWorker ==
    /\ dbQueue # <<>>
    /\ ApplyChanges(Head(dbQueue))
    /\ dbQueue' = Tail(dbQueue)
    /\ UNCHANGED <<inv, itemBox, boxSlot>>
=============================================================================
