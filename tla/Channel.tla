------------------------------- MODULE Channel -------------------------------
(***************************************************************************)
(* The channel server's item-moving handlers over shared item state:       *)
(*   - the two-party exchange (trade) session and the TradeFinish handler  *)
(*     (TradeFinish.cpp), run inline in Parse on the connection's thread;  *)
(*   - ItemDrop (ItemDrop.cpp), whose Parse queues DropItem as work;       *)
(*   - the exchange lifecycle handled outside src/ (open, stage, cancel,   *)
(*     disconnect), modelled from the spec.                                *)
(* Connections run on different threads and nothing locks item or session  *)
(* state, so every handler is split at the points where another thread's   *)
(* step can fall between its read and its write.                           *)
(***************************************************************************)
EXTENDS ItemStore, SequencesExt

CONSTANTS
    NoSession,   \* null ExchangeSession pointer
    Discardable, \* items whose definition has ITEM_FLAG_DISCARD
    MaxTrades,   \* bound: exchange sessions opened in one behaviour
    MaxQueue,    \* bound: change sets waiting for the background writer
    DbMayFail,   \* whether ProcessChangeSet may report failure
    Serial       \* one packet handler or queued task runs at a time

ASSUME /\ Discardable \subseteq Item
       /\ MaxTrades \in Nat /\ MaxQueue \in Nat
       /\ DbMayFail \in BOOLEAN /\ Serial \in BOOLEAN

\* One session object per side of each opened exchange: <<trade number, owner>>.
SessionId == (1 .. MaxTrades) \X Client

VARIABLES
    live,       \* live[c]: the connection is up (GetEntityClient finds it)
    sess,       \* sess[c]: ClientState::GetExchangeSession
    sOther,     \* sOther[s]: PlayerExchangeSession::GetOtherCharacterState
    sItems,     \* sItems[s]: staged items of the session's owner, in trade-slot order
    sFinished,  \* sFinished[s]: PlayerExchangeSession::GetFinished
    nTrades,    \* exchange sessions opened so far
    tf,         \* TradeFinish::Parse in progress on each connection's thread
    drop,       \* DropItem work queued for each connection
    dropped,    \* items removed from their box by DropItem (history)
    dbFailed,   \* some ProcessChangeSet has failed (history)
    crashed     \* the server process died on a null dereference

chanVars == <<live, sess, sOther, sItems, sFinished, nTrades, tf, drop,
              dropped, dbFailed, crashed>>
vars == <<storeVars, chanVars>>

TFPc == {"idle", "mark", "check", "validate", "commit", "persist"}
TFIdle == [pc |-> "idle", ses |-> NoSession, other |-> NoClient,
           oses |-> NoSession, items |-> <<>>, oitems |-> <<>>,
           free |-> {}, ofree |-> {}]
DropIdle == [pc |-> "none", item |-> NoItem]

TypeOK ==
    /\ StoreTypeOK
    /\ live \in [Client -> BOOLEAN]
    /\ sess \in [Client -> SessionId \cup {NoSession}]
    /\ sOther \in [SessionId -> Client \cup {NoClient}]
    /\ sItems \in [SessionId -> Seq(Item)]
    /\ sFinished \in [SessionId -> BOOLEAN]
    /\ nTrades \in 0 .. MaxTrades
    /\ tf \in [Client -> [pc : TFPc, ses : SessionId \cup {NoSession},
                          other : Client \cup {NoClient},
                          oses : SessionId \cup {NoSession},
                          items : Seq(Item), oitems : Seq(Item),
                          free : SUBSET Slot, ofree : SUBSET Slot]]
    /\ drop \in [Client -> [pc : {"none", "check", "apply"}, item : Item \cup {NoItem}]]
    /\ dropped \subseteq Item
    /\ dbFailed \in BOOLEAN
    /\ crashed \in BOOLEAN

Init ==
    /\ StoreInit
    /\ live = [c \in Client |-> TRUE]
    /\ sess = [c \in Client |-> NoSession]
    /\ sOther = [s \in SessionId |-> NoClient]
    /\ sItems = [s \in SessionId |-> <<>>]
    /\ sFinished = [s \in SessionId |-> FALSE]
    /\ nTrades = 0
    /\ tf = [c \in Client |-> TFIdle]
    /\ drop = [c \in Client |-> DropIdle]
    /\ dropped = {}
    /\ dbFailed = FALSE
    /\ crashed = FALSE

-----------------------------------------------------------------------------
(* Exchange session helpers (CharacterManager, outside src/).              *)

\* The clients whose current session belongs to the same exchange as c's.
Partners(c) == {c} \cup {d \in Client : sess[c] # NoSession /\ sess[d] # NoSession
                                         /\ sess[d][1] = sess[c][1]}

\* sess after EndExchange on every client of S (no-op for a client without one).
EndExchanges(S) == [d \in Client |-> IF d \in S THEN NoSession ELSE sess[d]]

\* Kill/Close of the connections in S; the disconnect clears every exchange
\* session a killed client participated in, on both sides.
KillAll(S, E) ==
    /\ live' = [d \in Client |-> IF d \in S THEN FALSE ELSE live[d]]
    /\ sess' = EndExchanges(E \cup UNION {Partners(d) : d \in S})

\* The items a client has staged, as a set.
Staged(s) == Range(sItems[s])

-----------------------------------------------------------------------------
(* Exchange lifecycle, outside src/: modelled from the spec.               *)

\* Trade request accepted: b's thread pairs a and b in a new exchange.
TradeOpen(a, b) ==
    /\ a # b /\ live[a] /\ live[b]
    /\ sess[a] = NoSession /\ sess[b] = NoSession
    /\ tf[b].pc = "idle"
    /\ nTrades < MaxTrades
    /\ LET k == nTrades + 1 IN
         /\ sess' = [sess EXCEPT ![a] = <<k, a>>, ![b] = <<k, b>>]
         /\ sOther' = [sOther EXCEPT ![<<k, a>>] = b, ![<<k, b>>] = a]
    /\ nTrades' = nTrades + 1
    /\ UNCHANGED <<storeVars, live, sItems, sFinished, tf, drop, dropped, dbFailed, crashed>>

\* Stage an item that currently sits in the client's own inventory.
TradeAddItem(c, i) ==
    /\ live[c] /\ tf[c].pc = "idle"
    /\ sess[c] # NoSession /\ ~sFinished[sess[c]]
    /\ itemBox[i] = c /\ inv[c][boxSlot[i]] = i
    /\ i \notin Staged(sess[c])
    /\ sItems' = [sItems EXCEPT ![sess[c]] = Append(@, i)]
    /\ UNCHANGED <<storeVars, live, sess, sOther, sFinished, nTrades, tf, drop,
                   dropped, dbFailed, crashed>>

\* Explicit cancel ends the exchange for both sides.
TradeCancel(c) ==
    /\ live[c] /\ tf[c].pc = "idle"
    /\ sess[c] # NoSession
    /\ sess' = EndExchanges(Partners(c))
    /\ UNCHANGED <<storeVars, live, sOther, sItems, sFinished, nTrades, tf, drop,
                   dropped, dbFailed, crashed>>

\* The client drops its connection.
Disconnect(c) ==
    /\ live[c]
    /\ KillAll({c}, {})
    /\ UNCHANGED <<storeVars, sOther, sItems, sFinished, nTrades, tf, drop,
                   dropped, dbFailed, crashed>>

-----------------------------------------------------------------------------
(* TradeFinish::Parse (TradeFinish.cpp), one step per stretch of code that *)
(* no other thread can split in a way that matters.                        *)

\* Lines 56-80: read the own session, its counterpart and the counterpart's
\* connection; without one, end the own exchange and stop.
TradeFinishRead(c) ==
    /\ live[c] /\ tf[c].pc = "idle"
    /\ LET ses   == sess[c]
           other == IF ses # NoSession THEN sOther[ses] ELSE NoClient
       IN IF other # NoClient /\ live[other]
          THEN /\ tf' = [tf EXCEPT ![c] = [TFIdle EXCEPT !.pc = "mark", !.ses = ses,
                                                         !.other = other]]
               /\ UNCHANGED sess
          ELSE /\ sess' = EndExchanges({c})
               /\ UNCHANGED tf
    /\ UNCHANGED <<storeVars, live, sOther, sItems, sFinished, nTrades, drop,
                   dropped, dbFailed, crashed>>

\* Lines 82-101: read the counterpart's current session; if there is one,
\* mark the own side finished and notify; reply either way.
TradeFinishMark(c) ==
    /\ tf[c].pc = "mark"
    /\ LET oses == sess[tf[c].other] IN
         /\ sFinished' = IF oses # NoSession
                         THEN [sFinished EXCEPT ![tf[c].ses] = TRUE]
                         ELSE sFinished
         /\ tf' = [tf EXCEPT ![c].pc = "check", ![c].oses = oses]
    /\ UNCHANGED <<storeVars, live, sess, sOther, sItems, nTrades, drop,
                   dropped, dbFailed, crashed>>

\* Fault model of TradeFinishCheck: the wait for the counterpart is left
\* out, and the trade goes on to validation after one side finished.
TradeFinishCheckNoWait(c) ==
    /\ tf[c].pc = "check"
    /\ \/ /\ tf[c].oses = NoSession
          /\ crashed' = TRUE
          /\ UNCHANGED tf
       \/ /\ tf[c].oses # NoSession
          /\ tf' = [tf EXCEPT ![c].pc = "validate"]
          /\ UNCHANGED crashed
    /\ UNCHANGED <<storeVars, live, sess, sOther, sItems, sFinished, nTrades,
                   drop, dropped, dbFailed>>

\* Line 104: otherSession->GetFinished(); a null otherSession is dereferenced.
TradeFinishCheck(c) ==
    /\ tf[c].pc = "check"
    /\ \/ /\ tf[c].oses = NoSession
          /\ crashed' = TRUE
          /\ UNCHANGED tf
       \/ /\ tf[c].oses # NoSession /\ ~sFinished[tf[c].oses]
          /\ tf' = [tf EXCEPT ![c] = TFIdle]
          /\ UNCHANGED crashed
       \/ /\ tf[c].oses # NoSession /\ sFinished[tf[c].oses]
          /\ tf' = [tf EXCEPT ![c].pc = "validate"]
          /\ UNCHANGED crashed
    /\ UNCHANGED <<storeVars, live, sess, sOther, sItems, sFinished, nTrades,
                   drop, dropped, dbFailed>>

\* Lines 108-175: re-validate the staged items of both sides against their
\* current back-references (phantom-item check), then check capacity.  The
\* free-slot sets are computed here and used by the commit below.
TradeFinishValidate(c) ==
    /\ tf[c].pc = "validate"
    /\ LET o       == tf[c].other
           items   == sItems[tf[c].ses]
           oitems  == sItems[tf[c].oses]
           free    == GetFreeSlots(c) \cup {boxSlot[i] : i \in Range(items)}
           ofree   == GetFreeSlots(o) \cup {boxSlot[i] : i \in Range(oitems)}
           Phantom(s, owner) == \E i \in Range(s) : itemBox[i] # owner
       IN \/ /\ Phantom(items, c)
             /\ KillAll({c}, {c, o})
             /\ tf' = [tf EXCEPT ![c] = TFIdle]
          \/ /\ ~Phantom(items, c) /\ Phantom(oitems, o)
             /\ KillAll({o}, {c, o})
             /\ tf' = [tf EXCEPT ![c] = TFIdle]
          \/ /\ ~Phantom(items, c) /\ ~Phantom(oitems, o)
             /\ Len(items) > Cardinality(ofree) \/ Len(oitems) > Cardinality(free)
             /\ sess' = EndExchanges({c, o})
             /\ tf' = [tf EXCEPT ![c] = TFIdle]
             /\ UNCHANGED live
          \/ /\ ~Phantom(items, c) /\ ~Phantom(oitems, o)
             /\ Len(items) <= Cardinality(ofree) /\ Len(oitems) <= Cardinality(free)
             /\ tf' = [tf EXCEPT ![c] = [@ EXCEPT !.pc = "commit", !.items = items,
                                             !.oitems = oitems, !.free = free,
                                             !.ofree = ofree]]
             /\ UNCHANGED <<live, sess>>
    /\ UNCHANGED <<storeVars, sOther, sItems, sFinished, nTrades, drop,
                   dropped, dbFailed, crashed>>

\* Fault models of Placement: a slot index one too high; the free-slot test
\* dropped (items go to slots 0, 1, ...); the item iterator never advanced.
PlacementOffByOne(s, free) ==
    LET ord == SetToSortSeq(free, <)
        n   == IF Len(s) < Len(ord) THEN Len(s) ELSE Len(ord)
    IN {<<s[k], ord[k] + 1>> : k \in 1 .. n}
PlacementIgnoringFree(s, free) ==
    {<<s[k], k - 1>> : k \in 1 .. IF Len(s) < NSlots THEN Len(s) ELSE NSlots}
PlacementNoAdvance(s, free) ==
    LET ord == SetToSortSeq(free, <)
    IN IF s = <<>> THEN {} ELSE {<<s[1], ord[k]>> : k \in 1 .. Len(ord)}

\* Lines 201-214 (and 218-231): the k-th item of s goes to the k-th lowest
\* slot of free, as long as both last.
Placement(s, free) ==
    LET ord == SetToSortSeq(free, <)
        n   == IF Len(s) < Len(ord) THEN Len(s) ELSE Len(ord)
    IN {<<s[k], ord[k]>> : k \in 1 .. n}

\* The <<item, slot>> pairs of the two placement loops of c's commit: into
\* c's inventory, then into the counterpart's.
PlacedIn(c)  == Placement(tf[c].oitems, tf[c].free)
PlacedOut(c) == Placement(tf[c].items, tf[c].ofree)
Placed(c)    == {p[1] : p \in PlacedIn(c) \cup PlacedOut(c)}

\* Lines 179-231: clear the old slot of every traded item (at its current
\* BoxSlot), then write each incoming item into the slot Placement gives it,
\* using the free-slot sets computed at validation, and point its
\* back-reference at the new box; the second loop's writes come last.
TradeFinishCommit(c) ==
    /\ tf[c].pc = "commit"
    /\ LET o       == tf[c].other
           Cleared == {<<c, boxSlot[i]>> : i \in Range(tf[c].items)}
                        \cup {<<o, boxSlot[i]>> : i \in Range(tf[c].oitems)}
           \* <<box, slot, item>> written by the two loops, in order
           Writes  == <<{<<c, p[2], p[1]>> : p \in PlacedIn(c)},
                        {<<o, p[2], p[1]>> : p \in PlacedOut(c)}>>
           LastWrite(i) == IF \E w \in Writes[2] : w[3] = i
                           THEN CHOOSE w \in Writes[2] : w[3] = i
                           ELSE CHOOSE w \in Writes[1] : w[3] = i
           Written == {w[3] : w \in Writes[1] \cup Writes[2]}
       IN /\ inv' = [d \in Client |-> [s \in Slot |->
                       IF \E w \in Writes[1] \cup Writes[2] : w[1] = d /\ w[2] = s
                       THEN (CHOOSE w \in Writes[1] \cup Writes[2] : w[1] = d /\ w[2] = s)[3]
                       ELSE IF <<d, s>> \in Cleared THEN NoItem
                       ELSE inv[d][s]]]
          /\ itemBox' = [i \in Item |-> IF i \in Written THEN LastWrite(i)[1] ELSE itemBox[i]]
          /\ boxSlot' = [i \in Item |-> IF i \in Written THEN LastWrite(i)[2] ELSE boxSlot[i]]
    /\ tf' = [tf EXCEPT ![c].pc = "persist"]
    /\ UNCHANGED <<dbInv, dbItem, dbQueue, live, sess, sOther, sItems, sFinished,
                   nTrades, drop, dropped, dbFailed, crashed>>

TradeFinishPersistOneSided(c) ==
    /\ tf[c].pc = "persist"
    /\ LET o == tf[c].other
           changes == [boxes |-> {c, o},
                       items |-> Placed(c),
                       dels  |-> {}]
       IN \/ /\ ApplyChanges(changes)
             /\ sess' = EndExchanges({c})
             /\ UNCHANGED <<live, dbFailed>>
          \/ /\ DbMayFail
             /\ KillAll({c, o}, {})
             /\ dbFailed' = TRUE
             /\ UNCHANGED <<dbInv, dbItem>>
    /\ tf' = [tf EXCEPT ![c] = TFIdle]
    /\ UNCHANGED <<inv, itemBox, boxSlot, dbQueue, sOther, sItems, sFinished,
                   nTrades, drop, dropped, crashed>>

\* Lines 233-246: ProcessChangeSet over both boxes and every moved item; on
\* success end both exchanges, on failure close both connections.
TradeFinishPersist(c) ==
    /\ tf[c].pc = "persist"
    /\ LET o == tf[c].other
           changes == [boxes |-> {c, o},
                       items |-> Placed(c),
                       dels  |-> {}]
       IN \/ /\ ApplyChanges(changes)
             /\ sess' = EndExchanges({c, o})
             /\ UNCHANGED <<live, dbFailed>>
          \/ /\ DbMayFail
             /\ KillAll({c, o}, {})
             /\ dbFailed' = TRUE
             /\ UNCHANGED <<dbInv, dbItem>>
    /\ tf' = [tf EXCEPT ![c] = TFIdle]
    /\ UNCHANGED <<inv, itemBox, boxSlot, dbQueue, sOther, sItems, sFinished,
                   nTrades, drop, dropped, crashed>>

-----------------------------------------------------------------------------
(* ItemDrop (ItemDrop.cpp).                                                *)

\* Parse, lines 117-134: queue DropItem with the client's item handle.
ItemDropParse(c, i) ==
    /\ live[c] /\ tf[c].pc = "idle" /\ drop[c].pc = "none"
    /\ Len(dbQueue) < MaxQueue
    /\ drop' = [drop EXCEPT ![c] = [pc |-> "check", item |-> i]]
    /\ UNCHANGED <<storeVars, live, sess, sOther, sItems, sFinished, nTrades, tf,
                   dropped, dbFailed, crashed>>

\* DropItem, lines 55-69: a client in an exchange is killed.
DropItemCheck(c) ==
    /\ drop[c].pc = "check"
    /\ IF sess[c] # NoSession
       THEN /\ KillAll({c}, {})
            /\ drop' = [drop EXCEPT ![c] = DropIdle]
       ELSE /\ drop' = [drop EXCEPT ![c].pc = "apply"]
            /\ UNCHANGED <<live, sess>>
    /\ UNCHANGED <<storeVars, sOther, sItems, sFinished, nTrades, tf,
                   dropped, dbFailed, crashed>>

\* Fault models of DropItemApply: the slot is not cleared; the item box is
\* left out of the change set.
DropItemApplyNoClear(c) ==
    /\ drop[c].pc = "apply"
    /\ LET i == drop[c].item IN
         IF dbItem[i] # Deleted /\ itemBox[i] = c /\ i \in Discardable
         THEN /\ QueueChangeSet([boxes |-> {c}, items |-> {}, dels |-> {i}])
              /\ dropped' = dropped \cup {i}
         ELSE UNCHANGED <<dbQueue, dropped>>
    /\ drop' = [drop EXCEPT ![c] = DropIdle]
    /\ UNCHANGED <<inv, itemBox, boxSlot, dbInv, dbItem, live, sess, sOther, sItems,
                   sFinished, nTrades, tf, dbFailed, crashed>>
DropItemApplyNoBoxUpdate(c) ==
    /\ drop[c].pc = "apply"
    /\ LET i == drop[c].item IN
         IF dbItem[i] # Deleted /\ itemBox[i] = c /\ i \in Discardable
         THEN /\ inv' = [inv EXCEPT ![c][boxSlot[i]] = NoItem]
              /\ QueueChangeSet([boxes |-> {}, items |-> {}, dels |-> {i}])
              /\ dropped' = dropped \cup {i}
         ELSE UNCHANGED <<inv, dbQueue, dropped>>
    /\ drop' = [drop EXCEPT ![c] = DropIdle]
    /\ UNCHANGED <<itemBox, boxSlot, dbInv, dbItem, live, sess, sOther, sItems,
                   sFinished, nTrades, tf, dbFailed, crashed>>

\* Fault model of DropItemApply: the Delete entry is left out of the change set.
DropItemApplyNoDelete(c) ==
    /\ drop[c].pc = "apply"
    /\ LET i == drop[c].item IN
         IF dbItem[i] # Deleted /\ itemBox[i] = c /\ i \in Discardable
         THEN /\ inv' = [inv EXCEPT ![c][boxSlot[i]] = NoItem]
              /\ QueueChangeSet([boxes |-> {c}, items |-> {}, dels |-> {}])
              /\ dropped' = dropped \cup {i}
         ELSE UNCHANGED <<inv, dbQueue, dropped>>
    /\ drop' = [drop EXCEPT ![c] = DropIdle]
    /\ UNCHANGED <<itemBox, boxSlot, dbInv, dbItem, live, sess, sOther, sItems,
                   sFinished, nTrades, tf, dbFailed, crashed>>

\* DropItem, lines 70-114: an item that still resolves, whose back-reference
\* names the client's inventory and that is discardable is cleared from its
\* BoxSlot; the box update and the item delete are queued.  Otherwise an
\* error reply, and nothing changes.
DropItemApply(c) ==
    /\ drop[c].pc = "apply"
    /\ LET i == drop[c].item IN
         IF dbItem[i] # Deleted /\ itemBox[i] = c /\ i \in Discardable
         THEN /\ inv' = [inv EXCEPT ![c][boxSlot[i]] = NoItem]
              /\ QueueChangeSet([boxes |-> {c}, items |-> {}, dels |-> {i}])
              /\ dropped' = dropped \cup {i}
         ELSE UNCHANGED <<inv, dbQueue, dropped>>
    /\ drop' = [drop EXCEPT ![c] = DropIdle]
    /\ UNCHANGED <<itemBox, boxSlot, dbInv, dbItem, live, sess, sOther, sItems,
                   sFinished, nTrades, tf, dbFailed, crashed>>

-----------------------------------------------------------------------------
\* No TradeFinish is past its first step and no DropItem past its check.
NoHandlerRunning == \A c \in Client : tf[c].pc = "idle" /\ drop[c].pc # "apply"

\* Steps that start handling a packet, a queued task or a disconnect.  Under
\* Serial dispatch they wait until the running handler has returned.
StartStep ==
    /\ Serial => NoHandlerRunning
    /\ \/ \E a, b \in Client : TradeOpen(a, b)
       \/ \E c \in Client, i \in Item : TradeAddItem(c, i) \/ ItemDropParse(c, i)
       \/ \E c \in Client : TradeCancel(c) \/ Disconnect(c) \/ TradeFinishRead(c)
                             \/ DropItemCheck(c)

\* Steps that continue a handler already running.
ContinueStep ==
    \E c \in Client :
        \/ TradeFinishMark(c) \/ TradeFinishCheck(c) \/ TradeFinishValidate(c)
        \/ TradeFinishCommit(c) \/ TradeFinishPersist(c) \/ DropItemApply(c)

Next ==
    /\ ~crashed
    /\ \/ StartStep
       \/ ContinueStep
       \/ DbWorker /\ UNCHANGED chanVars

\* Each connection's thread and the queue worker keep running the work they
\* have started; clients themselves owe the server nothing.
Fairness ==
    /\ \A c \in Client :
         /\ WF_vars(TradeFinishMark(c)) /\ WF_vars(TradeFinishCheck(c))
         /\ WF_vars(TradeFinishValidate(c)) /\ WF_vars(TradeFinishCommit(c))
         /\ WF_vars(TradeFinishPersist(c))
         /\ WF_vars(DropItemCheck(c)) /\ WF_vars(DropItemApply(c))
    /\ WF_vars(DbWorker /\ UNCHANGED chanVars)

Spec == Init /\ [][Next]_vars /\ Fairness

-----------------------------------------------------------------------------
(* Properties.                                                             *)

\* No item is referenced from two slots, in one inventory or in two: a trade
\* or a drop never duplicates an item identity (TradeFinish.cpp 179-231).
NoDuplicateItem ==
    \A c, d \in Client, s, t \in Slot :
        inv[c][s] # NoItem /\ inv[c][s] = inv[d][t] => <<c, s>> = <<d, t>>

\* Every item that was never dropped is still held by exactly the slot its
\* back-reference names, and every filled slot's item points back at it:
\* the forward and back references agree after every trade commit.
ItemsConserved ==
    /\ \A c \in Client, s \in Slot :
         inv[c][s] # NoItem => itemBox[inv[c][s]] = c /\ boxSlot[inv[c][s]] = s
    /\ \A i \in Item \ dropped : itemBox[i] \in Client /\ inv[itemBox[i]][boxSlot[i]] = i

\* An item DropItem discarded (and queued for deletion) never reappears in
\* any inventory.
NoResurrection ==
    \A i \in dropped, c \in Client, s \in Slot : inv[c][s] # i

\* Once no trade commit is between its memory writes and ProcessChangeSet,
\* the background writer is idle and no commit has failed, the database
\* holds exactly the in-memory boxes and items.
Quiet == /\ dbQueue = <<>> /\ ~dbFailed
         /\ \A c \in Client : tf[c].pc \notin {"commit", "persist"}
DbMatchesMemory ==
    Quiet => /\ dbInv = inv
             /\ \A i \in Item \ dropped : dbItem[i] = <<itemBox[i], boxSlot[i]>>
             /\ \A i \in dropped : dbItem[i] = Deleted

\* At every commit point (no TradeFinish between its memory writes and its
\* ProcessChangeSet) the database never lists an item in a box row that the
\* item's own row does not point back at (spec section 3).  The writes that
\* can break it: a queued DropItem change set serialising a box mid-trade,
\* and the memory of a trade whose ProcessChangeSet failed being saved later.
NoTradePersistPending == \A c \in Client : tf[c].pc # "persist"
PersistedRefsAgree ==
    NoTradePersistPending =>
        \A c \in Client, s \in Slot :
            dbInv[c][s] # NoItem => dbItem[dbInv[c][s]] = <<c, s>>

\* In every state the database's box rows list only items whose own rows
\* point back at that box slot: whatever a restart would load is a
\* consistent inventory (spec section 3: back-reference and forward slot
\* entry agree at every persisted commit point, and every change set the
\* writer processes is one).  What can break it: the background writer
\* serialising a box that a trade has written in memory but not yet saved.
DbRowsAgree ==
    \A c \in Client, s \in Slot :
        dbInv[c][s] # NoItem => dbItem[dbInv[c][s]] = <<c, s>>

\* Every item DropItem discards is eventually deleted from the database:
\* the window in which GetObjectByUUID still resolves the dropped item, and
\* a repeated drop or a trade can still act on it, always closes (the
\* background writer drains QueueChangeSet, ItemDrop.cpp line 98).
DroppedEventuallyDeleted ==
    \A i \in Item : i \in dropped ~> (crashed \/ dbItem[i] = Deleted)

\* Exchanges are always torn down on both sides together: a client in an
\* exchange is connected, and its counterpart is connected and in the same
\* exchange.  TradeFinish ends only its own side when the counterpart's
\* connection is gone (lines 77-79) and relies on the close having ended
\* the counterpart's side; every other end (phantom item, capacity, commit,
\* failed save, DropItem's kill) must end both.
ExchangesPaired ==
    \A c \in Client :
        sess[c] # NoSession =>
            LET o == sOther[sess[c]] IN
                /\ live[c] /\ live[o]
                /\ sess[o] = <<sess[c][1], o>>

\* A TradeFinish that reaches line 104 always has a counterpart session to
\* read: the server never dereferences a null otherSession.
NoNullSessionDeref == ~crashed

-----------------------------------------------------------------------------
(* Refinement: the handlers implement the abstract exchange of spec 4.4.   *)

\* The items c's inventory holds, its counterpart, whether it has finished
\* and what it has staged, read off the item boxes and exchange sessions.
HeldBy(c)   == {inv[c][s] : s \in Slot} \ {NoItem}
PeerOf(c)   == IF sess[c] # NoSession THEN sOther[sess[c]] ELSE NoClient
DoneOf(c)   == sess[c] # NoSession /\ sFinished[sess[c]]
OfferOf(c)  == IF sess[c] # NoSession THEN Staged(sess[c]) ELSE {}

Abs == INSTANCE AbstractExchange
         WITH holds <- [c \in Client |-> HeldBy(c)],
              gone  <- dropped,
              peer  <- [c \in Client |-> PeerOf(c)],
              done  <- [c \in Client |-> DoneOf(c)],
              offer <- [c \in Client |-> OfferOf(c)],
              InitHolds <- [c \in Client |-> {InitInv[c][s] : s \in Slot} \ {NoItem}]

\* Every step of the handlers is a step of the abstract exchange or leaves
\* its state alone: items change hands only in a commit that swaps exactly
\* the staged items of two sides that have both finished, within capacity,
\* and leave play only by a drop of a held discardable item (TradeFinish
\* 104-231 and DropItem 70-114 against spec 4.4 and 8).
ImplementsAbstractExchange == Abs!AbsSpec

=============================================================================
