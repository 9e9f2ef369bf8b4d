--------------------------- MODULE AbstractExchange ---------------------------
(***************************************************************************)
(* What the item-moving operations of the channel server promise, with no *)
(* handler steps and no item slots: each client holds a set of items; two  *)
(* clients open an exchange, stage items they hold, and each finishes its  *)
(* side; only once both sides have finished can the exchange commit, which *)
(* swaps exactly the staged items in one step, and only if each side has   *)
(* room for what it receives (spec 4.4 and the conservation law of 8).  A  *)
(* discardable item can be dropped by its holder and is gone for good.     *)
(* An exchange can end at any time without moving anything.                *)
(***************************************************************************)
EXTENDS Naturals, FiniteSets

CONSTANTS
    Client,       \* connections, one character each
    Item,         \* persistent items
    NSlots,       \* capacity of an inventory
    NoClient,     \* no counterpart
    Discardable,  \* items that may be dropped
    InitHolds     \* InitHolds[c]: the items c holds at the start

VARIABLES
    holds,   \* holds[c]: items in c's inventory
    gone,    \* items dropped and deleted
    peer,    \* peer[c]: c's counterpart in an open exchange, or NoClient
    done,    \* done[c]: c has finished its side of the exchange
    offer    \* offer[c]: the items c has staged in the exchange

absVars == <<holds, gone, peer, done, offer>>

AbsTypeOK ==
    /\ holds \in [Client -> SUBSET Item]
    /\ gone \subseteq Item
    /\ peer \in [Client -> Client \cup {NoClient}]
    /\ done \in [Client -> BOOLEAN]
    /\ offer \in [Client -> SUBSET Item]

AbsInit ==
    /\ holds = InitHolds
    /\ gone = {}
    /\ peer = [c \in Client |-> NoClient]
    /\ done = [c \in Client |-> FALSE]
    /\ offer = [c \in Client |-> {}]

Open(a, b) ==
    /\ a # b /\ peer[a] = NoClient /\ peer[b] = NoClient
    /\ peer' = [peer EXCEPT ![a] = b, ![b] = a]
    /\ done' = [done EXCEPT ![a] = FALSE, ![b] = FALSE]
    /\ offer' = [offer EXCEPT ![a] = {}, ![b] = {}]
    /\ UNCHANGED <<holds, gone>>

\* Only a held item can be staged, and only before the side has finished.
Stage(c, i) ==
    /\ peer[c] # NoClient /\ ~done[c]
    /\ i \in holds[c] \ offer[c]
    /\ offer' = [offer EXCEPT ![c] = @ \cup {i}]
    /\ UNCHANGED <<holds, gone, peer, done>>

Finish(c) ==
    /\ peer[c] # NoClient
    /\ done' = [done EXCEPT ![c] = TRUE]
    /\ UNCHANGED <<holds, gone, peer, offer>>

\* Both sides finished and still hold what they staged: the staged items
\* change hands all at once, within the receivers' capacity.
Commit(a, b) ==
    /\ peer[a] = b /\ peer[b] = a /\ done[a] /\ done[b]
    /\ offer[a] \subseteq holds[a] /\ offer[b] \subseteq holds[b]
    /\ holds' = [holds EXCEPT ![a] = (@ \ offer[a]) \cup offer[b],
                              ![b] = (@ \ offer[b]) \cup offer[a]]
    /\ Cardinality(holds'[a]) <= NSlots /\ Cardinality(holds'[b]) <= NSlots
    /\ UNCHANGED <<gone, peer, done, offer>>

\* The exchanges of the clients in S end (traded, aborted or torn down).
End(S) ==
    /\ peer' = [c \in Client |-> IF c \in S THEN NoClient ELSE peer[c]]
    /\ done' = [c \in Client |-> IF c \in S THEN FALSE ELSE done[c]]
    /\ offer' = [c \in Client |-> IF c \in S THEN {} ELSE offer[c]]
    /\ UNCHANGED <<holds, gone>>

Drop(c, i) ==
    /\ i \in holds[c] /\ i \in Discardable
    /\ holds' = [holds EXCEPT ![c] = @ \ {i}]
    /\ gone' = gone \cup {i}
    /\ UNCHANGED <<peer, done, offer>>

AbsNext ==
    \/ \E a, b \in Client : Open(a, b) \/ Commit(a, b)
    \/ \E c \in Client, i \in Item : Stage(c, i) \/ Drop(c, i)
    \/ \E c \in Client : Finish(c)
    \/ \E S \in SUBSET Client : End(S)

AbsSpec == AbsInit /\ [][AbsNext]_absVars
=============================================================================
