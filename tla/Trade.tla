------------------------------- MODULE Trade -------------------------------
(***************************************************************************)
(* Trading between players (game.cpp: playerRequestTrade to                *)
(* internalCloseTrade; player.cpp: checkTradeState and its callers).       *)
(*                                                                         *)
(* Every handler is one task of the dispatcher, so one step.  What makes   *)
(* trading hard is what happens between the steps of one trade: items and  *)
(* players move, third parties start trades of their own, contents change, *)
(* players leave.                                                          *)
(*                                                                         *)
(* Data.  The map is a set of spots on a line.  A player carries one item  *)
(* in the hand (hands and arrow slot take anything) and one container on   *)
(* the back; a container holds Capacity items.  Weight, and whatever else  *)
(* can make a query refuse, is a nondeterministic choice.  A stack always  *)
(* has room for another stack.                                             *)
(***************************************************************************)
EXTENDS Integers, FiniteSets

CONSTANTS
  Players,
  Items,
  Containers,   \* the items that hold items
  Stackable,    \* the items of which two fit in one place
  Spots,        \* positions on the map
  Capacity,     \* places in a container
  None          \* nullptr

ASSUME TradeAssumption ==
  /\ Containers \subseteq Items
  /\ Stackable \subseteq Items \ Containers
  /\ IsFiniteSet(Containers)
  /\ Spots \subseteq Nat /\ Spots # {}
  /\ Capacity \in Nat \ {0}
  /\ None \notin Players \cup Items

VARIABLES
  online,        \* players in the game
  pos,           \* Creature::position
  parent,        \* Item::parent: a slot, a tile, a container or nothing
  tradeState,    \* Player::tradeState
  tradeItem,     \* Player::tradeItem
  tradePartner,  \* Player::tradePartner
  tradeItems,    \* Game::tradeItems: who offers the item
  refs,          \* references to the item that trading holds
  shown          \* what the item held when the partner was shown it

tvars == <<tradeState, tradeItem, tradePartner, tradeItems, refs, shown>>
vars == <<online, pos, parent, tvars>>

TradeStates == {"NONE", "INITIATED", "ACCEPT", "ACKNOWLEDGE", "TRANSFER"}

Hand(p) == <<"hand", p>>
Back(p) == <<"back", p>>
Tile(x) == <<"tile", x>>
Slots(p) == {Hand(p), Back(p)}
Places == (UNION {Slots(p) : p \in Players}) \cup {Tile(x) : x \in Spots}
            \cup Containers \cup {None}

ASSUME PlacesAssumption ==
  Items \cap ((UNION {Slots(p) : p \in Players}) \cup {Tile(x) : x \in Spots}) = {}

TypeOK ==
  /\ online \subseteq Players
  /\ pos \in [Players -> Spots]
  /\ parent \in [Items -> Places]
  /\ tradeState \in [Players -> TradeStates]
  /\ tradeItem \in [Players -> Items \cup {None}]
  /\ tradePartner \in [Players -> Players \cup {None}]
  /\ tradeItems \in [Items -> Players \cup {None}]
  /\ refs \in [Items -> Nat]
  /\ shown \in [Players -> SUBSET Items]

Init ==
  /\ online = Players
  /\ pos \in {[p \in Players |-> x] : x \in Spots}
  /\ parent \in {[i \in Items |-> Tile(x)] : x \in Spots}
  /\ tradeState = [p \in Players |-> "NONE"]
  /\ tradeItem = [p \in Players |-> None]
  /\ tradePartner = [p \in Players |-> None]
  /\ tradeItems = [i \in Items |-> None]
  /\ refs = [i \in Items |-> 0]
  /\ shown = [p \in Players |-> {}]

-----------------------------------------------------------------------------
(* Where things are.                                                       *)

(* The item and the items it is in, under the parents par: what every walk *)
(* up the parents has to pass.                                             *)
Within(i, par) ==
  LET walks == {S \in {R \cup {i} : R \in SUBSET (Items \ {i})} :
                  \A j \in S : par[j] \in Items => par[j] \in S}
  IN  {j \in Items : \A S \in walks : j \in S}

(* ... and everything these are in: a slot, a tile or nothing at the end.  *)
Chain(i, par) == LET inner == Within(i, par) IN inner \cup {par[j] : j \in inner}

(* Container::isHoldingItem: at any depth.                                 *)
IsHoldingItem(c, i) ==
  /\ c \in Containers
  /\ c # i
  /\ parent[i] \in Containers
  /\ c \in Chain(i, parent)

Contents(c) == {j \in Items : IsHoldingItem(c, j)}

Abs(n) == IF n < 0 THEN -n ELSE n
InRange(d, x, y) == Abs(x - y) <= d

(* Item::getTopParent() is the player.                                     *)
CarriedBy(p, i, par) == Slots(p) \cap Chain(i, par) # {}

(* Position::areInRange<d, d> of the item's position and a player's.       *)
ItemInRange(d, i, p, at) ==
  LET chain == Chain(i, parent)
  IN  \/ \E q \in Players : Slots(q) \cap chain # {} /\ InRange(d, at[q], at[p])
      \/ \E x \in Spots : InRange(d, x, at[p]) /\ Tile(x) \in chain

(* internalGetThing: what a player can put a hand on is carried by the     *)
(* player or lies on the ground in reach.                                  *)
Reaches(p, i) ==
  LET near == {Tile(x) : x \in {y \in Spots : InRange(1, y, pos[p])}}
  IN  (Slots(p) \cup near) \cap Chain(i, parent) # {}

-----------------------------------------------------------------------------
(* Starting a trade.                                                       *)

(* playerRequestTrade: an item that is offered, in one that is offered, or *)
(* holding one, is not offered again.                                      *)
AlreadyTraded(i) ==
  \E j \in Items :
    /\ tradeItems[j] # None
    /\ j = i \/ IsHoldingItem(i, j) \/ IsHoldingItem(j, i)

(* internalStartTrade's two refusals.                                      *)
MayTrade(p, q) ==
  /\ \/ tradeState[p] = "NONE"
     \/ tradeState[p] = "ACKNOWLEDGE" /\ tradePartner[p] = q
  /\ tradeState[q] = "NONE" \/ tradePartner[q] = p

(* playerRequestTrade with internalStartTrade.  Refusals only send a       *)
(* message.                                                                *)
RequestTrade(p, q, i) ==
  /\ {p, q} \subseteq online
  /\ p # q
  /\ InRange(2, pos[q], pos[p])
  /\ MayTrade(p, q)
  /\ Reaches(p, i)
  /\ ~AlreadyTraded(i)
  /\ tradePartner' =
       IF tradeState[q] = "NONE"
       THEN [tradePartner EXCEPT ![p] = q, ![q] = p]
       ELSE [tradePartner EXCEPT ![p] = q]
  /\ tradeState' =
       IF tradeState[q] = "NONE"
       THEN [tradeState EXCEPT ![p] = "INITIATED", ![q] = "ACKNOWLEDGE"]
       ELSE [tradeState EXCEPT ![p] = "INITIATED"]
  /\ tradeItem' = [tradeItem EXCEPT ![p] = i]
  /\ refs' = [refs EXCEPT ![i] = @ + 1]
  /\ tradeItems' = [tradeItems EXCEPT ![i] = p]
  /\ shown' = [shown EXCEPT ![p] = Contents(i)]
  /\ UNCHANGED <<online, pos, parent>>

-----------------------------------------------------------------------------
(* Ending a trade.                                                         *)

(* tradeItems.find, ReleaseItem and erase, for the items offered by ps.    *)
Registered(ps) ==
  {i \in Items : tradeItems[i] # None /\ \E p \in ps : tradeItem[p] = i}

\* Mutants: the reference is given back twice; or not at all.
ReleaseTwice(ps) ==
  /\ refs' = [i \in Items |-> IF i \in Registered(ps) THEN refs[i] - 2
                                                      ELSE refs[i]]
  /\ tradeItems' = [i \in Items |-> IF i \in Registered(ps) THEN None
                                                            ELSE tradeItems[i]]
ReleaseNothing(ps) == UNCHANGED <<refs, tradeItems>>

ReleaseItems(ps) ==
  /\ refs' = [i \in Items |-> IF i \in Registered(ps) THEN refs[i] - 1
                                                      ELSE refs[i]]
  /\ tradeItems' = [i \in Items |-> IF i \in Registered(ps) THEN None
                                                            ELSE tradeItems[i]]

Reset(ps) ==
  /\ tradeState' = [p \in Players |-> IF p \in ps THEN "NONE"
                                                  ELSE tradeState[p]]
  /\ tradeItem' = [p \in Players |-> IF p \in ps THEN None ELSE tradeItem[p]]
  /\ tradePartner' = [p \in Players |-> IF p \in ps THEN None
                                                    ELSE tradePartner[p]]
  /\ shown' = [p \in Players |-> IF p \in ps THEN {} ELSE shown[p]]

(* internalCloseTrade of every player in ps: each one and its partner.     *)
(* TRADE_TRANSFER, in which it would do nothing, lasts only inside         *)
(* TransferItems.                                                          *)
Closed(ps) == ps \cup ({tradePartner[p] : p \in ps} \ {None})

InternalCloseTrade(ps) ==
  /\ ReleaseItems(Closed(ps))
  /\ Reset(Closed(ps))

(* playerCloseTrade.                                                       *)
CloseTrade(p) ==
  /\ p \in online
  /\ InternalCloseTrade({p})
  /\ UNCHANGED <<online, pos, parent>>

-----------------------------------------------------------------------------
(* Room for an item in a player's inventory, under the parents par.        *)

Used(place, par) == {j \in Items : par[j] = place}
HasRoom(c, par) == Cardinality(Used(c, par)) < Capacity

(* Player::queryAdd for an empty slot.                                     *)
FreeSlots(p, i, par) ==
  {s \in Slots(p) : Used(s, par) = {} /\ (s = Back(p) => i \in Containers)}

(* Player::queryMaxCount(INDEX_WHEREEVER) is at least one: a free slot, a  *)
(* place in a container at any depth, or a stack to add to.                *)
HasMaxCount(p, i, par) ==
  \/ FreeSlots(p, i, par) # {}
  \/ \E c \in Containers : CarriedBy(p, c, par) /\ HasRoom(c, par)
  \/ /\ i \in Stackable
     /\ \E j \in Stackable \ {i} : CarriedBy(p, j, par)

(* Player::queryDestination with FLAG_IGNOREAUTOSTACK: it does not look    *)
(* into the item the player offers when that item is in a slot, and takes  *)
(* the nearest container with room.                                        *)
Searched(p, i, par) ==
  {c \in Containers \ {i} :
     /\ CarriedBy(p, c, par)
     /\ HasRoom(c, par)
     /\ ~(tradeItem[p] \in Chain(c, par) /\ par[tradeItem[p]] \in Slots(p))}

Nearest(p, i, par) ==
  {c \in Searched(p, i, par) :
     \A d \in Searched(p, i, par) :
       Cardinality(Chain(c, par)) <= Cardinality(Chain(d, par))}

QueryDestination(p, i, par) ==
  IF FreeSlots(p, i, par) # {} THEN FreeSlots(p, i, par)
                               ELSE Nearest(p, i, par)

(* internalMoveItem(..., INDEX_WHEREEVER, ..., FLAG_IGNOREAUTOSTACK, ...,  *)
(* exclude): the parents it may leave behind.  Where queryDestination      *)
(* finds nothing the item goes to the player at index -1: queryAdd accepts *)
(* it, queryMaxCount decides, and Player::addThing then returns without    *)
(* adding it.                                                              *)
MoveToPlayer(p, i, exclude, par) ==
  LET dests == QueryDestination(p, i, par)
      allowed == {d \in dests : d \in Items => exclude \notin Chain(d, par)}
  IN  IF dests # {}
      THEN {[par EXCEPT ![i] = d] : d \in allowed}
             \cup (IF allowed = dests THEN {} ELSE {par})
      ELSE {IF HasMaxCount(p, i, par) THEN [par EXCEPT ![i] = None] ELSE par}

(* The exchange in playerAcceptTrade: both additions are tested, then the  *)
(* acceptor's item is moved, and if it was, the partner's; the result of   *)
(* the second move is not looked at.                                       *)
TransferItems(p, q) ==
  LET mine == tradeItem[p]
      theirs == tradeItem[q]
  IN  \/ UNCHANGED parent  \* weight, or an item that cannot be removed
      \/ /\ mine # None /\ theirs # None
         /\ HasMaxCount(q, mine, parent)
         /\ HasMaxCount(p, theirs, parent)
         /\ \E first \in MoveToPlayer(q, mine, theirs, parent) :
              parent' \in IF first = parent
                          THEN {parent}
                          ELSE MoveToPlayer(p, theirs, None, first)

-----------------------------------------------------------------------------
(* playerAcceptTrade, when the players see each other.                     *)

CanAccept(p) ==
  /\ p \in online
  /\ tradeState[p] \in {"ACKNOWLEDGE", "INITIATED"}
  /\ tradePartner[p] # None

AcceptFirst(p) ==
  /\ CanAccept(p)
  /\ tradeState[tradePartner[p]] # "ACCEPT"
  /\ tradeState' = [tradeState EXCEPT ![p] = "ACCEPT"]
  /\ UNCHANGED <<online, pos, parent, tradeItem, tradePartner, tradeItems,
                 refs, shown>>

(* The second acceptance.  The script's onTradeAccept may refuse, which    *)
(* closes the trade; otherwise the items change hands.                     *)
AcceptSecond(p) ==
  /\ CanAccept(p)
  /\ tradeState[tradePartner[p]] = "ACCEPT"
  /\ TransferItems(p, tradePartner[p])
  /\ ReleaseItems({p, tradePartner[p]})
  /\ Reset({p, tradePartner[p]})
  /\ UNCHANGED <<online, pos>>

-----------------------------------------------------------------------------
(* What goes on meanwhile.                                                 *)

(* Player::checkTradeState: the item is the one offered or is inside it.   *)
CheckTradeState(p, i, par) == tradeItem[p] # None /\ tradeItem[p] \in Chain(i, par)

(* onRemoveTileItem, onRemoveContainerItem and onRemoveInventoryItem: the  *)
(* players whose trade ends because i leaves its place.  Only the owner of *)
(* a slot is told that it is emptied, and only those at most two squares   *)
(* from a container that its contents change.                              *)
DisturbedByRemove(i) ==
  {p \in online :
     /\ tradeItem[p] # None
     /\ parent[i] \in UNION {Slots(q) : q \in Players} => parent[i] \in Slots(p)
     /\ parent[i] \in Containers => ItemInRange(2, parent[i], p, pos)
     /\ \/ CheckTradeState(p, i, parent)
        \/ parent[i] \notin Containers /\ IsHoldingItem(i, tradeItem[p])
        \/ /\ parent[i] \in Containers
           /\ parent[tradeItem[p]] # parent[i]
           /\ IsHoldingItem(parent[i], tradeItem[p])}

\* Mutant: nobody is told.
DisturbedByNothing(i, to) == {}

(* onAddContainerItem: the item is put somewhere inside the item offered.  *)
DisturbedByAdd(i, to) ==
  {p \in online : /\ to \in Containers
                  /\ ItemInRange(2, to, p, pos)
                  /\ CheckTradeState(p, to, parent)}

(* Places where player m can put item i.                                   *)
Targets(m, i) ==
  FreeSlots(m, i, parent)
    \cup {Tile(x) : x \in Spots}
    \cup {c \in Containers : /\ c # i /\ ~IsHoldingItem(i, c)
                             /\ Reaches(m, c) /\ HasRoom(c, parent)}

(* Somebody moves an item.                                                 *)
MoveItem(m, i) ==
  /\ m \in online
  /\ Reaches(m, i)
  /\ \E to \in Targets(m, i) \ {parent[i]} :
       /\ parent' = [parent EXCEPT ![i] = to]
       /\ InternalCloseTrade(DisturbedByRemove(i) \cup DisturbedByAdd(i, to))
  /\ UNCHANGED <<online, pos>>

(* Player::onCreatureMove, for a step, a push or a teleport.               *)
MoveCreature(p, x) ==
  LET at == [pos EXCEPT ![p] = x]
      far == \/ tradeItem[p] # None /\ ~ItemInRange(1, tradeItem[p], p, at)
             \/ tradePartner[p] # None /\ ~InRange(2, at[tradePartner[p]], x)
  IN  /\ p \in online
      /\ x # pos[p]
      /\ pos' = at
      /\ InternalCloseTrade(IF far THEN {p} ELSE {})
      /\ UNCHANGED <<online, parent>>

(* Player::onRemoveCreature: the player leaves the game with what he       *)
(* carries.                                                                *)
RemovePlayer(p) ==
  /\ p \in online
  /\ online' = online \ {p}
  /\ InternalCloseTrade(IF tradePartner[p] # None THEN {p} ELSE {})
  /\ UNCHANGED <<pos, parent>>

-----------------------------------------------------------------------------
Next ==
  \/ \E p, q \in Players, i \in Items : RequestTrade(p, q, i)
  \/ \E p \in Players : AcceptFirst(p)
  \/ \E p \in Players : AcceptSecond(p)
  \/ \E p \in Players : CloseTrade(p)
  \/ \E p \in Players, i \in Items : MoveItem(p, i)
  \/ \E p \in Players, x \in Spots : MoveCreature(p, x)
  \/ \E p \in Players : RemovePlayer(p)

Spec == Init /\ [][Next]_vars

-----------------------------------------------------------------------------
(* Safety.                                                                 *)

(* internalCloseTrade follows raw pointers from a player to its partner:   *)
(* the two always point at each other, both are in the game, and a player  *)
(* without a partner is in TRADE_NONE and offers nothing.                  *)
PartnersAgree ==
  \A p \in Players :
    IF tradePartner[p] = None
    THEN tradeState[p] = "NONE" /\ tradeItem[p] = None
    ELSE /\ tradeState[p] \notin {"NONE", "TRANSFER"}
         /\ p # tradePartner[p]
         /\ tradePartner[tradePartner[p]] = p
         /\ {p, tradePartner[p]} \subseteq online

(* Game::tradeItems lists exactly the items on offer, under the player who *)
(* offers them, and trading holds exactly one reference to each: whichever *)
(* way a trade ends, the reference is given back once.                     *)
OffersRegistered ==
  \A i \in Items :
    /\ \A p \in Players : tradeItems[i] = p <=> tradeItem[p] = i
    /\ refs[i] = IF tradeItems[i] = None THEN 0 ELSE 1

(* No two offers overlap, not even by way of a container that is offered   *)
(* elsewhere: a thing can be promised to one player only.                  *)
OffersDisjoint ==
  \A p, q \in Players :
    (p # q /\ tradeItem[p] # None /\ tradeItem[q] # None) =>
      /\ tradeItem[p] # tradeItem[q]
      /\ ~IsHoldingItem(tradeItem[p], tradeItem[q])

(* As long as a trade is open, the item on offer is within its owner's     *)
(* reach, the partners are near each other, and the item holds what it     *)
(* held when the partner was shown it: what is accepted is what was seen.  *)
OffersAsShown ==
  \A p \in Players :
    tradeItem[p] # None =>
      /\ Contents(tradeItem[p]) = shown[p]
      /\ ItemInRange(1, tradeItem[p], p, pos)
      /\ InRange(2, pos[p], pos[tradePartner[p]])

(* A trade exchanges both items or leaves both where they are.             *)
AllOrNothing ==
  [][ \A p \in Players :
        (AcceptSecond(p) /\ parent' # parent) =>
          /\ CarriedBy(p, tradeItem[tradePartner[p]], parent')
          /\ CarriedBy(tradePartner[p], tradeItem[p], parent') ]_vars

(* Partners and offers, registered and disjoint, at every moment.          *)
OffersSound == TypeOK /\ PartnersAgree /\ OffersRegistered /\ OffersDisjoint
=============================================================================
