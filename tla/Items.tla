------------------------------- MODULE Items -------------------------------
(***************************************************************************)
(* Items and the cylinders that hold them (tile.cpp, container.cpp, the    *)
(* inventory of player.cpp, and internalMoveItem, internalAddItem, inter-  *)
(* nalRemoveItem and transformItem of game.cpp): one tile, two bags that   *)
(* can be put into each other, one player with a hand and a back, and the  *)
(* player's depot locker.  Coins are the stackable item: piles of 1..Max-  *)
(* Stack.  A container keeps the weight of what is in it, the player that  *)
(* of the inventory, and both bring it up to date by what they are told.   *)
(* Indexes start at 1, Anywhere is INDEX_WHEREEVER.                        *)
(***************************************************************************)
EXTENDS Integers, Sequences, FiniteSets, SequencesExt, FiniteSetsExt

CONSTANTS
  MaxStack,    \* 100 in the code
  Size,        \* Size[c]: Container::maxSize
  CarryLimit,  \* Player::capacity
  Supply       \* coins that may ever be made

Bags == {"bag", "box"}
Slots == {"back", "hand"}
Containers == Bags \cup {"locker"}
Places == Containers \cup Slots \cup {"ground"}
Anywhere == 0
Up == -1
NoPlace == "none"

VARIABLES
  content,          \* content[c]: what is in c, the first item first
  totalWeight,      \* Container::totalWeight
  inventoryWeight,  \* Player::inventoryWeight
  made,             \* history: coins made less coins removed
  dropped           \* history: coins and bags that addThing did not take

itemVars == <<content, totalWeight, inventoryWeight, made, dropped>>

Coins(n) == [kind |-> "coins", n |-> n]
IsCoins(t) == t.kind = "coins"
IsBag(t) == t.kind \in Bags

\* open is what Tile::queryAdd says of an item without FLAG_NOLIMIT.
StuffOn(open) == [content |-> content, total |-> totalWeight, carried |-> inventoryWeight,
                  made |-> made, dropped |-> dropped, open |-> open]
Stuff == StuffOn(TRUE)

Become(s) ==
  /\ content' = s.content /\ totalWeight' = s.total /\ inventoryWeight' = s.carried
  /\ made' = s.made /\ dropped' = s.dropped

\* One bag on the back, the other on the ground.
Init ==
  /\ content = [c \in Places |->
       CASE c = "back" -> <<[kind |-> "bag", n |-> 1]>>
         [] c = "ground" -> <<[kind |-> "box", n |-> 1]>>
         [] OTHER -> <<>>]
  /\ totalWeight = [c \in Containers |-> 0] /\ inventoryWeight = 1
  /\ made = 0 /\ dropped = [coins |-> 0, bags |-> {}]

-----------------------------------------------------------------------------
(* Parents and weights.                                                    *)

Holds(s, c, b) == \E i \in DOMAIN s.content[c] : s.content[c][i].kind = b

\* Item::getParent, NoPlace for a bag on its way and for the locker.
Parent(s, b) ==
  LET at == {c \in Places : Holds(s, c, b)} IN IF at = {} THEN NoPlace ELSE CHOOSE c \in at : TRUE

\* The containers around c, c too.
Around(s, c) ==
  LET p == Parent(s, c)
      outer == IF p \in Bags THEN {p, Parent(s, p)} ELSE {p}
  IN {c} \cup (outer \cap Containers)

OfPlayer(s, c) ==
  \/ c \in Slots
  \/ c \in Bags /\ (Parent(s, c) \in Slots \/ (Parent(s, c) \in Bags /\ Parent(s, Parent(s, c)) \in Slots))

Weight(s, t) == IF IsBag(t) THEN 1 + s.total[t.kind] ELSE t.n

\* Container::updateItemWeight
UpdateItemWeight(s, c, diff) ==
  LET around == Around(s, c)
  IN [s EXCEPT !.total = [x \in Containers |-> IF x \in around THEN @[x] + diff ELSE @[x]]]

\* Player::updateInventoryWeight, by way of postAddNotification and
\* postRemoveNotification of what the player holds.
Notify(s, c) ==
  IF ~OfPlayer(s, c) THEN s
  ELSE LET worn(slot) == IF s.content[slot] = <<>> THEN 0 ELSE Weight(s, s.content[slot][1])
       IN [s EXCEPT !.carried = worn("back") + worn("hand")]

-----------------------------------------------------------------------------
(* The queries of a cylinder about item t, which is in place from.         *)

HasCapacity(s, t, from, count) ==
  \/ from # NoPlace /\ OfPlayer(s, from)
  \/ CarryLimit - s.carried >= IF IsCoins(t) THEN count ELSE Weight(s, t)

Inside(s, to, t) == t.kind \in Around(s, to)

\* What lies and stands on the tile, and what the item is, may forbid it.
TileQueryAdd(s, nolimit) == IF nolimit \/ s.open THEN "ok" ELSE "no"

ContainerQueryAdd(s, to, index, t, from, count, nolimit) ==
  IF \/ Inside(s, to, t)
     \/ ~nolimit /\ index = Anywhere /\ Len(s.content[to]) >= Size[to]
     \/ OfPlayer(s, to) /\ ~nolimit /\ ~HasCapacity(s, t, from, count)
  THEN "no" ELSE "ok"

PlayerQueryAdd(s, slot, t, from, count) ==
  IF (slot = "back" /\ ~IsBag(t)) \/ ~HasCapacity(s, t, from, count) THEN "no"
  ELSE IF s.content[slot] = <<>> \/ (IsCoins(t) /\ IsCoins(s.content[slot][1])) THEN "ok"
  ELSE IF from # NoPlace /\ OfPlayer(s, from) THEN "exchange" ELSE "no"

\* Cylinder::queryAdd: "ok", "exchange" or "no"
QueryAdd(s, to, index, t, from, count, nolimit) ==
  CASE to = "ground" -> TileQueryAdd(s, nolimit)
    [] to \in Containers -> ContainerQueryAdd(s, to, index, t, from, count, nolimit)
    [] to \in Slots -> PlayerQueryAdd(s, to, t, from, count)

Room(t) == IF IsCoins(t) /\ t.n < MaxStack THEN MaxStack - t.n ELSE 0

TileMaxCount(count) == IF count > 1 THEN count ELSE 1

\* i is the position of the item in place from; what there is room for on other
\* piles counts only when the player can carry it.
ContainerMaxCount(s, to, index, t, from, i, count, nolimit) ==
  LET here == s.content[to]
      free == IF Len(here) < Size[to] THEN Size[to] - Len(here) ELSE 0
      room(k) == IF Room(here[k]) > 0 /\ ContainerQueryAdd(s, to, k, t, from, Room(here[k]), nolimit) = "ok"
                 THEN Room(here[k]) ELSE 0
      fill == IF index = Anywhere
              THEN MapThenSumSet(room, DOMAIN here \ (IF to = from THEN {i} ELSE {}))
              ELSE IF index \in DOMAIN here THEN room(index) ELSE 0
  IN IF nolimit THEN TileMaxCount(count)
     ELSE IF IsCoins(t) THEN free * MaxStack + fill ELSE free

SlotMaxCount(s, slot, t) ==
  IF s.content[slot] = <<>> THEN (IF IsCoins(t) THEN MaxStack ELSE 1)
  ELSE IF IsCoins(t) THEN Room(s.content[slot][1]) ELSE 0

\* Cylinder::queryMaxCount
QueryMaxCount(s, to, index, t, from, i, count, nolimit) ==
  CASE to = "ground" -> TileMaxCount(count)
    [] to \in Containers -> ContainerMaxCount(s, to, index, t, from, i, count, nolimit)
    [] to \in Slots -> SlotMaxCount(s, to, t)

\* The bags of the player, those in the slots first.
OwnBags(s) ==
  LET bagsIn(c) == SelectSeq(s.content[c], IsBag)
      roots == bagsIn("back") \o bagsIn("hand")
      below == FlattenSeq([i \in DOMAIN roots |-> bagsIn(roots[i].kind)])
  IN [i \in DOMAIN (roots \o below) |-> (roots \o below)[i].kind]

\* Player::queryMaxCount(INDEX_WHEREEVER) of a new item
PlayerMaxCount(s, t, count) ==
  LET bags == OwnBags(s)
      slot(c) == IF s.content[c] = <<>>
                 THEN IF QueryAdd(s, c, 1, t, NoPlace, count, FALSE) = "ok"
                      THEN (IF IsCoins(t) THEN MaxStack ELSE 1) ELSE 0
                 ELSE IF IsCoins(t) /\ QueryAdd(s, c, 1, t, NoPlace, Room(s.content[c][1]), FALSE) = "ok"
                      THEN Room(s.content[c][1]) ELSE 0
  IN MapThenSumSet(slot, Slots)
     + MapThenSumSet(LAMBDA i : QueryMaxCount(s, bags[i], Anywhere, t, NoPlace, 0, count, FALSE), DOMAIN bags)

\* A destination: cylinder, index and the position of toItem, 0 for none.
Dest(c, i, j) == [to |-> c, index |-> i, item |-> j]

FirstRoom(seq) ==
  LET fits == {i \in DOMAIN seq : Room(seq[i]) > 0}
  IN IF fits = {} THEN 0 ELSE CHOOSE i \in fits : \A j \in fits : i <= j

\* Container::queryDestination
ContainerDestination(s, to, index, t, from) ==
  LET here == s.content[to]
      i == IF index > Size[to] THEN Anywhere ELSE index
      stack == IF IsCoins(t) /\ from # to THEN FirstRoom(here) ELSE 0
  IN IF index = Up
     THEN Dest(IF to \in Bags /\ Parent(s, to) \in Containers THEN Parent(s, to) ELSE to, Anywhere, 0)
     ELSE IF i # Anywhere /\ i \in DOMAIN here /\ IsBag(here[i]) THEN Dest(here[i].kind, Anywhere, 0)
     ELSE IF stack # 0 THEN Dest(to, stack, stack)
     ELSE Dest(to, i, IF i \in DOMAIN here THEN i ELSE 0)

\* Player::queryDestination for wherever the item at i of from fits: the first
\* slot, the first stack or free place of the bags; else nowhere.  The item
\* itself is passed over, and in a bag not counted either.
PlayerDestination(s, t, from, i) ==
  LET slotOk(c) == /\ c # from /\ QueryAdd(s, c, 1, t, from, t.n, FALSE) = "ok"
                   /\ s.content[c] = <<>> \/ Room(s.content[c][1]) > 0
      bags == OwnBags(s)
      others(b) == DOMAIN s.content[b] \ (IF b = from THEN {i} ELSE {})
      piles(b) == {k \in others(b) : IsCoins(t) /\ Room(s.content[b][k]) > 0}
      after(b) == IF IsCoins(t) THEN Cardinality(others(b)) ELSE Len(s.content[b])
      free(b) == /\ IF IsCoins(t) THEN after(b) < Size[b] ELSE after(b) # Size[b]
                 /\ QueryAdd(s, b, after(b) + 1, t, from, t.n, FALSE) = "ok"
      good == {k \in DOMAIN bags : piles(bags[k]) # {} \/ free(bags[k])}
  IN IF slotOk("back") THEN Dest("back", 1, 0)
     ELSE IF slotOk("hand") THEN Dest("hand", 1, Len(s.content["hand"]))
     ELSE IF good = {} THEN Dest(NoPlace, Anywhere, 0)
     ELSE LET b == bags[Min(good)] IN
          IF piles(b) = {} THEN Dest(b, after(b) + 1, 0)
          ELSE Dest(b, Cardinality({k \in others(b) : k <= Min(piles(b))}), Min(piles(b)))

\* Player::queryDestination of a slot: into the bag that is worn there.
SlotDestination(s, slot) ==
  IF s.content[slot] # <<>> /\ IsBag(s.content[slot][1])
  THEN Dest(s.content[slot][1].kind, Anywhere, 0)
  ELSE Dest(slot, 1, Len(s.content[slot]))

TileDestination(s, index) == Dest("ground", index, IF s.content["ground"] = <<>> THEN 0 ELSE 1)

\* One turn of the queryDestination loop for a place the client named.
Destination(s, to, index, t, from) ==
  CASE to = "ground" -> TileDestination(s, index)
    [] to \in Containers -> ContainerDestination(s, to, index, t, from)
    [] to \in Slots -> SlotDestination(s, to)

-----------------------------------------------------------------------------
(* What changes a cylinder.                                                *)

\* An item that is put down nowhere.
Lost(s, t) == IF IsCoins(t) THEN [s EXCEPT !.dropped.coins = @ + t.n]
              ELSE [s EXCEPT !.dropped.bags = @ \cup {t.kind}]

\* A container takes nothing at an index past its size.
ContainerAddThing(s, to, index, t) ==
  IF index > Size[to] THEN Lost(s, t)
  ELSE LET v == [s EXCEPT !.content[to] = <<t>> \o @] IN UpdateItemWeight(v, to, Weight(v, t))

TileAddThing(s, t) == [s EXCEPT !.content["ground"] = <<t>> \o @]

\* What the slot held is no longer there.
PlayerAddThing(s, slot, t) == [s EXCEPT !.content[slot] = <<t>>]

AddThing(s, to, index, t) ==
  CASE to = "ground" -> TileAddThing(s, t)
    [] to \in Containers -> ContainerAddThing(s, to, index, t)
    [] to \in Slots -> PlayerAddThing(s, to, t)

\* Tile::removeThing and Player::removeThing: a part of a stack, or the item.
PlainRemove(s, from, i, count) ==
  IF IsCoins(s.content[from][i]) /\ count # s.content[from][i].n
  THEN [s EXCEPT !.content[from][i].n = @ - count]
  ELSE [s EXCEPT !.content[from] = RemoveAt(@, i)]

PlayerRemoveThing(s, slot, count) == PlainRemove(s, slot, 1, count)

\* Mutant: a part that is taken off a stack is not taken off the weight.
ContainerRemoveHeavy(s, from, i, count) ==
  IF IsCoins(s.content[from][i]) /\ count # s.content[from][i].n THEN PlainRemove(s, from, i, count)
  ELSE UpdateItemWeight(PlainRemove(s, from, i, count), from, -Weight(s, s.content[from][i]))

ContainerRemoveThing(s, from, i, count) ==
  LET t == s.content[from][i] IN
  UpdateItemWeight(PlainRemove(s, from, i, count), from,
                   IF IsCoins(t) /\ count # t.n THEN -count ELSE -Weight(s, t))

RemoveThing(s, from, i, count) ==
  CASE from = "ground" -> PlainRemove(s, from, i, count)
    [] from \in Containers -> ContainerRemoveThing(s, from, i, count)
    [] from \in Slots -> PlayerRemoveThing(s, from, count)

\* updateThing of a stack to n more.
TileUpdateThing(s, to, j, n) == [s EXCEPT !.content[to][j].n = @ + n]

PlayerUpdateThing(s, slot, n) == [s EXCEPT !.content[slot][1].n = @ + n]

ContainerUpdateThing(s, to, j, n) == UpdateItemWeight(TileUpdateThing(s, to, j, n), to, n)

UpdateThing(s, to, j, n) ==
  CASE to = "ground" -> TileUpdateThing(s, to, j, n)
    [] to \in Containers -> ContainerUpdateThing(s, to, j, n)
    [] to \in Slots -> PlayerUpdateThing(s, to, n)

Smaller(a, b) == IF a < b THEN a ELSE b

\* "update item(s)" and "add item" of internalMoveItem: fill up toItem, and put
\* the rest down as a pile of its own.
Merge(s, to, index, j, t, m) ==
  IF ~IsCoins(t) THEN AddThing(s, to, index, t)
  ELSE LET n == IF j # 0 /\ IsCoins(s.content[to][j]) THEN Smaller(Room(s.content[to][j]), m) ELSE 0
           v == IF n > 0 THEN UpdateThing(s, to, j, n) ELSE s
       IN IF m > n THEN AddThing(v, to, index, Coins(m - n)) ELSE v

\* The exchange: what lies in slot d.to goes to the source first.  A slot as the
\* source is still taken by the item itself, and refuses.
Exchange(s, from, d) ==
  LET old == s.content[d.to][1] IN
  IF from \in Slots \/ QueryAdd(s, from, 1, old, d.to, old.n, FALSE) # "ok"
     \/ QueryMaxCount(s, from, Anywhere, old, d.to, 1, old.n, FALSE) = 0
  THEN s
  ELSE Notify(Notify(AddThing(RemoveThing(s, d.to, 1, old.n), from, 1, old), d.to), from)

\* internalMoveItem from the last queryAdd on: what there is room for of the item
\* at i of from goes to destination d, with j as toItem.
MoveMost(s, from, i, d, j, count, nolimit) ==
  LET t == s.content[from][i]
      most == QueryMaxCount(s, d.to, d.index, t, from, i, count, nolimit)
      m == IF IsCoins(t) THEN Smaller(count, most) ELSE most
      gone == RemoveThing(s, from, i, IF IsCoins(t) THEN m ELSE 1)
      target == IF j = 0 \/ d.to # from \/ Len(gone.content[from]) = Len(s.content[from]) \/ j < i
                THEN j ELSE j - 1
  IN IF QueryAdd(s, d.to, d.index, t, from, count, nolimit) # "ok" \/ m = 0 THEN s
     ELSE Notify(Notify(Merge(gone, d.to, d.index, target, t, m), from), d.to)

\* Game::internalMoveItem of count of the item at i of from, to destination d.
\* After an exchange, which only a bag of the player takes part in, the item is
\* behind what came out of the slot.
Transfer(s, from, i, d, count, nolimit) ==
  LET old == Exchange(s, from, d)
      swapped == /\ d.item # 0
                 /\ QueryAdd(s, d.to, d.index, s.content[from][i], from, count, nolimit) = "exchange"
                 /\ old # s
  IN IF d.to = from /\ d.item = i THEN s
     ELSE MoveMost(IF swapped THEN old ELSE s, from, IF swapped THEN i + 1 ELSE i, d,
                   IF swapped THEN 0 ELSE d.item, count, nolimit)

\* The loop of queryDestination: at most from a slot, through a bag in it.
Follow(s, to, index, t, from) ==
  LET d == Destination(s, to, index, t, from)
  IN IF d.to = to THEN d ELSE Destination(s, d.to, d.index, t, from)

-----------------------------------------------------------------------------
\* What a window of a container still shows: not one that was put down nowhere.
InReach(c) == Around(Stuff, c) \cap dropped.bags = {}

\* playerMoveItem
MoveItem(from, i, to, index, count, open) ==
  /\ i \in DOMAIN content[from] /\ count \in 1..content[from][i].n
  /\ InReach(from) /\ InReach(to)
  /\ LET s == StuffOn(open) IN
       Become(Transfer(s, from, i, Follow(s, to, index, content[from][i], from), count, FALSE))

\* Nowhere is the player itself, at index 0: queryAdd and queryMaxCount of that
\* look at the capacity only, and addThing does nothing.
Vanish(s, from, i, count) ==
  LET t == s.content[from][i]
  IN IF ~HasCapacity(s, t, from, count) THEN s
     ELSE Notify(Lost(RemoveThing(s, from, i, IF IsCoins(t) THEN count ELSE 1), [t EXCEPT !.n = count]), from)

\* The same to the capacity window.  The container that was found is asked again
\* for a destination.  playerUseItemEx takes an item from the ground this way, with
\* nowhere refused.
PickUp(from, i, count) ==
  /\ i \in DOMAIN content[from] /\ count \in 1..content[from][i].n
  /\ InReach(from)
  /\ LET t == content[from][i]
         d == PlayerDestination(Stuff, t, from, i)
         e == IF d.to \in Containers THEN Follow(Stuff, d.to, d.index, t, from) ELSE d
     IN Become(IF d.to = NoPlace THEN Vanish(Stuff, from, i, count)
               ELSE Transfer(Stuff, from, i, e, count, FALSE))

\* House::transferToDepot: every item of the ground, one after another.
TransferToDepot ==
  /\ content["ground"] # <<>>
  /\ Become(Transfer(Stuff, "ground", 1,
              Follow(Stuff, "locker", Anywhere, content["ground"][1], "ground"),
              content["ground"][1].n, TRUE))

OnGround(s, t) == Merge(s, "ground", Anywhere, TileDestination(s, Anywhere).item, t, t.n)

\* The item that internalAddItem puts at d: the rest of a stack, which the bag
\* found may not hold, looks for a place again (once is enough for MaxStack), and
\* remains.  Of the part that filled the stack nobody is told.
Added(s, t, d) ==
  LET room == Room(s.content[d.to][d.item])
      full == d.item # 0 /\ room < t.n
      v == Merge(s, d.to, d.index, d.item, t, IF full THEN room ELSE t.n)
      rest == Coins(t.n - room)
      e == PlayerDestination(v, rest, NoPlace, 0)
  IN IF ~full THEN Notify(v, d.to)
     ELSE IF e.to = NoPlace \/ PlayerMaxCount(v, rest, rest.n) < rest.n THEN OnGround(v, rest)
     ELSE Notify(Merge(v, e.to, e.index, e.item, rest, rest.n), e.to)

\* internalPlayerAddItem of new coins, as loot, shops and scripts give them: to
\* the player when all of it fits, else on the ground.
PlayerAddItem(n) ==
  LET s == [Stuff EXCEPT !.made = @ + n]
      d == PlayerDestination(s, Coins(n), NoPlace, 0)
  IN /\ made + n <= Supply
     /\ Become(IF /\ d.to # NoPlace
                  /\ QueryAdd(s, d.to, d.index, Coins(n), NoPlace, n, FALSE) = "ok"
                  /\ PlayerMaxCount(s, Coins(n), n) >= n
               THEN Added(s, Coins(n), d)
               ELSE OnGround(s, Coins(n)))

\* internalRemoveItem of coins: money paid, ammunition and charges used
RemoveItem(from, i, count) ==
  /\ InReach(from)
  /\ i \in DOMAIN content[from] /\ IsCoins(content[from][i]) /\ count \in 1..content[from][i].n
  /\ Become(Notify([RemoveThing(Stuff, from, i, count) EXCEPT !.made = @ - count], from))

\* transformItem of a stack into one of count, none for 0, as scripts, weapons
\* and charges use it
TransformItem(from, i, count) ==
  /\ InReach(from)
  /\ i \in DOMAIN content[from] /\ IsCoins(content[from][i])
  /\ LET more == count - content[from][i].n
         s == [Stuff EXCEPT !.made = @ + more]
     IN /\ more # 0 /\ made + more <= Supply
        /\ Become(Notify(IF count = 0 THEN RemoveThing(s, from, i, content[from][i].n)
                         ELSE UpdateThing(s, from, i, more), from))

\* An index means something in a container only, and open on the tile.
Targets == ({"ground"} \X {Anywhere} \X BOOLEAN) \cup (Slots \X {1} \X {TRUE})
             \cup (Bags \X (-1..2) \X {TRUE})

Next ==
  \/ \E from \in Places, i \in 1..4, count \in 1..MaxStack :
       \/ \E g \in Targets : MoveItem(from, i, g[1], g[2], count, g[3])
       \/ PickUp(from, i, count)
       \/ RemoveItem(from, i, count)
  \/ \E from \in Places, i \in 1..4, count \in 0..MaxStack : TransformItem(from, i, count)
  \/ TransferToDepot
  \/ \E n \in 1..MaxStack : PlayerAddItem(n)

Spec == Init /\ [][Next]_itemVars

-----------------------------------------------------------------------------
SumSeq(seq) == MapThenSumSet(LAMBDA i : seq[i], DOMAIN seq)

CoinsIn(c) == SumSeq([i \in DOMAIN content[c] |-> IF IsCoins(content[c][i]) THEN content[c][i].n ELSE 0])

\* Moving, splitting, merging, swapping and picking up never makes a coin or
\* loses one: every coin made and not removed is in exactly one place, save those
\* that addThing was given and did not take.
CoinsKept ==
  /\ MapThenSumSet(CoinsIn, Places) + dropped.coins = made
  /\ \A c \in Places : \A i \in DOMAIN content[c] :
       IsCoins(content[c][i]) => content[c][i].n \in 1..MaxStack

\* A bag is in one place, or in none when addThing did not take it, and never in
\* itself.
BagsInOnePlace ==
  \A b \in Bags :
    /\ Cardinality({c \in Places : Holds(Stuff, c, b)}) = IF b \in dropped.bags THEN 0 ELSE 1
    /\ Parent(Stuff, b) # b
    /\ Parent(Stuff, b) \in Bags => Parent(Stuff, Parent(Stuff, b)) # b

\* The weight of a thing with all that is in it.
Load(t) == IF IsCoins(t) THEN t.n ELSE 1 + SumSeq([i \in DOMAIN content[t.kind] |->
             IF IsCoins(content[t.kind][i]) THEN content[t.kind][i].n
             ELSE 1 + CoinsIn(content[t.kind][i].kind)])
\* The weights that containers and the player keep are those of what they hold,
\* at every depth: a player never carries more, or less, than is counted.
WeightsAgree ==
  /\ \A c \in Containers :
       totalWeight[c] = SumSeq([i \in DOMAIN content[c] |-> Load(content[c][i])])
  /\ inventoryWeight = MapThenSumSet(
       LAMBDA slot : IF content[slot] = <<>> THEN 0 ELSE Load(content[slot][1]), Slots)

\* "//send items to depot" (house.cpp) and "drop to capacity window" (player.cpp):
\* nothing is lost on the way.
NothingDropped == dropped = [coins |-> 0, bags |-> {}]

\* The accounts of items: coins, bags and weights, through every way to move them.
ItemsAccounted == CoinsKept /\ BagsInOnePlace /\ WeightsAgree
=============================================================================
