----------------------------- MODULE WorldProofs -----------------------------
(***************************************************************************)
(* Proofs about things and creatures on the map.  First Trade, for any     *)
(* number of players and items, containers nested at will, and any map that*)
(* is a line of spots.  The core is geometry of containers: while a trade  *)
(* is open, nothing that the item on offer is in, and nothing that is in   *)
(* it, changes its place without ending the trade.  What makes that so is  *)
(* that an item on offer is never carried by anybody but its owner, and    *)
(* that the places where a removal is told are enough.                     *)
(*                                                                         *)
(* Then the algorithms of MCWorld: a monster's walk cache (Cache), the     *)
(* sight line (Sight), the steps of a monster (Steps), the areas of a spell*)
(* (Area) and the path search (Search), for any reach, size and map.       *)
(***************************************************************************)
EXTENDS Trade, MCWorld, TLAPS, Sequences, FiniteSetTheorems, WellFoundedInduction


(* Who has nothing on offer.                                               *)
OffersByState ==
  \A p \in Players : tradeState[p] \in {"NONE", "ACKNOWLEDGE"} => tradeItem[p] = None

(* An item on offer is carried by its owner or lies on the ground.         *)
OffersWithOwner ==
  \A p \in Players :
    tradeItem[p] # None =>
      Chain(tradeItem[p], parent) \cap (Slots(p) \cup {Tile(x) : x \in Spots}) # {}

IInv ==
  /\ TypeOK
  /\ PartnersAgree
  /\ OffersByState
  /\ OffersRegistered
  /\ OffersDisjoint
  /\ OffersAsShown
  /\ OffersWithOwner

-----------------------------------------------------------------------------
(* Things within things, under any parents.                                *)

LEMMA WithinSelf ==
  ASSUME NEW par, NEW i \in Items
  PROVE  /\ i \in Within(i, par) /\ Within(i, par) \subseteq Items
         /\ \A j \in Within(i, par) : par[j] \in Items => par[j] \in Within(i, par)
<1>1. Within(i, par) \subseteq Items
  BY DEF Within
<1>2. i \in Within(i, par)
  BY DEF Within
<1>3. ASSUME NEW j \in Within(i, par), par[j] \in Items
      PROVE  par[j] \in Within(i, par)
  <2>1. j \in Items
    BY <1>1
  <2> QED BY <1>3, <2>1 DEF Within
<1> QED BY <1>1, <1>2, <1>3

LEMMA WithinLeast ==
  ASSUME NEW par, NEW i \in Items, NEW S, S \subseteq Items, i \in S,
         \A j \in S : par[j] \in Items => par[j] \in S
  PROVE  Within(i, par) \subseteq S
<1>1. PICK R : R = S \ {i}
  OBVIOUS
<1>2. R \in SUBSET (Items \ {i}) /\ S = R \cup {i}
  BY <1>1
<1>3. S \in {T \in {Q \cup {i} : Q \in SUBSET (Items \ {i})} :
             \A j \in T : par[j] \in Items => par[j] \in T}
  BY <1>2
<1> QED BY <1>3 DEF Within

LEMMA WithinTransitive ==
  ASSUME NEW par, NEW i \in Items, NEW j \in Within(i, par)
  PROVE  Within(j, par) \subseteq Within(i, par)
<1>1. j \in Items
  BY WithinSelf
<1> QED
  BY <1>1, WithinSelf, WithinLeast

(* One step up.                                                            *)
LEMMA WithinStep ==
  ASSUME NEW par, NEW i \in Items
  PROVE  Within(i, par) = {i} \cup (IF par[i] \in Items THEN Within(par[i], par) ELSE {})
<1> DEFINE S == {i} \cup (IF par[i] \in Items THEN Within(par[i], par) ELSE {})
<1>1. Within(i, par) \subseteq S
  <2>1. CASE par[i] \in Items
    <3>1. S = {i} \cup Within(par[i], par)
      BY <2>1
    <3>2. S \subseteq Items /\ i \in S
      BY <2>1, <3>1, WithinSelf
    <3>3. \A j \in S : par[j] \in Items => par[j] \in S
      BY <2>1, <3>1, WithinSelf
    <3> HIDE DEF S
    <3> QED BY <3>2, <3>3, WithinLeast
  <2>2. CASE par[i] \notin Items
    <3>1. S = {i}
      BY <2>2
    <3>2. \A j \in S : par[j] \in Items => par[j] \in S
      BY <2>2, <3>1
    <3> HIDE DEF S
    <3> QED BY <3>1, <3>2, WithinLeast
  <2> QED BY <2>1, <2>2
<1>2. S \subseteq Within(i, par)
  BY WithinSelf, WithinTransitive
<1> QED
  BY <1>1, <1>2

(* Of two things that an item is in, one is in the other.                  *)
LEMMA WithinLinear ==
  ASSUME NEW par, NEW i \in Items, NEW j \in Within(i, par), NEW k \in Within(i, par)
  PROVE  k \in Within(j, par) \/ j \in Within(k, par)
<1> DEFINE S == {x \in Within(i, par) : j \in Within(x, par)} \cup Within(j, par)
<1>1. j \in Items /\ k \in Items
  BY WithinSelf
<1>2. S \subseteq Items /\ i \in S
  BY <1>1, WithinSelf
<1>3. ASSUME NEW x \in S, par[x] \in Items PROVE par[x] \in S
  <2>1. CASE x \in Within(j, par)
    BY <1>1, <1>3, <2>1, WithinSelf
  <2>2. CASE x \in Within(i, par) /\ j \in Within(x, par) /\ x \notin Within(j, par)
    <3>1. x \in Items /\ x # j
      BY <1>1, <2>2, WithinSelf
    <3>2. Within(x, par) = {x} \cup Within(par[x], par)
      BY <1>3, <3>1, WithinStep
    <3>3. par[x] \in Within(i, par)
      BY <1>3, <2>2, WithinSelf
    <3> QED BY <2>2, <3>1, <3>2, <3>3
  <2> QED BY <2>1, <2>2
<1> HIDE DEF S
<1>4. Within(i, par) \subseteq S
  BY <1>2, <1>3, WithinLeast
<1> QED
  BY <1>4 DEF S

(* The end of the chain: what is no item.                                  *)
LEMMA ChainEnds ==
  ASSUME NEW par, NEW i \in Items, NEW t \in Chain(i, par), t \notin Items
  PROVE  \A j \in Within(i, par) :
           /\ t \in Chain(j, par)
           /\ \A u \in Chain(j, par) : u \notin Items => u = t
<1>1. PICK k \in Within(i, par) : t = par[k]
  BY WithinSelf DEF Chain
<1>2. k \in Items /\ Within(k, par) = {k}
  BY <1>1, WithinSelf, WithinStep
<1> SUFFICES ASSUME NEW j \in Within(i, par)
             PROVE  /\ t \in Chain(j, par)
                    /\ \A u \in Chain(j, par) : u \notin Items => u = t
  OBVIOUS
<1>3. j \in Items
  BY WithinSelf
<1>4. k \in Within(j, par)
  BY <1>2, <1>3, WithinLinear, WithinSelf
<1>5. ASSUME NEW u \in Chain(j, par), u \notin Items PROVE u = t
  <2>1. PICK m \in Within(j, par) : u = par[m]
    BY <1>3, <1>5, WithinSelf DEF Chain
  <2>2. m \in Items /\ Within(m, par) = {m}
    BY <1>3, <1>5, <2>1, WithinSelf, WithinStep
  <2>3. m = k
    BY <1>2, <1>3, <1>4, <2>2, WithinLinear
  <2> QED BY <1>1, <2>1, <2>3
<1> QED
  BY <1>1, <1>4, <1>5 DEF Chain

(* The items of a chain.                                                   *)
LEMMA ChainItems ==
  ASSUME NEW par, NEW i \in Items
  PROVE  Chain(i, par) \cap Items = Within(i, par)
BY WithinSelf DEF Chain

(* Taking an item from its place does not concern what it is not in; ...   *)
LEMMA MoveOutside ==
  ASSUME NEW par, NEW new, NEW i \in Items, \A j \in Items \ {i} : new[j] = par[j],
         NEW a \in Items, i \notin Within(a, par)
  PROVE  Within(a, new) = Within(a, par) /\ Chain(a, new) = Chain(a, par)
<1>1. Within(a, par) \subseteq Items \ {i}
  BY WithinSelf
<1>2. Within(a, new) \subseteq Within(a, par)
  <2>1. \A j \in Within(a, par) : new[j] \in Items => new[j] \in Within(a, par)
    BY <1>1, WithinSelf
  <2> QED BY <1>1, <2>1, WithinSelf, WithinLeast
<1>3. Within(a, par) \subseteq Within(a, new)
  <2>1. \A j \in Within(a, new) : par[j] \in Items => par[j] \in Within(a, new)
    BY <1>1, <1>2, WithinSelf
  <2> QED BY <2>1, WithinSelf, WithinLeast
<1>4. Within(a, new) = Within(a, par)
  BY <1>2, <1>3
<1> QED
  BY <1>1, <1>4 DEF Chain

(* ... and putting it somewhere else does not concern what it is not put   *)
(* into.                                                                   *)
LEMMA MoveElsewhere ==
  ASSUME NEW par, NEW new, NEW i \in Items, \A j \in Items \ {i} : new[j] = par[j],
         NEW a \in Items, i \notin Within(a, par), a \notin Within(i, par),
         new[i] \in Items => a \notin Within(new[i], par) /\ i \notin Within(new[i], par),
         NEW j \in Items
  PROVE  a \in Within(j, new) <=> a \in Within(j, par)
<1>1. CASE i \notin Within(j, par)
  <2>1. Within(j, new) = Within(j, par)
    BY <1>1, MoveOutside
  <2> QED BY <2>1
<1>2. CASE i \in Within(j, par)
  <2>1. a \notin Within(j, par)
    BY <1>2, WithinLinear
  <2>2. i \in Within(j, new)
    <3>1. SUFFICES ASSUME i \notin Within(j, new) PROVE FALSE
      OBVIOUS
    <3>2. \A k \in Items \ {i} : par[k] = new[k]
      OBVIOUS
    <3>3. Within(j, par) = Within(j, new)
      BY <3>1, <3>2, MoveOutside
    <3> QED BY <1>2, <3>1, <3>3
  <2>3. i \notin Within(a, new)
    <3>1. Within(a, new) = Within(a, par)
      BY MoveOutside
    <3> QED BY <3>1
  <2>4. a \notin Within(i, new)
    <3>1. a # i
      BY WithinSelf
    <3>2. CASE new[i] \in Items
      <4>1. Within(new[i], new) = Within(new[i], par)
        BY <3>2, MoveOutside
      <4> QED BY <3>1, <3>2, <4>1, WithinStep
    <3>3. CASE new[i] \notin Items
      BY <3>1, <3>3, WithinStep
    <3> QED BY <3>2, <3>3
  <2>5. a \notin Within(j, new)
    BY <2>2, <2>3, <2>4, WithinLinear
  <2> QED BY <2>1, <2>5
<1> QED
  BY <1>1, <1>2

(* What has an end does not hold itself.                                   *)
LEMMA NoCycle ==
  ASSUME NEW par, NEW i \in Items, NEW t \in Chain(i, par), t \notin Items,
         par[i] \in Items
  PROVE  i \notin Within(par[i], par)
<1> SUFFICES ASSUME i \in Within(par[i], par) PROVE FALSE
  OBVIOUS
<1> DEFINE S == {x \in Within(i, par) : i \in Within(x, par)}
<1>1. PICK k \in Within(i, par) : t = par[k]
  BY WithinSelf DEF Chain
<1>2. k \in Items /\ Within(k, par) = {k}
  BY <1>1, WithinSelf, WithinStep
<1>3. S \subseteq Items /\ i \in S
  BY WithinSelf
<1>4. ASSUME NEW x \in S, par[x] \in Items PROVE par[x] \in S
  <2>1. par[x] \in Within(i, par)
    BY <1>4, WithinSelf
  <2>2. CASE x = i
    BY <2>1, <2>2
  <2>3. CASE x # i
    BY <1>3, <1>4, <2>1, <2>3, WithinStep
  <2> QED BY <2>2, <2>3
<1> HIDE DEF S
<1>5. Within(i, par) \subseteq S
  BY <1>3, <1>4, WithinLeast
<1>6. i \in Within(k, par)
  BY <1>5 DEF S
<1> QED
  BY <1>1, <1>2, <1>6

(* Only containers are items that can hold something.                      *)
LEMMA PlacesSplit ==
  /\ \A t \in Places : t \in Items => t \in Containers
  /\ \A p \in Players : Slots(p) \subseteq Places /\ Slots(p) \cap Items = {}
  /\ \A x \in Spots : Tile(x) \in Places /\ Tile(x) \notin Items
  /\ Containers \subseteq Places /\ None \in Places
<1> DEFINE S == UNION {Slots(p) : p \in Players}
           T == {Tile(x) : x \in Spots}
<1>1. Items \cap (S \cup T) = {}
  BY PlacesAssumption
<1>2. Places = S \cup T \cup Containers \cup {None}
  BY DEF Places
<1>3. \A p \in Players : Slots(p) \subseteq S
  OBVIOUS
<1>4. \A x \in Spots : Tile(x) \in T
  OBVIOUS
<1> HIDE DEF S, T
<1> QED
  BY <1>1, <1>2, <1>3, <1>4, TradeAssumption

(* Container::isHoldingItem in these terms.                                *)
LEMMA HoldingIsWithin ==
  ASSUME NEW par \in [Items -> Places], NEW c \in Items, NEW i \in Items
  PROVE  (c \in Containers /\ c # i /\ par[i] \in Containers /\ c \in Chain(i, par))
           <=> (c # i /\ c \in Within(i, par))
<1>1. \A j \in Items : par[j] \in Items => par[j] \in Containers
  BY PlacesSplit
<1>2. Within(i, par) \subseteq {i} \cup Containers
  <2>1. {i} \cup Containers \subseteq Items /\ i \in {i} \cup Containers
    BY TradeAssumption
  <2>2. \A j \in {i} \cup Containers : par[j] \in Items => par[j] \in {i} \cup Containers
    BY <1>1, <2>1
  <2> QED BY <2>1, <2>2, WithinLeast
<1>3. (c # i /\ c \in Within(i, par)) => par[i] \in Items
  BY WithinStep
<1> QED
  BY <1>1, <1>2, <1>3, ChainItems DEF Chain

(* A slot of one player is none of another, and no tile.                   *)
LEMMA NotAnothersSlot ==
  ASSUME NEW p \in Players, NEW q \in Players, p # q,
         NEW t \in Slots(p) \cup {Tile(x) : x \in Spots}
  PROVE  t \notin Slots(q)
<1>1. CASE t \in Slots(p)
  BY <1>1 DEF Slots, Hand, Back
<1>2. CASE t \in {Tile(x) : x \in Spots}
  <2>1. PICK x \in Spots : t = Tile(x)
    BY <1>2
  <2> QED BY <2>1 DEF Slots, Hand, Back, Tile
<1> QED
  BY <1>1, <1>2

(* The end of what p offers is a slot of p or a tile.                      *)
LEMMA OfferEnd ==
  ASSUME IInv, NEW p \in Players, tradeItem[p] # None
  PROVE  /\ tradeItem[p] \in Items
         /\ p \in online
         /\ \E t \in Slots(p) \cup {Tile(x) : x \in Spots} :
              t \in Chain(tradeItem[p], parent) /\ t \notin Items
<1>1. tradeItem[p] \in Items
  BY DEF IInv, TypeOK
<1>2. p \in online
  BY DEF IInv, PartnersAgree
<1>3. PICK t \in Slots(p) \cup {Tile(x) : x \in Spots} : t \in Chain(tradeItem[p], parent)
  BY DEF IInv, OffersWithOwner
<1>4. t \notin Items
  BY PlacesSplit
<1> QED
  BY <1>1, <1>2, <1>3, <1>4

-----------------------------------------------------------------------------
(* The books: partners, states, offers and references.                     *)

LEMMA ClosedIsClosed ==
  ASSUME TypeOK, PartnersAgree, NEW ps \in SUBSET Players
  PROVE  /\ Closed(ps) \subseteq Players
         /\ ps \subseteq Closed(ps)
         /\ \A p \in Closed(ps) : tradePartner[p] # None => tradePartner[p] \in Closed(ps)
BY DEF TypeOK, PartnersAgree, Closed

(* Ending the trades of players and partners keeps the books.              *)
LEMMA Closing ==
  ASSUME IInv, NEW Q \in SUBSET Players,
         \A p \in Q : tradePartner[p] # None => tradePartner[p] \in Q,
         ReleaseItems(Q), Reset(Q),
         online' \subseteq Players,
         \A p \in online \ Q : tradePartner[p] # None => p \in online',
         pos' \in [Players -> Spots], parent' \in [Items -> Places]
  PROVE  /\ TypeOK' /\ PartnersAgree' /\ OffersByState' /\ OffersRegistered'
         /\ \A p \in Players :
              tradeItem'[p] # None =>
                /\ p \notin Q
                /\ tradeItem'[p] = tradeItem[p]
                /\ tradePartner'[p] = tradePartner[p]
                /\ shown'[p] = shown[p]
<1> USE DEF IInv
<1>1. \A p \in Players :
        IF p \in Q
        THEN tradeState'[p] = "NONE" /\ tradeItem'[p] = None /\ tradePartner'[p] = None
        ELSE /\ tradeState'[p] = tradeState[p] /\ tradeItem'[p] = tradeItem[p]
             /\ tradePartner'[p] = tradePartner[p] /\ shown'[p] = shown[p]
  BY DEF Reset
<1>2. \A i \in Items :
        IF i \in Registered(Q)
        THEN refs'[i] = refs[i] - 1 /\ tradeItems'[i] = None
        ELSE refs'[i] = refs[i] /\ tradeItems'[i] = tradeItems[i]
  BY DEF ReleaseItems
<1>3. \A i \in Items : i \in Registered(Q) <=> \E p \in Q : tradeItem[p] = i
  BY TradeAssumption DEF Registered, OffersRegistered
<1>4. \A i \in Items : i \in Registered(Q) => refs[i] = 1
  BY DEF Registered, OffersRegistered
<1>5. TypeOK'
  <2>1. /\ tradeState' \in [Players -> TradeStates]
        /\ tradeItem' \in [Players -> Items \cup {None}]
        /\ tradePartner' \in [Players -> Players \cup {None}]
        /\ shown' \in [Players -> SUBSET Items]
    BY DEF Reset, TypeOK, TradeStates
  <2>2. refs' \in [Items -> Nat] /\ tradeItems' \in [Items -> Players \cup {None}]
    BY <1>2, <1>4 DEF ReleaseItems, TypeOK
  <2> QED BY <2>1, <2>2 DEF TypeOK
<1>6. PartnersAgree'
  <2> SUFFICES ASSUME NEW p \in Players
               PROVE  IF tradePartner'[p] = None
                      THEN tradeState'[p] = "NONE" /\ tradeItem'[p] = None
                      ELSE /\ tradeState'[p] \notin {"NONE", "TRANSFER"}
                           /\ p # tradePartner'[p]
                           /\ tradePartner'[tradePartner'[p]] = p
                           /\ {p, tradePartner'[p]} \subseteq online'
    BY DEF PartnersAgree
  <2>1. CASE p \in Q
    BY <1>1, <2>1
  <2>2. CASE p \notin Q /\ tradePartner[p] = None
    BY <1>1, <2>2 DEF PartnersAgree
  <2>3. CASE p \notin Q /\ tradePartner[p] # None
    <3>1. PICK q \in Players : q = tradePartner[p]
      BY <2>3 DEF TypeOK
    <3>2. tradePartner[q] = p /\ p # q /\ p \in online /\ q \in online
      BY <2>3, <3>1 DEF PartnersAgree
    <3>3. q \notin Q
      BY <2>3, <3>2, TradeAssumption
    <3>4. tradePartner'[p] = q /\ tradePartner'[q] = p /\ tradeState'[p] = tradeState[p]
      BY <1>1, <2>3, <3>1, <3>2, <3>3
    <3>5. tradeState[p] \notin {"NONE", "TRANSFER"}
      BY <2>3 DEF PartnersAgree
    <3>6. q # None
      BY TradeAssumption
    <3>7. p \in online' /\ q \in online'
      BY <2>3, <3>1, <3>2, <3>3, TradeAssumption
    <3> QED BY <3>2, <3>4, <3>5, <3>6, <3>7
  <2> QED BY <2>1, <2>2, <2>3
<1>7. OffersByState'
  BY <1>1 DEF OffersByState
<1>8. OffersRegistered'
  <2> SUFFICES ASSUME NEW i \in Items
               PROVE  /\ \A p \in Players : tradeItems'[i] = p <=> tradeItem'[p] = i
                      /\ refs'[i] = IF tradeItems'[i] = None THEN 0 ELSE 1
    BY DEF OffersRegistered
  <2>1. CASE i \in Registered(Q)
    <3>1. PICK r \in Q : tradeItem[r] = i
      BY <1>3, <2>1
    <3>2. \A p \in Players : tradeItem[p] = i => p = r
      BY <3>1 DEF OffersRegistered
    <3>3. \A p \in Players : tradeItem'[p] # i
      BY <1>1, <3>1, <3>2, TradeAssumption
    <3> QED BY <1>2, <1>4, <2>1, <3>3, TradeAssumption
  <2>2. CASE i \notin Registered(Q)
    <3>1. \A p \in Q : tradeItem[p] # i
      BY <1>3, <2>2
    <3>2. \A p \in Players : tradeItem'[p] = i <=> tradeItem[p] = i
      BY <1>1, <3>1, TradeAssumption
    <3> QED BY <1>2, <2>2, <3>2 DEF OffersRegistered
  <2> QED BY <2>1, <2>2
<1> QED
  BY <1>1, <1>5, <1>6, <1>7, <1>8

(* An offer that stays keeps what the invariant says of it when what it is *)
(* in and what is in it stay, and nobody moves.                            *)
LEMMA Staying ==
  ASSUME IInv, TypeOK', pos' = pos,
         \A p \in Players :
           tradeItem'[p] # None =>
             /\ tradeItem'[p] = tradeItem[p]
             /\ tradePartner'[p] = tradePartner[p]
             /\ shown'[p] = shown[p]
             /\ Chain(tradeItem[p], parent') = Chain(tradeItem[p], parent)
             /\ \A j \in Items :
                  tradeItem[p] \in Within(j, parent') <=> tradeItem[p] \in Within(j, parent)
  PROVE  OffersDisjoint' /\ OffersAsShown' /\ OffersWithOwner'
<1> USE DEF IInv
<1>1. \A p \in Players : tradeItem'[p] # None => tradeItem'[p] \in Items
  BY DEF TypeOK
<1>2. parent \in [Items -> Places] /\ parent' \in [Items -> Places]
  BY DEF TypeOK
<1>3. \A c, i \in Items : IsHoldingItem(c, i) <=> c # i /\ c \in Within(i, parent)
  BY <1>2, HoldingIsWithin DEF IsHoldingItem
<1>4. \A c, i \in Items : IsHoldingItem(c, i)' <=> c # i /\ c \in Within(i, parent')
  BY <1>2, HoldingIsWithin DEF IsHoldingItem
<1>5. OffersDisjoint'
  <2> SUFFICES ASSUME NEW p \in Players, NEW q \in Players, p # q,
                      tradeItem'[p] # None, tradeItem'[q] # None
               PROVE  /\ tradeItem'[p] # tradeItem'[q]
                      /\ ~(tradeItem'[p] \in Within(tradeItem'[q], parent'))
    BY <1>1, <1>4 DEF OffersDisjoint
  <2>1. PICK a \in Items, b \in Items : a = tradeItem[p] /\ b = tradeItem[q]
    BY <1>1
  <2>2. a # b /\ ~IsHoldingItem(a, b)
    BY <2>1 DEF OffersDisjoint
  <2>3. a \notin Within(b, parent)
    BY <1>3, <2>2
  <2> QED BY <2>1, <2>2, <2>3
<1>6. OffersAsShown'
  <2> SUFFICES ASSUME NEW p \in Players, tradeItem'[p] # None
               PROVE  (/\ Contents(tradeItem[p]) = shown[p]
                       /\ ItemInRange(1, tradeItem[p], p, pos)
                       /\ InRange(2, pos[p], pos[tradePartner[p]]))'
    BY DEF OffersAsShown
  <2>1. PICK a \in Items : a = tradeItem[p] /\ a = tradeItem'[p]
    BY <1>1
  <2>2. Contents(a)' = Contents(a)
    BY <1>3, <1>4, <2>1 DEF Contents
  <2>3. Chain(a, parent') = Chain(a, parent)
    BY <2>1
  <2>4. Contents(a) = shown[p] /\ ItemInRange(1, a, p, pos)
        /\ InRange(2, pos[p], pos[tradePartner[p]])
    BY <2>1 DEF OffersAsShown
  <2>5. Contents(tradeItem[p])' = shown'[p]
    BY <2>1, <2>2, <2>4 DEF Contents, IsHoldingItem
  <2>6. ItemInRange(1, tradeItem[p], p, pos)'
    BY <2>1, <2>3, <2>4 DEF ItemInRange
  <2>7. InRange(2, pos[p], pos[tradePartner[p]])'
    BY <2>4 DEF InRange
  <2> QED BY <2>5, <2>6, <2>7
<1>7. OffersWithOwner'
  BY DEF OffersWithOwner
<1> QED
  BY <1>5, <1>6, <1>7

(* Two ends of one thing are one.                                          *)
LEMMA OneEnd ==
  ASSUME NEW par, NEW i \in Items, NEW t \in Chain(i, par), NEW u \in Chain(i, par),
         t \notin Items, u \notin Items
  PROVE  t = u
BY WithinSelf, ChainEnds

(* What is in another thing has the same end.                              *)
LEMMA EndOfOuter ==
  ASSUME NEW par, NEW i \in Items, NEW j \in Within(i, par),
         NEW t \in Chain(i, par), t \notin Items
  PROVE  t \in Chain(j, par)
BY ChainEnds

LEMMA EndOfInner ==
  ASSUME NEW par, NEW i \in Items, NEW j \in Within(i, par), NEW t \in Chain(j, par)
  PROVE  t \in Chain(i, par)
<1>1. j \in Items
  BY WithinSelf
<1> QED
  BY <1>1, WithinTransitive DEF Chain

(* Moving an item changes nothing for an offer it is neither in nor around, *)
(* if the place it is put in is not inside the offer.                      *)
LEMMA MoveApart ==
  ASSUME NEW par, NEW new, NEW i \in Items, \A j \in Items \ {i} : new[j] = par[j],
         NEW a \in Items, i \notin Within(a, par), a \notin Within(i, par),
         new[i] \in Items => a \notin Within(new[i], par) /\ i \notin Within(new[i], par)
  PROVE  /\ Chain(a, new) = Chain(a, par)
         /\ \A j \in Items : a \in Within(j, new) <=> a \in Within(j, par)
BY MoveOutside, MoveElsewhere

(* Only the item moves.                                                    *)
LEMMA MoveToPlayerMovesOne ==
  ASSUME NEW x \in Players, NEW i \in Items, NEW ex, NEW par \in [Items -> Places],
         NEW new \in MoveToPlayer(x, i, ex, par)
  PROVE  new \in [Items -> Places] /\ \A j \in Items \ {i} : new[j] = par[j]
<1>1. CASE new = par
  BY <1>1
<1>2. CASE new # par
  <2>1. PICK d : /\ new = [par EXCEPT ![i] = d]
                 /\ d \in QueryDestination(x, i, par) \/ d = None
    BY <1>2 DEF MoveToPlayer
  <2>2. d \in Slots(x) \/ d \in Searched(x, i, par) \/ d = None
    BY <2>1 DEF QueryDestination, FreeSlots, Nearest
  <2>3. d \in Places
    BY <2>2, PlacesSplit DEF Searched
  <2> QED BY <2>1, <2>3
<1> QED
  BY <1>1, <1>2

(* An item that goes to a player changes nothing for an offer of another   *)
(* one that it is neither in nor around, provided it was not the player's. *)
LEMMA MoveToPlayerApart ==
  ASSUME NEW x \in Players, NEW i \in Items, NEW ex, NEW par \in [Items -> Places],
         NEW new \in MoveToPlayer(x, i, ex, par),
         NEW a \in Items, i \notin Within(a, par), a \notin Within(i, par),
         NEW t \in Chain(a, par), t \notin Items, t \notin Slots(x),
         NEW s \in Chain(i, par), s \notin Items, s \notin Slots(x)
  PROVE  /\ new \in [Items -> Places]
         /\ Chain(a, new) = Chain(a, par)
         /\ \A j \in Items : a \in Within(j, new) <=> a \in Within(j, par)
<1>1. CASE new = par
  BY <1>1
<1>2. CASE new # par
  <2>1. PICK d : /\ new = [par EXCEPT ![i] = d]
                 /\ d \in QueryDestination(x, i, par) \/ d = None
    BY <1>2 DEF MoveToPlayer
  <2>2. d \in Slots(x) \/ d \in Searched(x, i, par) \/ d = None
    BY <2>1 DEF QueryDestination, FreeSlots, Nearest
  <2>3. d \in Places
    BY <2>2, PlacesSplit DEF Searched
  <2>4. d \in Items => d \in Searched(x, i, par)
    BY <2>2, PlacesSplit, TradeAssumption
  <2>5. ASSUME d \in Items PROVE a \notin Within(d, par) /\ i \notin Within(d, par)
    <3>1. PICK u \in Slots(x) : u \in Chain(d, par)
      BY <2>4, <2>5 DEF Searched, CarriedBy
    <3>2. u \notin Items
      BY PlacesSplit
    <3>3. ASSUME a \in Within(d, par) PROVE FALSE
      <4>1. u \in Chain(a, par)
        BY <2>5, <3>1, <3>2, <3>3, EndOfOuter
      <4> QED BY <3>2, <4>1, OneEnd
    <3>4. ASSUME i \in Within(d, par) PROVE FALSE
      <4>1. u \in Chain(i, par)
        BY <2>5, <3>1, <3>2, <3>4, EndOfOuter
      <4> QED BY <3>2, <4>1, OneEnd
    <3> QED BY <3>3, <3>4
  <2>6. new \in [Items -> Places] /\ new[i] = d /\ \A j \in Items \ {i} : new[j] = par[j]
    BY <2>1, <2>3
  <2> QED BY <2>5, <2>6, MoveApart
<1> QED
  BY <1>1, <1>2

LEMMA RangeSymmetric ==
  ASSUME NEW x \in Nat, NEW y \in Nat, NEW d \in Nat
  PROVE  /\ InRange(d, x, y) <=> InRange(d, y, x)
         /\ InRange(d, x, x)
         /\ InRange(1, x, y) => InRange(2, x, y)
BY DEF InRange, Abs

(* A position is a number.                                                 *)
LEMMA PositionsAreNumbers ==
  ASSUME TypeOK
  PROVE  \A p \in Players : pos[p] \in Nat /\ pos[p] \in Spots
BY TradeAssumption DEF TypeOK

-----------------------------------------------------------------------------
(* The actions.                                                            *)

LEMMA InitInvariant == Init => IInv
<1> SUFFICES ASSUME Init PROVE IInv
  OBVIOUS
<1>1. PICK x \in Spots : parent = [i \in Items |-> Tile(x)]
  BY DEF Init
<1>2. parent \in [Items -> Places]
  BY <1>1, PlacesSplit
<1>3. TypeOK
  BY <1>2 DEF Init, TypeOK, TradeStates
<1>4. PartnersAgree /\ OffersByState /\ OffersRegistered
  BY TradeAssumption DEF Init, PartnersAgree, OffersByState, OffersRegistered
<1>5. OffersDisjoint /\ OffersAsShown /\ OffersWithOwner
  BY DEF Init, OffersDisjoint, OffersAsShown, OffersWithOwner
<1> QED
  BY <1>3, <1>4, <1>5 DEF IInv

(* playerCloseTrade.                                                       *)
LEMMA CloseTradeKeeps ==
  ASSUME IInv, NEW p \in Players, CloseTrade(p)
  PROVE  IInv'
<1>1. PICK Q : Q = Closed({p})
  OBVIOUS
<1>2. /\ Q \in SUBSET Players
      /\ \A r \in Q : tradePartner[r] # None => tradePartner[r] \in Q
      /\ ReleaseItems(Q) /\ Reset(Q)
  BY <1>1, ClosedIsClosed DEF CloseTrade, InternalCloseTrade, IInv
<1>3. online' = online /\ pos' = pos /\ parent' = parent
  BY DEF CloseTrade
<1>4. /\ online' \subseteq Players
      /\ \A r \in online \ Q : tradePartner[r] # None => r \in online'
      /\ pos' \in [Players -> Spots] /\ parent' \in [Items -> Places]
  BY <1>3 DEF IInv, TypeOK
<1>5. /\ TypeOK' /\ PartnersAgree' /\ OffersByState' /\ OffersRegistered'
      /\ \A r \in Players :
           tradeItem'[r] # None =>
             /\ tradeItem'[r] = tradeItem[r]
             /\ tradePartner'[r] = tradePartner[r]
             /\ shown'[r] = shown[r]
  BY <1>2, <1>4, Closing
<1>6. OffersDisjoint' /\ OffersAsShown' /\ OffersWithOwner'
  BY <1>3, <1>5, Staying
<1> QED
  BY <1>5, <1>6 DEF IInv

(* Player::onRemoveCreature.                                               *)
LEMMA RemovePlayerKeeps ==
  ASSUME IInv, NEW p \in Players, RemovePlayer(p)
  PROVE  IInv'
<1>1. PICK ps \in SUBSET Players : ps = IF tradePartner[p] # None THEN {p} ELSE {}
  OBVIOUS
<1>2. PICK Q : Q = Closed(ps)
  OBVIOUS
<1>3. /\ Q \in SUBSET Players
      /\ \A r \in Q : tradePartner[r] # None => tradePartner[r] \in Q
      /\ ReleaseItems(Q) /\ Reset(Q)
  BY <1>1, <1>2, ClosedIsClosed DEF RemovePlayer, InternalCloseTrade, IInv
<1>4. online' = online \ {p} /\ pos' = pos /\ parent' = parent
  BY DEF RemovePlayer
<1>5. /\ online' \subseteq Players
      /\ \A r \in online \ Q : tradePartner[r] # None => r \in online'
      /\ pos' \in [Players -> Spots] /\ parent' \in [Items -> Places]
  BY <1>1, <1>2, <1>4, ClosedIsClosed DEF IInv, TypeOK
<1>6. /\ TypeOK' /\ PartnersAgree' /\ OffersByState' /\ OffersRegistered'
      /\ \A r \in Players :
           tradeItem'[r] # None =>
             /\ tradeItem'[r] = tradeItem[r]
             /\ tradePartner'[r] = tradePartner[r]
             /\ shown'[r] = shown[r]
  BY <1>3, <1>5, Closing
<1>7. OffersDisjoint' /\ OffersAsShown' /\ OffersWithOwner'
  BY <1>4, <1>6, Staying
<1> QED
  BY <1>6, <1>7 DEF IInv

(* playerAcceptTrade, the first of the two.                                *)
LEMMA AcceptFirstKeeps ==
  ASSUME IInv, NEW p \in Players, AcceptFirst(p)
  PROVE  IInv'
<1>1. /\ tradeState' = [tradeState EXCEPT ![p] = "ACCEPT"]
      /\ UNCHANGED <<online, pos, parent, tradeItem, tradePartner, tradeItems, refs, shown>>
      /\ tradePartner[p] # None
  BY DEF AcceptFirst, CanAccept
<1>2. TypeOK'
  BY <1>1 DEF IInv, TypeOK, TradeStates
<1>3. \A r \in Players : tradeState'[r] = IF r = p THEN "ACCEPT" ELSE tradeState[r]
  BY <1>1 DEF IInv, TypeOK
<1>4. PartnersAgree'
  BY <1>1, <1>3 DEF IInv, PartnersAgree
<1>5. OffersByState'
  BY <1>1, <1>3 DEF IInv, OffersByState
<1>6. OffersRegistered'
  BY <1>1 DEF IInv, OffersRegistered
<1>7. OffersDisjoint' /\ OffersAsShown' /\ OffersWithOwner'
  BY <1>1, <1>2, Staying
<1> QED
  BY <1>2, <1>4, <1>5, <1>6, <1>7 DEF IInv

(* playerAcceptTrade, the second: the items change hands, and an offer of a *)
(* third player is where it was and holds what it held.                    *)
LEMMA AcceptSecondKeeps ==
  ASSUME IInv, NEW p \in Players, AcceptSecond(p)
  PROVE  IInv'
<1>1. PICK q \in Players : q = tradePartner[p]
  BY DEF AcceptSecond, CanAccept, IInv, TypeOK
<1>2. q # p /\ tradePartner[q] = p /\ q # None /\ p # None
  BY <1>1, TradeAssumption DEF IInv, PartnersAgree
<1>3. PICK Q : Q = {p, q}
  OBVIOUS
<1>4. /\ Q \in SUBSET Players
      /\ \A r \in Q : tradePartner[r] # None => tradePartner[r] \in Q
      /\ ReleaseItems(Q) /\ Reset(Q)
  BY <1>1, <1>2, <1>3 DEF AcceptSecond
<1>5. online' = online /\ pos' = pos /\ TransferItems(p, q)
  BY <1>1 DEF AcceptSecond
<1>6. parent \in [Items -> Places]
  BY DEF IInv, TypeOK
<1>7. \A c, i \in Items : IsHoldingItem(c, i) <=> c # i /\ c \in Within(i, parent)
  BY <1>6, HoldingIsWithin DEF IsHoldingItem
<1>8. \A r, o \in Players :
        (r # o /\ tradeItem[r] # None /\ tradeItem[o] # None) =>
           tradeItem[r] \notin Within(tradeItem[o], parent)
  BY <1>7, OfferEnd DEF IInv, OffersDisjoint
<1> DEFINE Same(new, r) ==
             /\ Chain(tradeItem[r], new) = Chain(tradeItem[r], parent)
             /\ \A j \in Items :
                  tradeItem[r] \in Within(j, new) <=> tradeItem[r] \in Within(j, parent)
<1>9. /\ parent' \in [Items -> Places]
      /\ \A r \in Players \ {p, q} : tradeItem[r] # None => Same(parent', r)
  <2>1. CASE parent' = parent
    BY <1>6, <2>1
  <2>2. CASE parent' # parent
    <3>1. PICK mine \in Items, theirs \in Items :
            mine = tradeItem[p] /\ theirs = tradeItem[q]
      BY <1>5, <2>2 DEF TransferItems, IInv, TypeOK
    <3>2. tradeItem[p] # None /\ tradeItem[q] # None
      BY <1>5, <2>2 DEF TransferItems
    <3>3. PICK first \in MoveToPlayer(q, mine, theirs, parent) :
            parent' \in IF first = parent THEN {parent}
                                          ELSE MoveToPlayer(p, theirs, None, first)
      BY <1>5, <2>2, <3>1 DEF TransferItems
    <3>4. parent' \in MoveToPlayer(p, theirs, None, first)
      BY <2>2, <3>3
    <3>5. PICK s : /\ s \in Slots(p) \cup {Tile(x) : x \in Spots}
                   /\ s \in Chain(mine, parent) /\ s \notin Items
      BY <3>1, <3>2, OfferEnd
    <3>6. PICK t : /\ t \in Slots(q) \cup {Tile(x) : x \in Spots}
                   /\ t \in Chain(theirs, parent) /\ t \notin Items
      BY <3>1, <3>2, OfferEnd
    <3>7. s \notin Slots(q)
      BY <1>2, <3>5, NotAnothersSlot
    <3>8. t \notin Slots(p)
      BY <1>2, <3>6, NotAnothersSlot
    <3>9. mine \notin Within(theirs, parent) /\ theirs \notin Within(mine, parent)
      BY <1>2, <1>8, <3>1, <3>2
    <3>10. first \in [Items -> Places] /\ \A j \in Items \ {mine} : first[j] = parent[j]
      BY <1>6, <3>3, MoveToPlayerMovesOne
    <3>11. t \in Chain(theirs, first)
      <4>1. Chain(theirs, first) = Chain(theirs, parent)
        BY <3>9, <3>10, MoveOutside
      <4> QED BY <3>6, <4>1
    <3>12. parent' \in [Items -> Places]
      BY <3>4, <3>10, MoveToPlayerMovesOne
    <3>13. ASSUME NEW r \in Players \ {p, q}, tradeItem[r] # None
           PROVE  Same(parent', r)
      <4>1. PICK a \in Items : a = tradeItem[r]
        BY <3>13, OfferEnd
      <4>2. PICK w : /\ w \in Slots(r) \cup {Tile(x) : x \in Spots}
                     /\ w \in Chain(a, parent) /\ w \notin Items
        BY <3>13, <4>1, OfferEnd
      <4>3. w \notin Slots(p) /\ w \notin Slots(q)
        <5>1. w \notin Slots(p)
          BY <3>13, <4>2, NotAnothersSlot
        <5>2. w \notin Slots(q)
          BY <3>13, <4>2, NotAnothersSlot
        <5> QED BY <5>1, <5>2
      <4>4. /\ mine \notin Within(a, parent) /\ a \notin Within(mine, parent)
            /\ theirs \notin Within(a, parent) /\ a \notin Within(theirs, parent)
        BY <1>8, <3>1, <3>2, <3>13, <4>1
      <4>5. /\ Chain(a, first) = Chain(a, parent)
            /\ \A j \in Items : a \in Within(j, first) <=> a \in Within(j, parent)
        BY <1>6, <3>3, <3>5, <3>7, <4>2, <4>3, <4>4, MoveToPlayerApart
      <4>6. /\ w \in Chain(a, first)
            /\ theirs \notin Within(a, first) /\ a \notin Within(theirs, first)
        BY <4>2, <4>4, <4>5, ChainItems
      <4>7. /\ Chain(a, parent') = Chain(a, first)
            /\ \A j \in Items : a \in Within(j, parent') <=> a \in Within(j, first)
        BY <3>4, <3>6, <3>8, <3>10, <3>11, <4>2, <4>3, <4>6, MoveToPlayerApart
      <4> QED BY <4>1, <4>5, <4>7
    <3> QED BY <3>12, <3>13
  <2> QED BY <2>1, <2>2
<1>10. /\ online' \subseteq Players
       /\ \A r \in online \ Q : tradePartner[r] # None => r \in online'
       /\ pos' \in [Players -> Spots] /\ parent' \in [Items -> Places]
  BY <1>5, <1>9 DEF IInv, TypeOK
<1>11. /\ TypeOK' /\ PartnersAgree' /\ OffersByState' /\ OffersRegistered'
       /\ \A r \in Players :
            tradeItem'[r] # None =>
              /\ r \notin Q
              /\ tradeItem'[r] = tradeItem[r]
              /\ tradePartner'[r] = tradePartner[r]
              /\ shown'[r] = shown[r]
  BY <1>4, <1>10, Closing
<1>12. \A r \in Players : tradeItem'[r] # None => Same(parent', r)
  BY <1>3, <1>9, <1>11
<1>13. OffersDisjoint' /\ OffersAsShown' /\ OffersWithOwner'
  BY <1>5, <1>11, <1>12, Staying
<1> QED
  BY <1>11, <1>13 DEF IInv

(* Player::onCreatureMove: the one who moves is in range of what he offers *)
(* and of his partner, or the trade is over; nobody else's offer goes with *)
(* him.                                                                    *)
LEMMA MoveCreatureKeeps ==
  ASSUME IInv, NEW p \in Players, NEW x \in Spots, MoveCreature(p, x)
  PROVE  IInv'
<1> DEFINE far == \/ tradeItem[p] # None /\ ~ItemInRange(1, tradeItem[p], p, [pos EXCEPT ![p] = x])
                  \/ tradePartner[p] # None
                       /\ ~InRange(2, [pos EXCEPT ![p] = x][tradePartner[p]], x)
<1>1. PICK ps \in SUBSET Players : ps = IF far THEN {p} ELSE {}
  OBVIOUS
<1>2. PICK Q : Q = Closed(ps)
  OBVIOUS
<1>3. /\ Q \in SUBSET Players /\ ps \subseteq Q
      /\ \A r \in Q : tradePartner[r] # None => tradePartner[r] \in Q
      /\ ReleaseItems(Q) /\ Reset(Q)
  BY <1>1, <1>2, ClosedIsClosed DEF MoveCreature, InternalCloseTrade, IInv
<1>4. PICK spots \in [Players -> Spots] :
        spots = [pos EXCEPT ![p] = x]
  BY DEF IInv, TypeOK
<1>5. /\ online' = online /\ pos' = spots /\ parent' = parent
      /\ spots[p] = x /\ \A r \in Players \ {p} : spots[r] = pos[r]
  BY <1>4 DEF MoveCreature, IInv, TypeOK
<1>6. /\ online' \subseteq Players
      /\ \A r \in online \ Q : tradePartner[r] # None => r \in online'
      /\ pos' \in [Players -> Spots] /\ parent' \in [Items -> Places]
  BY <1>5 DEF IInv, TypeOK
<1>7. /\ TypeOK' /\ PartnersAgree' /\ OffersByState' /\ OffersRegistered'
      /\ \A r \in Players :
           tradeItem'[r] # None =>
             /\ r \notin Q
             /\ tradeItem'[r] = tradeItem[r]
             /\ tradePartner'[r] = tradePartner[r]
             /\ shown'[r] = shown[r]
  BY <1>3, <1>6, Closing
<1>8. OffersDisjoint'
  BY <1>5, <1>7 DEF IInv, OffersDisjoint, IsHoldingItem
<1>9. OffersWithOwner'
  BY <1>5, <1>7 DEF IInv, OffersWithOwner
<1>10. ASSUME NEW r \in Players, tradeItem'[r] # None
       PROVE  /\ Contents(tradeItem[r]) = shown[r]
              /\ ItemInRange(1, tradeItem[r], r, spots)
              /\ InRange(2, spots[r], spots[tradePartner[r]])
  <2>1. r \notin Q /\ tradeItem[r] # None
    BY <1>7, <1>10
  <2>2. /\ Contents(tradeItem[r]) = shown[r]
        /\ ItemInRange(1, tradeItem[r], r, pos)
        /\ InRange(2, pos[r], pos[tradePartner[r]])
    BY <2>1 DEF IInv, OffersAsShown
  <2>3. PICK o \in Players : o = tradePartner[r] /\ tradePartner[o] = r /\ o # r
    BY <2>1 DEF IInv, TypeOK, PartnersAgree
  <2>4. r # None /\ o # None /\ o \notin Q
    BY <1>3, <2>1, <2>3, TradeAssumption
  <2>5. r = p => ~far
    BY <1>1, <1>3, <2>1
  <2>6. o = p => ~far
    BY <1>1, <1>3, <2>4
  <2>7. spots[r] \in Nat /\ spots[o] \in Nat /\ x \in Nat
    BY <1>4, TradeAssumption
  <2>8. ItemInRange(1, tradeItem[r], r, spots)
    <3>1. CASE r = p
      BY <1>4, <2>1, <2>5, <3>1
    <3>2. CASE r # p
      <4>1. PICK a \in Items, t \in Slots(r) \cup {Tile(y) : y \in Spots} :
              a = tradeItem[r] /\ t \in Chain(a, parent) /\ t \notin Items
        BY <2>1, OfferEnd
      <4>2. CASE \E y \in Spots : InRange(1, y, pos[r]) /\ Tile(y) \in Chain(a, parent)
        BY <1>5, <3>2, <4>1, <4>2 DEF ItemInRange
      <4>3. CASE \E o2 \in Players : /\ Slots(o2) \cap Chain(a, parent) # {}
                                     /\ InRange(1, pos[o2], pos[r])
        <5>1. PICK o2 \in Players : \E u \in Slots(o2) : u \in Chain(a, parent)
          BY <4>3
        <5>2. t \in Slots(o2)
          BY <4>1, <5>1, OneEnd, PlacesSplit
        <5>3. t \in Slots(r)
          BY <4>1, <5>1, <5>2, NotAnothersSlot
        <5>4. InRange(1, spots[r], spots[r])
          BY <2>7, RangeSymmetric
        <5> QED BY <4>1, <5>3, <5>4 DEF ItemInRange
      <4> QED BY <2>2, <4>1, <4>2, <4>3 DEF ItemInRange
    <3> QED BY <3>1, <3>2
  <2>9. InRange(2, spots[r], spots[o])
    <3>1. CASE r = p
      <4>1. InRange(2, spots[o], spots[r])
        BY <1>4, <1>5, <2>3, <2>4, <2>5, <3>1
      <4> QED BY <2>7, <4>1, RangeSymmetric
    <3>2. CASE o = p
      BY <1>4, <1>5, <2>3, <2>4, <2>6, <3>2
    <3>3. CASE r # p /\ o # p
      BY <1>5, <2>2, <2>3, <3>3
    <3> QED BY <3>1, <3>2, <3>3
  <2> QED BY <2>2, <2>3, <2>8, <2>9
<1>11. OffersAsShown'
  <2> SUFFICES ASSUME NEW r \in Players, tradeItem'[r] # None
               PROVE  (/\ Contents(tradeItem[r]) = shown[r]
                       /\ ItemInRange(1, tradeItem[r], r, pos)
                       /\ InRange(2, pos[r], pos[tradePartner[r]]))'
    BY DEF OffersAsShown
  <2> HIDE DEF far
  <2>1. /\ tradeItem'[r] = tradeItem[r] /\ shown'[r] = shown[r]
        /\ tradePartner'[r] = tradePartner[r]
    BY <1>7
  <2>2. PICK a : a = tradeItem[r] /\ a = tradeItem'[r]
    BY <2>1
  <2>3. Contents(tradeItem[r])' = shown'[r]
    BY <1>5, <1>10, <2>1, <2>2 DEF Contents, IsHoldingItem
  <2>4. ItemInRange(1, tradeItem[r], r, pos)'
    BY <1>5, <1>10, <2>2 DEF ItemInRange
  <2>5. InRange(2, pos[r], pos[tradePartner[r]])'
    BY <1>5, <1>10, <2>1 DEF InRange
  <2> QED BY <2>3, <2>4, <2>5
<1> QED
  BY <1>7, <1>8, <1>9, <1>11 DEF IInv

(* Somebody moves an item: an offer that the item is in or around, or that *)
(* it is put into, is over, whoever moves it and wherever it is.           *)
LEMMA MoveItemKeeps ==
  ASSUME IInv, NEW m \in Players, NEW i \in Items, MoveItem(m, i)
  PROVE  IInv'
<1>1. PICK to \in Targets(m, i) \ {parent[i]} :
        /\ parent' = [parent EXCEPT ![i] = to]
        /\ InternalCloseTrade(DisturbedByRemove(i) \cup DisturbedByAdd(i, to))
  BY DEF MoveItem
<1>2. online' = online /\ pos' = pos
  BY DEF MoveItem
<1>3. PICK ps : ps = DisturbedByRemove(i) \cup DisturbedByAdd(i, to)
  OBVIOUS
<1>4. ps \in SUBSET Players
  BY <1>3 DEF DisturbedByRemove, DisturbedByAdd, IInv, TypeOK
<1>5. PICK Q : Q = Closed(ps)
  OBVIOUS
<1>6. /\ Q \in SUBSET Players /\ ps \subseteq Q
      /\ \A r \in Q : tradePartner[r] # None => tradePartner[r] \in Q
      /\ ReleaseItems(Q) /\ Reset(Q)
  BY <1>1, <1>3, <1>4, <1>5, ClosedIsClosed DEF InternalCloseTrade, IInv
<1>7. parent \in [Items -> Places]
  BY DEF IInv, TypeOK
<1>8. \A c, j \in Items : IsHoldingItem(c, j) <=> c # j /\ c \in Within(j, parent)
  BY <1>7, HoldingIsWithin DEF IsHoldingItem
<1>9. to \in Places /\ (to \in Items => to \in Containers /\ i \notin Within(to, parent))
  <2>1. \/ to \in Slots(m)
        \/ \E x \in Spots : to = Tile(x)
        \/ to \in Containers /\ to # i /\ ~IsHoldingItem(i, to)
    BY DEF Targets, FreeSlots
  <2> QED BY <1>8, <2>1, PlacesSplit, TradeAssumption
<1>10. /\ parent' \in [Items -> Places] /\ parent'[i] = to
       /\ \A j \in Items \ {i} : parent'[j] = parent[j]
  BY <1>1, <1>7, <1>9
<1>11. /\ online' \subseteq Players
       /\ \A r \in online \ Q : tradePartner[r] # None => r \in online'
       /\ pos' \in [Players -> Spots]
  BY <1>2 DEF IInv, TypeOK
<1>12. /\ TypeOK' /\ PartnersAgree' /\ OffersByState' /\ OffersRegistered'
       /\ \A r \in Players :
            tradeItem'[r] # None =>
              /\ r \notin Q
              /\ tradeItem'[r] = tradeItem[r]
              /\ tradePartner'[r] = tradePartner[r]
              /\ shown'[r] = shown[r]
  BY <1>6, <1>10, <1>11, Closing
<1>13. ASSUME NEW r \in Players, tradeItem'[r] # None
       PROVE  /\ Chain(tradeItem[r], parent') = Chain(tradeItem[r], parent)
              /\ \A j \in Items :
                   tradeItem[r] \in Within(j, parent') <=> tradeItem[r] \in Within(j, parent)
  <2>1. tradeItem[r] # None /\ r \notin DisturbedByRemove(i) /\ r \notin DisturbedByAdd(i, to)
    BY <1>3, <1>6, <1>12, <1>13
  <2>2. PICK a \in Items : a = tradeItem[r]
    BY <2>1, OfferEnd
  <2>3. r \in online
    BY <2>1, OfferEnd
  <2>4. PICK t \in Slots(r) \cup {Tile(x) : x \in Spots} :
          t \in Chain(a, parent) /\ t \notin Items
    BY <2>1, <2>2, OfferEnd
  <2>5. ASSUME NEW c \in Items, c \in Within(a, parent) \/ a \in Within(c, parent)
        PROVE  ItemInRange(2, c, r, pos)
    <3>1. ItemInRange(1, a, r, pos)
      BY <2>1, <2>2 DEF IInv, OffersAsShown
    <3>2. \A u \in Chain(a, parent) : u \notin Items => u \in Chain(c, parent)
      BY <2>5, EndOfOuter, EndOfInner
    <3>3. CASE \E o \in Players : /\ Slots(o) \cap Chain(a, parent) # {}
                                  /\ InRange(1, pos[o], pos[r])
      <4>1. PICK o \in Players : /\ Slots(o) \cap Chain(a, parent) # {}
                                 /\ InRange(1, pos[o], pos[r])
        BY <3>3
      <4>2. Slots(o) \cap Chain(c, parent) # {}
        BY <3>2, <4>1, PlacesSplit
      <4>3. InRange(2, pos[o], pos[r])
        BY <4>1, RangeSymmetric, PositionsAreNumbers DEF IInv
      <4> QED BY <4>2, <4>3 DEF ItemInRange
    <3>4. CASE \E x \in Spots : InRange(1, x, pos[r]) /\ Tile(x) \in Chain(a, parent)
      <4>1. PICK x \in Spots : InRange(1, x, pos[r]) /\ Tile(x) \in Chain(a, parent)
        BY <3>4
      <4>2. Tile(x) \in Chain(c, parent)
        BY <3>2, <4>1, PlacesSplit
      <4>3. InRange(2, x, pos[r])
        BY <4>1, RangeSymmetric, PositionsAreNumbers, TradeAssumption DEF IInv
      <4> QED BY <4>2, <4>3 DEF ItemInRange
    <3> QED BY <3>1, <3>3, <3>4 DEF ItemInRange
  <2>6. ASSUME i \in Within(a, parent) PROVE FALSE
    <3>1. t \in Chain(i, parent)
      BY <2>4, <2>6, EndOfOuter
    <3>2. parent[i] \in Chain(i, parent)
      BY WithinSelf DEF Chain
    <3>3. parent[i] \in UNION {Slots(o) : o \in Players} => parent[i] \in Slots(r)
      <4>1. SUFFICES ASSUME NEW o \in Players, parent[i] \in Slots(o)
                     PROVE  parent[i] \in Slots(r)
        OBVIOUS
      <4>2. parent[i] \notin Items
        BY <4>1, PlacesSplit
      <4>3. parent[i] = t
        BY <2>4, <3>1, <3>2, <4>2, OneEnd
      <4> QED BY <4>1, <4>3, NotAnothersSlot
    <3>4. parent[i] \in Containers => parent[i] \in Within(a, parent)
      BY <2>6, WithinSelf, TradeAssumption
    <3>5. parent[i] \in Containers => ItemInRange(2, parent[i], r, pos)
      BY <2>5, <3>4, TradeAssumption
    <3>6. \/ CheckTradeState(r, i, parent)
          \/ parent[i] \notin Containers /\ IsHoldingItem(i, a)
          \/ /\ parent[i] \in Containers
             /\ parent[a] # parent[i]
             /\ IsHoldingItem(parent[i], a)
      <4>1. CASE a \in Within(i, parent)
        BY <2>1, <2>2, <4>1 DEF CheckTradeState, Chain
      <4>2. CASE a \notin Within(i, parent)
        <5>1. i # a /\ IsHoldingItem(i, a)
          BY <1>8, <2>6, <4>2, WithinSelf
        <5>2. ASSUME parent[i] \in Containers
              PROVE  parent[a] # parent[i] /\ IsHoldingItem(parent[i], a)
          <6>1. parent[i] \in Items /\ parent[i] \in Within(i, parent)
            BY <5>2, TradeAssumption, WithinSelf
          <6>2. parent[i] # a /\ parent[i] \in Within(a, parent)
            BY <3>4, <4>2, <5>2, <6>1
          <6>3. i \notin Within(parent[i], parent)
            BY <2>4, <3>1, <6>1, NoCycle
          <6>4. parent[a] \in Items => i \in Within(parent[a], parent)
            BY <2>6, <5>1, WithinStep
          <6> QED BY <1>8, <6>1, <6>2, <6>3, <6>4
        <5> QED BY <5>1, <5>2
      <4> QED BY <4>1, <4>2
    <3> QED BY <2>1, <2>2, <2>3, <3>3, <3>5, <3>6 DEF DisturbedByRemove
  <2>7. ASSUME a \in Within(i, parent) PROVE FALSE
    <3>1. a # i
      BY <2>6, WithinSelf
    <3>2. parent[i] \in Items /\ a \in Within(parent[i], parent)
      BY <2>7, <3>1, WithinStep
    <3>3. parent[i] \notin UNION {Slots(o) : o \in Players}
      BY <3>2, PlacesSplit
    <3>4. ItemInRange(2, parent[i], r, pos)
      BY <2>5, <3>2
    <3>5. CheckTradeState(r, i, parent)
      BY <2>1, <2>2, <2>7 DEF CheckTradeState, Chain
    <3> QED BY <2>1, <2>3, <3>3, <3>4, <3>5 DEF DisturbedByRemove
  <2>8. to \in Items => a \notin Within(to, parent)
    <3> SUFFICES ASSUME to \in Items, a \in Within(to, parent) PROVE FALSE
      OBVIOUS
    <3>1. CheckTradeState(r, to, parent)
      BY <2>1, <2>2 DEF CheckTradeState, Chain
    <3> QED BY <1>9, <2>1, <2>3, <2>5, <3>1 DEF DisturbedByAdd
  <2>9. parent'[i] \in Items =>
          a \notin Within(parent'[i], parent) /\ i \notin Within(parent'[i], parent)
    BY <1>9, <1>10, <2>8
  <2> QED BY <1>10, <2>2, <2>6, <2>7, <2>9, MoveApart
<1>14. OffersDisjoint' /\ OffersAsShown' /\ OffersWithOwner'
  BY <1>2, <1>12, <1>13, Staying
<1> QED
  BY <1>12, <1>14 DEF IInv

(* playerRequestTrade: the first offer of a trade, or the answer to one.   *)
LEMMA RequestTradeKeeps ==
  ASSUME IInv, NEW p \in Players, NEW q \in Players, NEW i \in Items,
         RequestTrade(p, q, i)
  PROVE  IInv'
<1> USE DEF IInv
<1>1. /\ p \in online /\ q \in online /\ p # q
      /\ InRange(2, pos[q], pos[p]) /\ MayTrade(p, q)
      /\ Reaches(p, i) /\ ~AlreadyTraded(i)
      /\ online' = online /\ pos' = pos /\ parent' = parent
  BY DEF RequestTrade
<1>2. p # None /\ q # None /\ i # None /\ \A r \in Players : r # None
  BY TradeAssumption
<1>3. tradeItem[p] = None /\ tradeState[p] \in {"NONE", "ACKNOWLEDGE"}
  BY <1>1 DEF MayTrade, OffersByState
<1>4. \/ /\ tradeState[q] = "NONE" /\ tradePartner[p] = None /\ tradePartner[q] = None
         /\ tradeState[p] = "NONE"
      \/ tradeState[q] # "NONE" /\ tradePartner[q] = p /\ tradePartner[p] = q
  <2>1. CASE tradeState[q] = "NONE"
    <3>1. tradePartner[q] = None
      BY <2>1 DEF PartnersAgree
    <3>2. tradePartner[p] # q
      BY <1>2, <3>1 DEF PartnersAgree
    <3>3. tradeState[p] = "NONE"
      BY <1>1, <3>2 DEF MayTrade
    <3> QED BY <2>1, <3>1, <3>3 DEF PartnersAgree
  <2>2. CASE tradeState[q] # "NONE"
    <3>1. tradePartner[q] = p
      BY <1>1, <2>2 DEF MayTrade
    <3> QED BY <1>2, <2>2, <3>1 DEF PartnersAgree
  <2> QED BY <2>1, <2>2
<1>5. \A r \in Players :
        /\ tradeItem'[r] = IF r = p THEN i ELSE tradeItem[r]
        /\ shown'[r] = IF r = p THEN Contents(i) ELSE shown[r]
  BY DEF RequestTrade, TypeOK
<1>6. \A r \in Players :
        /\ r = p => tradePartner'[r] = q /\ tradeState'[r] = "INITIATED"
        /\ r = q => tradePartner'[r] = p
        /\ r = q => tradeState'[r] = IF tradeState[q] = "NONE" THEN "ACKNOWLEDGE"
                                                               ELSE tradeState[q]
        /\ r \notin {p, q} => /\ tradePartner'[r] = tradePartner[r]
                              /\ tradeState'[r] = tradeState[r]
  BY <1>1, <1>4 DEF RequestTrade, TypeOK
<1>7. \A j \in Items :
        /\ tradeItems'[j] = IF j = i THEN p ELSE tradeItems[j]
        /\ refs'[j] = IF j = i THEN refs[i] + 1 ELSE refs[j]
  BY DEF RequestTrade, TypeOK
<1>8. Contents(i) \subseteq Items
  BY DEF Contents
<1>9. TypeOK'
  <2>1. tradeState' \in [Players -> TradeStates]
    BY DEF RequestTrade, TypeOK, TradeStates
  <2>2. tradePartner' \in [Players -> Players \cup {None}]
    BY DEF RequestTrade, TypeOK
  <2>3. shown' \in [Players -> SUBSET Items]
    BY <1>8 DEF RequestTrade, TypeOK
  <2>4. /\ tradeItem' \in [Players -> Items \cup {None}]
        /\ tradeItems' \in [Items -> Players \cup {None}]
        /\ refs' \in [Items -> Nat]
    BY DEF RequestTrade, TypeOK
  <2> QED BY <1>1, <2>1, <2>2, <2>3, <2>4 DEF TypeOK
<1>10. PartnersAgree'
  <2> SUFFICES ASSUME NEW r \in Players
               PROVE  IF tradePartner'[r] = None
                      THEN tradeState'[r] = "NONE" /\ tradeItem'[r] = None
                      ELSE /\ tradeState'[r] \notin {"NONE", "TRANSFER"}
                           /\ r # tradePartner'[r]
                           /\ tradePartner'[tradePartner'[r]] = r
                           /\ {r, tradePartner'[r]} \subseteq online'
    BY DEF PartnersAgree
  <2>1. CASE r \in {p, q}
    <3>1. tradeState[q] # "TRANSFER"
      BY DEF PartnersAgree
    <3> QED BY <1>1, <1>2, <1>6, <2>1, <3>1
  <2>2. CASE r \notin {p, q} /\ tradePartner[r] = None
    BY <1>5, <1>6, <2>2 DEF PartnersAgree
  <2>3. CASE r \notin {p, q} /\ tradePartner[r] # None
    <3>1. PICK o \in Players : o = tradePartner[r]
      BY <2>3 DEF TypeOK
    <3>2. /\ tradePartner[o] = r /\ o # r /\ r \in online /\ o \in online
          /\ tradeState[r] \notin {"NONE", "TRANSFER"}
      BY <2>3, <3>1 DEF PartnersAgree
    <3>3. o \notin {p, q}
      BY <1>2, <1>4, <2>3, <3>2
    <3> QED BY <1>1, <1>2, <1>6, <2>3, <3>1, <3>2, <3>3
  <2> QED BY <2>1, <2>2, <2>3
<1>11. OffersByState'
  <2> SUFFICES ASSUME NEW r \in Players, tradeState'[r] \in {"NONE", "ACKNOWLEDGE"}
               PROVE  tradeItem'[r] = None
    BY DEF OffersByState
  <2>1. r # p
    BY <1>6
  <2>2. tradeState[r] \in {"NONE", "ACKNOWLEDGE"}
    BY <1>6, <2>1
  <2> QED BY <1>5, <2>1, <2>2 DEF OffersByState
<1>12. \A j \in Items :
         tradeItems[j] # None => j # i /\ ~IsHoldingItem(i, j) /\ ~IsHoldingItem(j, i)
  BY <1>1 DEF AlreadyTraded
<1>13. \A r \in Players : tradeItem[r] # None =>
         /\ tradeItem[r] \in Items /\ tradeItem[r] # i
         /\ ~IsHoldingItem(i, tradeItem[r]) /\ ~IsHoldingItem(tradeItem[r], i)
  <2> SUFFICES ASSUME NEW r \in Players, tradeItem[r] # None
               PROVE  /\ tradeItem[r] \in Items /\ tradeItem[r] # i
                      /\ ~IsHoldingItem(i, tradeItem[r]) /\ ~IsHoldingItem(tradeItem[r], i)
    OBVIOUS
  <2>1. PICK j \in Items : j = tradeItem[r]
    BY DEF TypeOK
  <2>2. tradeItems[j] = r
    BY <2>1 DEF OffersRegistered
  <2> QED BY <1>2, <1>12, <2>1, <2>2
<1>14. OffersRegistered'
  <2> SUFFICES ASSUME NEW j \in Items
               PROVE  /\ \A r \in Players : tradeItems'[j] = r <=> tradeItem'[r] = j
                      /\ refs'[j] = IF tradeItems'[j] = None THEN 0 ELSE 1
    BY DEF OffersRegistered
  <2>1. CASE j = i
    <3>1. tradeItems[i] = None /\ refs[i] = 0
      BY <1>12 DEF OffersRegistered
    <3>2. \A r \in Players : tradeItem[r] # i
      BY <1>2, <1>13
    <3> QED BY <1>2, <1>5, <1>7, <2>1, <3>1, <3>2
  <2>2. CASE j # i
    <3>1. j # None
      BY TradeAssumption
    <3> QED BY <1>3, <1>5, <1>7, <2>2, <3>1 DEF OffersRegistered
  <2> QED BY <2>1, <2>2
<1>15. OffersDisjoint'
  <2> SUFFICES ASSUME NEW r \in Players, NEW o \in Players, r # o,
                      tradeItem'[r] # None, tradeItem'[o] # None
               PROVE  (/\ tradeItem[r] # tradeItem[o]
                       /\ ~IsHoldingItem(tradeItem[r], tradeItem[o]))'
    BY DEF OffersDisjoint
  <2>1. PICK a, b : a = tradeItem'[r] /\ b = tradeItem'[o]
    OBVIOUS
  <2>2. a # b /\ ~IsHoldingItem(a, b)
    BY <1>5, <1>13, <2>1 DEF OffersDisjoint
  <2>3. ~IsHoldingItem(a, b)'
    BY <1>1, <2>2 DEF IsHoldingItem
  <2> QED BY <2>1, <2>2, <2>3 DEF IsHoldingItem
<1>16. /\ ItemInRange(1, i, p, pos)
       /\ Chain(i, parent) \cap (Slots(p) \cup {Tile(x) : x \in Spots}) # {}
  <2>1. PICK t : /\ t \in Slots(p) \/ \E y \in Spots : t = Tile(y) /\ InRange(1, y, pos[p])
                 /\ t \in Chain(i, parent)
    BY <1>1 DEF Reaches
  <2>2. InRange(1, pos[p], pos[p])
    BY RangeSymmetric, PositionsAreNumbers
  <2> QED BY <2>1, <2>2 DEF ItemInRange
<1>17. InRange(2, pos[p], pos[q])
  BY <1>1, RangeSymmetric, PositionsAreNumbers
<1>18. OffersAsShown'
  <2> SUFFICES ASSUME NEW r \in Players, tradeItem'[r] # None
               PROVE  (/\ Contents(tradeItem[r]) = shown[r]
                       /\ ItemInRange(1, tradeItem[r], r, pos)
                       /\ InRange(2, pos[r], pos[tradePartner[r]]))'
    BY DEF OffersAsShown
  <2>1. PICK a : a = tradeItem'[r]
    OBVIOUS
  <2>2. PICK o : o = tradePartner'[r]
    OBVIOUS
  <2>3. Contents(a) = shown'[r] /\ ItemInRange(1, a, r, pos) /\ InRange(2, pos[r], pos[o])
    <3>1. CASE r = p
      BY <1>5, <1>6, <1>16, <1>17, <2>1, <2>2, <3>1
    <3>2. CASE r # p
      <4>1. a = tradeItem[r] /\ a # None /\ shown'[r] = shown[r]
        BY <1>5, <2>1, <3>2
      <4>2. tradeState[r] # "NONE"
        BY <4>1 DEF OffersByState
      <4>3. o = tradePartner[r]
        BY <1>4, <1>6, <2>2, <3>2, <4>2
      <4> QED BY <4>1, <4>3 DEF OffersAsShown
    <3> QED BY <3>1, <3>2
  <2>4. Contents(tradeItem[r])' = shown'[r]
    BY <1>1, <2>1, <2>3 DEF Contents, IsHoldingItem
  <2>5. ItemInRange(1, tradeItem[r], r, pos)'
    BY <1>1, <2>1, <2>3 DEF ItemInRange
  <2>6. InRange(2, pos[r], pos[tradePartner[r]])'
    BY <1>1, <2>2, <2>3 DEF InRange
  <2> QED BY <2>4, <2>5, <2>6
<1>19. OffersWithOwner'
  BY <1>1, <1>5, <1>16 DEF OffersWithOwner
<1> QED
  BY <1>9, <1>10, <1>11, <1>14, <1>15, <1>18, <1>19

-----------------------------------------------------------------------------
LEMMA NextKeeps == IInv /\ [Next]_vars => IInv'
<1> SUFFICES ASSUME IInv, [Next]_vars PROVE IInv'
  OBVIOUS
<1>1. ASSUME NEW p \in Players, NEW q \in Players, NEW i \in Items, RequestTrade(p, q, i)
      PROVE  IInv'
  BY <1>1, RequestTradeKeeps
<1>2. ASSUME NEW p \in Players, AcceptFirst(p) \/ AcceptSecond(p) \/ CloseTrade(p)
      PROVE  IInv'
  BY <1>2, AcceptFirstKeeps, AcceptSecondKeeps, CloseTradeKeeps
<1>3. ASSUME NEW m \in Players, NEW i \in Items, MoveItem(m, i) PROVE IInv'
  BY <1>3, MoveItemKeeps
<1>4. ASSUME NEW p \in Players, NEW x \in Spots, MoveCreature(p, x) PROVE IInv'
  BY <1>4, MoveCreatureKeeps
<1>5. ASSUME NEW p \in Players, RemovePlayer(p) PROVE IInv'
  BY <1>5, RemovePlayerKeeps
<1>6. CASE UNCHANGED vars
  <2>1. /\ TypeOK' /\ PartnersAgree' /\ OffersByState' /\ OffersRegistered'
    BY <1>6 DEF vars, tvars, IInv, TypeOK, PartnersAgree, OffersByState, OffersRegistered
  <2>2. OffersDisjoint' /\ OffersAsShown' /\ OffersWithOwner'
    BY <1>6, <2>1, Staying DEF vars, tvars
  <2> QED BY <2>1, <2>2 DEF IInv
<1> QED
  BY <1>1, <1>2, <1>3, <1>4, <1>5, <1>6 DEF Next

(* In every state that trading can reach, partners point at each other and *)
(* are both in the game, the register of offers lists what is offered and  *)
(* by whom, with one reference to each, and no two offers overlap: the     *)
(* books of playerRequestTrade, playerAcceptTrade and internalCloseTrade,  *)
(* for any number of players, items, places and nested containers.         *)
THEOREM OffersAlwaysSound == Spec => []OffersSound
<1>1. IInv => OffersSound
  BY DEF IInv, OffersSound
<1> QED
  BY <1>1, InitInvariant, NextKeeps, PTL DEF Spec

(* What a player is asked to accept is what the player was shown, within   *)
(* reach of its owner, and the partners are near each other: every change  *)
(* that Player::checkTradeState and onCreatureMove have to notice ends the *)
(* trade before anybody can accept.                                        *)
THEOREM OffersStayAsShown == Spec => []OffersAsShown
<1>1. IInv => OffersAsShown
  BY DEF IInv
<1> QED
  BY <1>1, InitInvariant, NextKeeps, PTL DEF Spec

-----------------------------------------------------------------------------
(* WalkCache, which MCWorld calls Cache: a monster's walk cache and the map*)
(* around it.                                                              *)

CacheInv ==
  /\ at \in Cache!Field
  /\ skewed \in BOOLEAN
  /\ Cache!CacheAgrees

(* One square is read again.  Around new, the squares of c but for that one*)
(* are right already.                                                      *)
LEMMA ReadAgain ==
  ASSUME NEW c, NEW new, NEW q, NEW closed, NEW d \in Cache!Window,
         Cache!Plus(new, d) # q => c[d] = Cache!Passable(Cache!Plus(new, d), closed)
  PROVE  Cache!UpdateTileCache(c, new, q, closed)[d] = Cache!Passable(Cache!Plus(new, d), closed)
BY DEF Cache!UpdateTileCache

(* The squares that a step leaves in view, where they are after it.        *)
LEMMA StepMoves ==
  ASSUME at \in Cache!Field, Cache!Agrees,
         NEW dx \in -1 .. 1, NEW dy \in -1 .. 1, ~(dx # 0 /\ dy = 1), dx # 0 \/ dy # 0,
         NEW new, new = <<at[1] + dx, at[2] + dy>>,
         NEW d \in Cache!Window, Cache!Plus(new, d) # at
  PROVE  Cache!MoveColumns(Cache!MoveRows(cache, new, dy), new, dx, dy)[d]
           = Cache!Passable(Cache!Plus(new, d), shut)
<1>1. PICK x \in -CacheReach .. CacheReach, y \in -CacheReach .. CacheReach : d = <<x, y>>
  BY DEF Cache!Window
<1>2. CacheReach \in Nat /\ at[1] \in Int /\ at[2] \in Int
  BY WorldAssumption DEF Cache!Field
<1>3. at = <<at[1], at[2]>>
  BY DEF Cache!Field
<1>4. Cache!Plus(new, d) = <<at[1] + dx + x, at[2] + dy + y>>
  BY <1>1 DEF Cache!Plus
<1>5. x + dx # 0 \/ y + dy # 0
  BY <1>2, <1>3, <1>4
<1>6. ASSUME x + dx \in -CacheReach .. CacheReach, y + dy \in -CacheReach .. CacheReach
      PROVE  cache[<<x + dx, y + dy>>] = Cache!Passable(Cache!Plus(new, d), shut)
  <2>1. <<x + dx, y + dy>> \in Cache!Window \ {<<0, 0>>}
    BY <1>5, <1>6 DEF Cache!Window
  <2>2. Cache!Plus(at, <<x + dx, y + dy>>) = Cache!Plus(new, d)
    BY <1>2, <1>4 DEF Cache!Plus
  <2> QED BY <2>1, <2>2 DEF Cache!Agrees
<1>7. PICK rows : rows = Cache!MoveRows(cache, new, dy)
  OBVIOUS
<1>8. ASSUME NEW e \in Cache!Window
      PROVE  rows[e] = IF dy = 0 THEN cache[e]
                       ELSE IF e[2] = dy * CacheReach THEN Cache!Passable(Cache!Plus(new, e), shut)
                       ELSE cache[<<e[1], e[2] + dy>>]
  BY <1>7 DEF Cache!MoveRows
<1>9. Cache!MoveColumns(rows, new, dx, dy)[d]
        = IF dx = 0 THEN rows[d]
          ELSE IF x = dx * CacheReach THEN Cache!Passable(Cache!Plus(new, d), shut)
          ELSE IF dy # 0 /\ y = -CacheReach THEN rows[d]
          ELSE rows[<<x + dx, y>>]
  BY <1>1 DEF Cache!MoveColumns
<1>10. rows[d] = IF dy = 0 THEN cache[d]
                 ELSE IF y = dy * CacheReach THEN Cache!Passable(Cache!Plus(new, d), shut)
                 ELSE cache[<<x, y + dy>>]
  BY <1>1, <1>8
<1>11. CASE dx = 0
  <2>1. dy = 1 \/ dy = -1
    BY <1>11
  <2>2. y = dy * CacheReach \/ y + dy \in -CacheReach .. CacheReach
    BY <1>2, <2>1
  <2>3. x + dx = x
    BY <1>11
  <2> QED BY <1>6, <1>7, <1>9, <1>10, <1>11, <2>1, <2>2, <2>3
<1>12. CASE dx # 0
  <2>1. (dx = 1 \/ dx = -1) /\ (dy = 0 \/ dy = -1)
    BY <1>12
  <2>2. x = dx * CacheReach \/ x + dx \in -CacheReach .. CacheReach
    BY <1>2, <2>1
  <2>3. CASE x = dx * CacheReach
    BY <1>7, <1>9, <1>12, <2>3
  <2>4. CASE x # dx * CacheReach /\ dy = 0
    <3>1. <<x + dx, y>> \in Cache!Window
      BY <2>2, <2>4 DEF Cache!Window
    <3>2. rows[<<x + dx, y>>] = cache[<<x + dx, y>>] /\ y + dy = y
      BY <1>8, <2>4, <3>1
    <3> QED BY <1>6, <1>7, <1>9, <1>12, <2>2, <2>4, <3>2
  <2>5. CASE x # dx * CacheReach /\ dy = -1
    <3>1. dy * CacheReach = -CacheReach
      BY <1>2, <2>5
    <3>2. CASE y = -CacheReach
      BY <1>7, <1>9, <1>10, <1>12, <2>5, <3>1, <3>2
    <3>3. CASE y # -CacheReach
      <4>1. <<x + dx, y>> \in Cache!Window /\ y + dy \in -CacheReach .. CacheReach
        BY <1>2, <2>2, <2>5, <3>3 DEF Cache!Window
      <4>2. rows[<<x + dx, y>>] = cache[<<x + dx, y + dy>>]
        BY <1>8, <2>5, <3>1, <3>3, <4>1
      <4> QED BY <1>6, <1>7, <1>9, <1>12, <2>2, <2>5, <3>3, <4>1, <4>2
    <3> QED BY <3>2, <3>3
  <2> QED BY <2>1, <2>3, <2>4, <2>5
<1> QED BY <1>11, <1>12

LEMMA CacheStep == CacheInv /\ [Cache!Next]_cachedVars => CacheInv'
<1> SUFFICES ASSUME CacheInv, [Cache!Next]_cachedVars
             PROVE  CacheInv'
  OBVIOUS
<1> USE DEF CacheInv, Cache!CacheAgrees
<1>1. ASSUME NEW dx \in -1 .. 1, NEW dy \in -1 .. 1, Cache!Step(dx, dy)
      PROVE  CacheInv'
  <2>1. PICK new : new = <<at[1] + dx, at[2] + dy>>
    OBVIOUS
  <2>2. /\ new \in Cache!Field /\ new # at /\ at' = new /\ shut' = shut
        /\ cache' = Cache!UpdateTileCache(
              Cache!MoveColumns(Cache!MoveRows(cache, new, dy), new, dx, dy), new, at, shut)
        /\ skewed' = (skewed \/ (dx # 0 /\ dy = 1))
    BY <1>1, <2>1 DEF Cache!Step, Cache!Passable
  <2>3. ASSUME ~skewed' PROVE Cache!Agrees'
    <3>1. Cache!Agrees /\ ~(dx # 0 /\ dy = 1)
      BY <2>2, <2>3
    <3>2. dx # 0 \/ dy # 0
      BY <2>1, <2>2 DEF Cache!Field
    <3>3. ASSUME NEW d \in Cache!Window \ {<<0, 0>>}
          PROVE  cache'[d] = Cache!Passable(Cache!Plus(new, d), shut)
      BY <2>1, <2>2, <3>1, <3>2, StepMoves, ReadAgain
    <3> QED BY <2>2, <3>3 DEF Cache!Agrees
  <2> QED BY <2>2, <2>3
<1>2. ASSUME NEW q \in Cache!Field, Cache!Teleport(q)
      PROVE  CacheInv'
  BY <1>2 DEF Cache!Teleport, Cache!Agrees, Cache!Read
<1>3. ASSUME NEW q \in Cache!Field, Cache!Change(q)
      PROVE  CacheInv'
  <2>1. /\ cache' = Cache!UpdateTileCache(cache, at, q, shut') /\ at' = at /\ skewed' = skewed
        /\ \A p : p # q => (p \in shut' <=> p \in shut)
    BY <1>3 DEF Cache!Change
  <2>2. ASSUME Cache!Agrees, NEW d \in Cache!Window \ {<<0, 0>>}
        PROVE  cache'[d] = Cache!Passable(Cache!Plus(at, d), shut')
    <3>1. Cache!Plus(at, d) # q => cache[d] = Cache!Passable(Cache!Plus(at, d), shut')
      BY <2>1, <2>2 DEF Cache!Agrees, Cache!Passable
    <3> QED BY <2>1, <3>1, ReadAgain
  <2> QED BY <2>1, <2>2 DEF Cache!Agrees
<1>4. ASSUME NEW p \in Cache!Field, NEW q \in Cache!Field, Cache!OtherMoves(p, q)
      PROVE  CacheInv'
  <2>1. /\ cache' = Cache!UpdateTileCache(Cache!UpdateTileCache(cache, at, q, shut'), at, p, shut')
        /\ at' = at /\ skewed' = skewed
        /\ \A o : o # q /\ o # p => (o \in shut' <=> o \in shut)
    BY <1>4 DEF Cache!OtherMoves
  <2>2. ASSUME Cache!Agrees, NEW d \in Cache!Window \ {<<0, 0>>}
        PROVE  cache'[d] = Cache!Passable(Cache!Plus(at, d), shut')
    <3>1. PICK once : once = Cache!UpdateTileCache(cache, at, q, shut')
      OBVIOUS
    <3>2. Cache!Plus(at, d) # p => once[d] = Cache!Passable(Cache!Plus(at, d), shut')
      <4>1. CASE Cache!Plus(at, d) = q
        BY <3>1, <4>1, ReadAgain
      <4>2. CASE Cache!Plus(at, d) # q
        BY <2>1, <2>2, <3>1, <4>2 DEF Cache!Agrees, Cache!Passable, Cache!UpdateTileCache
      <4> QED BY <4>1, <4>2
    <3> QED BY <2>1, <3>1, <3>2, ReadAgain
  <2> QED BY <2>1, <2>2 DEF Cache!Agrees
<1>5. CASE UNCHANGED cachedVars
  BY <1>5 DEF cachedVars, Cache!Agrees
<1> QED BY <1>1, <1>2, <1>3, <1>4, <1>5 DEF Cache!Next

(* Whatever comes, goes or moves, and however the monster steps, the cache *)
(* is the map around it until its first step to the southeast or southwest *)
(* (Creature::onCreatureMove, updateTileCache), on a map of any size.      *)
THEOREM CacheAlwaysAgrees == WorldSpec => []CacheAgrees
<1> DEFINE Inv == scene = "cached" => CacheInv
<1>1. WorldInit => Inv
  BY DEF WorldInit, Cache!Init, Cache!Read, CacheInv, Cache!CacheAgrees, Cache!Agrees
<1>2. Inv /\ [WorldNext]_<<scene, stepsVars, rayVars, areaVars, searchVars, cachedVars>> => Inv'
  <2> SUFFICES ASSUME Inv, scene' = "cached",
                      [WorldNext]_<<scene, stepsVars, rayVars, areaVars, searchVars, cachedVars>>
               PROVE  CacheInv'
    OBVIOUS
  <2>1. scene = "cached" /\ [Cache!Next]_cachedVars
    BY DEF WorldNext
  <2> QED BY <2>1, CacheStep
<1>3. Inv => CacheAgrees
  BY DEF CacheInv, CacheAgrees
<1> QED BY <1>1, <1>2, <1>3, PTL DEF WorldSpec

-----------------------------------------------------------------------------
(* SightLine (Sight): the numbers of one turn of the loop.  The way is a up*)
(* or down and b to the side, of which v and u are left; n is what the line*)
(* says of the square, with the sign by which it grows to the side.        *)

Bare(x) == IF x < 0 THEN -x ELSE x

Near(a, b, n) == 2 * Bare(n) <= (IF b > a THEN b ELSE a) /\ (a = b => n = 0)

Down(a, b, n, u, v) ==
  IF v # 0 /\ (u = 0 \/ Bare(n - a) > Bare(n + b) \/ Bare(n - a) > Bare(n + b - a)) THEN v - 1 ELSE v

Sideward(a, b, n, u, v) ==
  IF u # 0 /\ (v = 0 \/ Bare(n + b) > Bare(n - a) \/ Bare(n + b) > Bare(n + b - a)) THEN u - 1 ELSE u

(* A turn to the side, and one that goes both ways, when the way to the    *)
(* side is the longer one.                                                 *)
LEMMA SideTurn ==
  ASSUME NEW a \in Nat, NEW b \in Nat, b > a, NEW n \in Int, Near(a, b, n)
  PROVE  /\ Bare(n - a) \in Nat /\ Bare(n + b) \in Nat /\ Bare(n + b - a) \in Nat
         /\ \/ n >= a
            \/ Bare(n - a) <= Bare(n + b) /\ Bare(n - a) <= Bare(n + b - a)
            => Near(a, b, n - a)
         /\ \/ Bare(n - a) > Bare(n + b)
            \/ Bare(n - a) > Bare(n + b - a)
            => Near(a, b, n + b - a)
<1>1. Bare(n - a) \in Nat /\ Bare(n + b) \in Nat /\ Bare(n + b - a) \in Nat
  BY DEF Bare
<1>2. n >= a => Near(a, b, n - a)
  BY DEF Near, Bare
<1>3. Bare(n - a) <= Bare(n + b - a) => Near(a, b, n - a)
  BY DEF Near, Bare
<1>4. Bare(n - a) > Bare(n + b) => Near(a, b, n + b - a)
  BY DEF Near, Bare
<1>5. Bare(n - a) > Bare(n + b - a) => Near(a, b, n + b - a)
  BY DEF Near, Bare
<1> QED BY <1>1, <1>2, <1>3, <1>4, <1>5

Nearer(a, b, u, v, n, w, x) ==
  /\ w \in {v, v - 1} /\ x \in {u, u - 1} /\ w \in Nat /\ x \in Nat
  /\ a >= b => w = v - 1
  /\ b >= a => x = u - 1
  /\ w = v - 1 /\ x = u => Near(a, b, n + b)
  /\ w = v /\ x = u - 1 => Near(a, b, n - a)
  /\ w = v - 1 /\ x = u - 1 => Near(a, b, n + b - a)

(* A turn, given what n is at the end of either way.                       *)
LEMMA LinearTurn ==
  ASSUME NEW a \in Nat, NEW b \in Nat, NEW u \in 0 .. b, NEW v \in 0 .. a, u # 0 \/ v # 0,
         NEW n \in Int, Near(a, b, n), u = 0 => n <= -b, v = 0 => n >= a,
         v = 1 /\ u # 0 => n + b >= a, a = b => u = v,
         NEW w, w = Down(a, b, n, u, v), NEW x, x = Sideward(a, b, n, u, w)
  PROVE  Nearer(a, b, u, v, n, w, x)
<1> USE DEF Nearer
<1>0. w \in {v, v - 1} /\ x \in {u, u - 1} /\ w \in Nat /\ x \in Nat
  BY DEF Down, Sideward
<1>1. CASE a > b
  <2>1. v # 0
    BY <1>1 DEF Near, Bare
  <2>2. w = v - 1
    BY <1>1, <2>1 DEF Near, Down, Bare
  <2>3. CASE x = u
    BY <1>0, <1>1, <2>1, <2>2, <2>3 DEF Near, Sideward, Bare
  <2>4. CASE x = u - 1
    BY <1>0, <1>1, <2>1, <2>2, <2>4 DEF Near, Sideward, Bare
  <2> QED BY <1>0, <1>1, <2>2, <2>3, <2>4
<1>2. CASE b > a
  <2>1. u # 0
    BY <1>2 DEF Near, Bare
  <2>2. x = u - 1
    BY <1>2, <2>1 DEF Near, Sideward, Down, Bare
  <2>3. CASE w = v
    <3>1. \/ v = 0
          \/ ~(Bare(n - a) > Bare(n + b)) /\ ~(Bare(n - a) > Bare(n + b - a))
      BY <2>3 DEF Down
    <3>2. Near(a, b, n - a)
      BY <1>2, <3>1, SideTurn
    <3> QED BY <1>0, <1>2, <2>2, <2>3, <3>2
  <2>4. CASE w = v - 1
    <3>1. Bare(n - a) > Bare(n + b) \/ Bare(n - a) > Bare(n + b - a)
      BY <2>1, <2>4 DEF Down
    <3>2. Near(a, b, n + b - a)
      BY <1>2, <3>1, SideTurn
    <3> QED BY <1>0, <1>2, <2>2, <2>4, <3>2
  <2> QED BY <1>0, <1>2, <2>2, <2>3, <2>4
<1>3. CASE a = b
  <2>1. u # 0 /\ v # 0 /\ n = 0 /\ a > 0
    BY <1>3 DEF Near, Bare
  <2>2. w = v - 1 /\ x = u - 1
    BY <1>3, <2>1 DEF Down, Sideward, Bare
  <2> QED BY <1>0, <1>3, <2>1, <2>2 DEF Near, Bare
<1> QED BY <1>1, <1>2, <1>3


(* The longer way is made shorter in each turn, and the square stays near. *)
LEMMA Turn ==
  ASSUME NEW a \in Nat, NEW b \in Nat, NEW u \in 0 .. b, NEW v \in 0 .. a, u # 0 \/ v # 0,
         NEW n, n = a * u - b * v, Near(a, b, n),
         NEW w, w = Down(a, b, n, u, v), NEW x, x = Sideward(a, b, n, u, w)
  PROVE  Nearer(a, b, u, v, n, w, x)
<1>a. n \in Int
  OBVIOUS
<1>b. u = 0 => n <= -b
  <2> SUFFICES ASSUME u = 0 PROVE b <= b * v
    OBVIOUS
  <2>1. v - 1 \in Nat /\ b * v = b * (v - 1) + b
    OBVIOUS
  <2>2. b * (v - 1) \in Nat
    BY <2>1
  <2> QED BY <2>1, <2>2
<1>c. v = 0 => n >= a
  <2> SUFFICES ASSUME v = 0 PROVE a <= a * u
    OBVIOUS
  <2>1. u - 1 \in Nat /\ a * u = a * (u - 1) + a
    OBVIOUS
  <2>2. a * (u - 1) \in Nat
    BY <2>1
  <2> QED BY <2>1, <2>2
<1>d. v = 1 /\ u # 0 => n + b >= a
  <2> SUFFICES ASSUME v = 1, u # 0 PROVE a <= a * u
    OBVIOUS
  <2>1. u - 1 \in Nat /\ a * u = a * (u - 1) + a
    OBVIOUS
  <2>2. a * (u - 1) \in Nat
    BY <2>1
  <2> QED BY <2>1, <2>2
<1>e. a = b => u = v
  <2> SUFFICES ASSUME a = b PROVE u = v
    OBVIOUS
  <2>1. a > 0 /\ u - v \in Int
    OBVIOUS
  <2>2. a * (u - v) = 0
    BY DEF Near
  <2> QED BY <2>1, <2>2
<1> QED BY <1>a, <1>b, <1>c, <1>d, <1>e, LinearTurn, Zenon

(* How far the square p is from the target to the side and up or down.     *)
Aside(p) == Bare(rayTo[1] - p[1])
Ahead(p) == Bare(rayTo[2] - p[2])

InSpan(lo, x, hi) == (lo <= x /\ x <= hi) \/ (hi <= x /\ x <= lo)
InBox(p) == InSpan(rayFrom[1], p[1], rayTo[1]) /\ InSpan(rayFrom[2], p[2], rayTo[2])

LEMMA LineOf ==
  ASSUME NEW a1 \in Int, NEW a2 \in Int, NEW b1 \in Int, NEW b2 \in Int, NEW x \in Int, NEW y \in Int,
         InSpan(a1, x, b1), InSpan(a2, y, b2)
  PROVE  Bare((b2 - a2) * x + (a1 - b1) * y - ((b2 - a2) * b1 + (a1 - b1) * b2))
           = Bare(Bare(b2 - a2) * Bare(b1 - x) - Bare(b1 - a1) * Bare(b2 - y))
<1>1. PICK b \in Int, u \in Int : a1 = b1 + b /\ x = b1 + u
  <2>1. a1 - b1 \in Int /\ a1 = b1 + (a1 - b1) /\ x - b1 \in Int /\ x = b1 + (x - b1)
    OBVIOUS
  <2> QED BY <2>1
<1>2. PICK a \in Int, v \in Int : a2 = b2 + a /\ y = b2 + v
  <2>1. a2 - b2 \in Int /\ a2 = b2 + (a2 - b2) /\ y - b2 \in Int /\ y = b2 + (y - b2)
    OBVIOUS
  <2> QED BY <2>1
<1>3. (b2 - a2) * x + (a1 - b1) * y - ((b2 - a2) * b1 + (a1 - b1) * b2) = b * v - a * u
  <2>1. b2 - a2 = -a /\ a1 - b1 = b
    BY <1>1, <1>2
  <2>2. (-a) * (b1 + u) + b * (b2 + v) - ((-a) * b1 + b * b2) = b * v - a * u
    OBVIOUS
  <2> QED BY <1>1, <1>2, <2>1, <2>2
<1>4. /\ b2 - a2 = -a /\ b1 - x = -u /\ b1 - a1 = -b /\ b2 - y = -v
      /\ (0 <= b /\ 0 <= u) \/ (b <= 0 /\ u <= 0)
      /\ (0 <= a /\ 0 <= v) \/ (a <= 0 /\ v <= 0)
  BY <1>1, <1>2 DEF InSpan
<1>5. PICK c : c = b * v - a * u
  OBVIOUS
<1>6. c \in Int /\ a * u = (-a) * (-u) /\ b * v = (-b) * (-v) /\ a * (-u) = -(a * u)
      /\ (-a) * u = -(a * u) /\ b * (-v) = -(b * v) /\ (-b) * v = -(b * v)
  BY <1>5
<1>7. Bare(-a) * Bare(-u) - Bare(-b) * Bare(-v) \in {c, -c}
  <2>1. CASE a >= 0 /\ u >= 0 /\ b >= 0 /\ v >= 0
    BY <1>5, <1>6, <2>1 DEF Bare
  <2>2. CASE a <= 0 /\ v <= 0 /\ b >= 0 /\ u >= 0
    BY <1>5, <1>6, <2>2 DEF Bare
  <2>3. CASE a >= 0 /\ v >= 0 /\ b <= 0 /\ u <= 0
    BY <1>5, <1>6, <2>3 DEF Bare
  <2>4. CASE a <= 0 /\ v <= 0 /\ b <= 0 /\ u <= 0
    BY <1>5, <1>6, <2>4 DEF Bare
  <2> QED BY <1>4, <2>1, <2>2, <2>3, <2>4
<1>8. Bare(c) = Bare(Bare(-a) * Bare(-u) - Bare(-b) * Bare(-v))
  BY <1>6, <1>7 DEF Bare
<1> QED BY <1>3, <1>4, <1>5, <1>8

(* What the line says of a square between its ends.                        *)
Said(p) == Ahead(rayFrom) * Aside(p) - Aside(rayFrom) * Ahead(p)

LEMMA LineSays ==
  ASSUME rayFrom \in Int \X Int, rayTo \in Int \X Int, NEW p \in Int \X Int, InBox(p)
  PROVE  Sight!Magnitude(Sight!Line(p[1], p[2])) = Bare(Said(p))
<1>1. PICK f1 \in Int, f2 \in Int, t1 \in Int, t2 \in Int, x \in Int, y \in Int :
        rayFrom = <<f1, f2>> /\ rayTo = <<t1, t2>> /\ p = <<x, y>>
  OBVIOUS
<1>2. Sight!Line(x, y) = (t2 - f2) * x + (f1 - t1) * y - ((t2 - f2) * t1 + (f1 - t1) * t2)
  BY <1>1 DEF Sight!Line
<1>3. Bare(Sight!Line(x, y)) = Bare(Bare(t2 - f2) * Bare(t1 - x) - Bare(t1 - f1) * Bare(t2 - y))
  BY <1>1, <1>2, LineOf DEF InBox
<1>4. Said(p) = Bare(t2 - f2) * Bare(t1 - x) - Bare(t1 - f1) * Bare(t2 - y)
  BY <1>1 DEF Said, Aside, Ahead
<1>5. Sight!Magnitude(Sight!Line(x, y)) = Bare(Sight!Line(x, y))
  BY DEF Sight!Magnitude, Bare
<1> QED BY <1>1, <1>3, <1>4, <1>5

SightInv ==
  /\ rayFrom \in Int \X Int /\ rayTo \in Int \X Int /\ ray \in Int \X Int
  /\ InBox(ray)
  /\ Near(Ahead(rayFrom), Aside(rayFrom), Said(ray))
  /\ IsFiniteSet(crossed)
  /\ Cardinality(crossed) <= IF Aside(rayFrom) > Ahead(rayFrom)
                             THEN Aside(rayFrom) - Aside(ray) ELSE Ahead(rayFrom) - Ahead(ray)

(* The next square, by what is left of the way.                            *)
LEMMA NextIs ==
  ASSUME SightInv, ray # rayTo,
         NEW w, w = Down(Ahead(rayFrom), Aside(rayFrom), Said(ray), Aside(ray), Ahead(ray)),
         NEW next, next = Sight!NextSquare(ray)
  PROVE  /\ next \in Int \X Int /\ InBox(next)
         /\ Ahead(next) = w
         /\ Aside(next) = Sideward(Ahead(rayFrom), Aside(rayFrom), Said(ray), Aside(ray), w)
<1>1. PICK f1 \in Int, f2 \in Int, t1 \in Int, t2 \in Int, p1 \in Int, p2 \in Int :
        rayFrom = <<f1, f2>> /\ rayTo = <<t1, t2>> /\ ray = <<p1, p2>>
  BY DEF SightInv
<1>2. InSpan(f1, p1, t1) /\ InSpan(f2, p2, t2)
  BY <1>1 DEF SightInv, InBox
<1>3. PICK mx, my : mx = Sight!Toward(f1, t1) /\ my = Sight!Toward(f2, t2)
  OBVIOUS
<1>4. PICK a, b, u, v, n : /\ a = Ahead(rayFrom) /\ b = Aside(rayFrom)
                           /\ u = Aside(ray) /\ v = Ahead(ray) /\ n = Said(ray)
  OBVIOUS
<1>5. a = Bare(t2 - f2) /\ b = Bare(t1 - f1) /\ u = Bare(t1 - p1) /\ v = Bare(t2 - p2)
  BY <1>1, <1>4 DEF Ahead, Aside
<1>6. n = a * u - b * v
  BY <1>4 DEF Said
<1>7. p1 # t1 => /\ mx \in Int /\ InSpan(f1, p1 + mx, t1) /\ Bare(t1 - (p1 + mx)) = u - 1
  <2>1. f1 < t1 => mx = 1
    BY <1>3 DEF Sight!Toward
  <2>2. t1 < f1 => mx = -1
    BY <1>3 DEF Sight!Toward
  <2>3. CASE f1 < t1
    BY <1>2, <1>5, <2>1, <2>3 DEF InSpan, Bare
  <2>4. CASE t1 < f1
    BY <1>2, <1>5, <2>2, <2>4 DEF InSpan, Bare
  <2>5. CASE f1 = t1
    BY <1>2, <2>5 DEF InSpan
  <2> QED BY <2>3, <2>4, <2>5
<1>8. p2 # t2 => /\ my \in Int /\ InSpan(f2, p2 + my, t2) /\ Bare(t2 - (p2 + my)) = v - 1
  <2>1. f2 < t2 => my = 1
    BY <1>3 DEF Sight!Toward
  <2>2. t2 < f2 => my = -1
    BY <1>3 DEF Sight!Toward
  <2>3. CASE f2 < t2
    BY <1>2, <1>5, <2>1, <2>3 DEF InSpan, Bare
  <2>4. CASE t2 < f2
    BY <1>2, <1>5, <2>2, <2>4 DEF InSpan, Bare
  <2>5. CASE f2 = t2
    BY <1>2, <2>5 DEF InSpan
  <2> QED BY <2>3, <2>4, <2>5
<1>9. PICK hor, ver, cross :
        /\ hor = Sight!Magnitude(Sight!Line(p1 + mx, p2))
        /\ ver = Sight!Magnitude(Sight!Line(p1, p2 + my))
        /\ cross = Sight!Magnitude(Sight!Line(p1 + mx, p2 + my))
  OBVIOUS
<1>10. ASSUME NEW x \in Int, NEW y \in Int, InSpan(f1, x, t1), InSpan(f2, y, t2)
       PROVE  Sight!Magnitude(Sight!Line(x, y)) = Bare(a * Bare(t1 - x) - b * Bare(t2 - y))
  <2>1. PICK p : p = <<x, y>>
    OBVIOUS
  <2>2. p \in Int \X Int /\ p[1] = x /\ p[2] = y /\ InBox(p)
    BY <1>1, <1>10, <2>1 DEF InBox
  <2>3. Said(p) = a * Bare(t1 - x) - b * Bare(t2 - y)
    BY <1>1, <1>4, <2>2 DEF Said, Aside, Ahead
  <2> QED BY <2>2, <2>3, LineSays DEF SightInv
<1>11. a \in Int /\ b \in Int /\ u \in Int /\ v \in Int /\ n \in Int
  BY <1>5, <1>6 DEF Bare
<1>12. /\ a * (u - 1) - b * v = n - a /\ a * u - b * (v - 1) = n + b
       /\ a * (u - 1) - b * (v - 1) = n + b - a
  BY <1>6, <1>11
<1>13. p1 # t1 /\ p2 # t2 => hor = Bare(n - a) /\ ver = Bare(n + b) /\ cross = Bare(n + b - a)
  BY <1>2, <1>5, <1>7, <1>8, <1>9, <1>10, <1>12
<1>14. (p1 = t1 <=> u = 0) /\ (p2 = t2 <=> v = 0)
  BY <1>5 DEF Bare
<1>15. PICK y : y = IF p2 # t2 /\ (p1 = t1 \/ hor > ver \/ hor > cross) THEN p2 + my ELSE p2
  OBVIOUS
<1>16. w = IF p2 # t2 /\ (p1 = t1 \/ hor > ver \/ hor > cross) THEN v - 1 ELSE v
  BY <1>4, <1>13, <1>14 DEF Down
<1>17. y \in Int /\ InSpan(f2, y, t2) /\ Bare(t2 - y) = w
  BY <1>2, <1>5, <1>8, <1>15, <1>16
<1>18. y = t2 <=> w = 0
  BY <1>17 DEF Bare
<1>19. PICK x : x = IF p1 # t1 /\ (y = t2 \/ ver > hor \/ ver > cross) THEN p1 + mx ELSE p1
  OBVIOUS
<1>20. y # t2 => p2 # t2
  BY <1>15
<1>21. /\ x \in Int /\ InSpan(f1, x, t1)
       /\ Bare(t1 - x) = Sideward(a, b, n, u, w)
  BY <1>2, <1>5, <1>7, <1>13, <1>14, <1>18, <1>19, <1>20 DEF Sideward
<1>22. next = <<x, y>>
  BY <1>1, <1>3, <1>9, <1>15, <1>19 DEF Sight!NextSquare
<1> QED BY <1>1, <1>4, <1>17, <1>21, <1>22 DEF InBox, Aside, Ahead

(* A turn, and what remains.                                               *)
LEMMA TurnKeeps ==
  ASSUME SightInv, ray # rayTo, NEW next, next = Sight!NextSquare(ray)
  PROVE  /\ next \in Int \X Int /\ InBox(next) /\ next # ray
         /\ Near(Ahead(rayFrom), Aside(rayFrom), Said(next))
         /\ Ahead(rayFrom) >= Aside(rayFrom) => Ahead(next) = Ahead(ray) - 1
         /\ Aside(rayFrom) >= Ahead(rayFrom) => Aside(next) = Aside(ray) - 1
<1>1. PICK a, b, u, v, n : /\ a = Ahead(rayFrom) /\ b = Aside(rayFrom)
                           /\ u = Aside(ray) /\ v = Ahead(ray) /\ n = Said(ray)
  OBVIOUS
<1>2. PICK w, x : w = Down(a, b, n, u, v) /\ x = Sideward(a, b, n, u, w)
  OBVIOUS
<1>3. next \in Int \X Int /\ InBox(next) /\ Ahead(next) = w /\ Aside(next) = x
  BY <1>1, <1>2, NextIs
<1>4. a \in Nat /\ b \in Nat /\ u \in 0 .. b /\ v \in 0 .. a /\ (u # 0 \/ v # 0)
  BY <1>1 DEF SightInv, InBox, InSpan, Aside, Ahead, Bare
<1>5. n = a * u - b * v /\ Near(a, b, n)
  BY <1>1 DEF SightInv, Said
<1>5a. Nearer(a, b, u, v, n, w, x)
  BY <1>2, <1>4, <1>5, Turn
<1>6. /\ w \in {v, v - 1} /\ x \in {u, u - 1} /\ w \in Nat /\ x \in Nat
      /\ a >= b => w = v - 1
      /\ b >= a => x = u - 1
      /\ w = v - 1 /\ x = u => Near(a, b, n + b)
      /\ w = v /\ x = u - 1 => Near(a, b, n - a)
      /\ w = v - 1 /\ x = u - 1 => Near(a, b, n + b - a)
  BY <1>5a DEF Nearer
<1>7. Said(next) = a * x - b * w
  BY <1>1, <1>3 DEF Said
<1>8. /\ a * (u - 1) - b * v = n - a /\ a * u - b * (v - 1) = n + b
      /\ a * (u - 1) - b * (v - 1) = n + b - a
  BY <1>4, <1>5
<1>9. Near(a, b, Said(next))
  BY <1>4, <1>6, <1>7, <1>8
<1>10. next # ray
  BY <1>1, <1>3, <1>4, <1>6
<1> QED BY <1>1, <1>3, <1>6, <1>9, <1>10

LEMMA SightStep == SightInv /\ [Sight!Next]_rayVars => SightInv'
<1> SUFFICES ASSUME SightInv, [Sight!Next]_rayVars
             PROVE  SightInv'
  OBVIOUS
<1>1. CASE Sight!Advance
  <2>1. PICK next : next = Sight!NextSquare(ray)
    OBVIOUS
  <2>2. /\ ray # rayTo /\ ray' = next /\ crossed' = crossed \cup {next}
        /\ rayFrom' = rayFrom /\ rayTo' = rayTo
    BY <1>1, <2>1 DEF Sight!Advance
  <2>3. IsFiniteSet(crossed') /\ Cardinality(crossed') <= Cardinality(crossed) + 1
    <3>1. PICK was : was = crossed
      OBVIOUS
    <3>2. IsFiniteSet(was) /\ Cardinality(was) \in Nat
      BY <3>1, FS_CardinalityType DEF SightInv
    <3>3. /\ IsFiniteSet(was \cup {next})
          /\ Cardinality(was \cup {next}) = Cardinality(was) \/ Cardinality(was \cup {next}) = Cardinality(was) + 1
      BY <3>2, FS_AddElement
    <3> QED BY <2>2, <3>1, <3>2, <3>3
  <2>4. Cardinality(crossed) \in Nat /\ Cardinality(crossed') \in Nat
    BY <2>3, FS_CardinalityType DEF SightInv
  <2>5. /\ Aside(rayFrom) \in Int /\ Ahead(rayFrom) \in Int
        /\ Aside(ray) \in Int /\ Ahead(ray) \in Int
    BY DEF SightInv, Aside, Ahead, Bare
  <2>6. Cardinality(crossed') <= IF Aside(rayFrom) > Ahead(rayFrom)
                                 THEN Aside(rayFrom) - Aside(next) ELSE Ahead(rayFrom) - Ahead(next)
    BY <2>1, <2>2, <2>3, <2>4, <2>5, TurnKeeps DEF SightInv
  <2>7. /\ next \in Int \X Int /\ InBox(next)
        /\ Near(Ahead(rayFrom), Aside(rayFrom), Said(next))
    BY <2>1, <2>2, TurnKeeps
  <2> QED BY <2>2, <2>3, <2>6, <2>7 DEF SightInv, InBox, Said, Aside, Ahead
<1>2. CASE UNCHANGED <<rayFrom, rayTo, ray, crossed>>
  BY <1>2 DEF SightInv, InBox, Said, Aside, Ahead
<1> QED BY <1>1, <1>2 DEF Sight!Next, Sight!Arrive, rayVars

LEMMA SightSound == SightInv => Sight!RayStaysOnLine
<1> SUFFICES ASSUME SightInv PROVE Sight!RayStaysOnLine
  OBVIOUS
<1>1. /\ Sight!Magnitude(rayTo[1] - rayFrom[1]) = Aside(rayFrom)
      /\ Sight!Magnitude(rayTo[2] - rayFrom[2]) = Ahead(rayFrom)
  BY DEF Sight!Magnitude, Aside, Ahead, Bare
<1>2. /\ InSpan(rayFrom[1], ray[1], rayTo[1]) /\ InSpan(rayFrom[2], ray[2], rayTo[2])
  BY DEF SightInv, InBox
<1>3. 2 * Sight!Magnitude(Sight!Line(ray[1], ray[2]))
        <= IF Aside(rayFrom) > Ahead(rayFrom) THEN Aside(rayFrom) ELSE Ahead(rayFrom)
  BY LineSays DEF SightInv, Near
<1>4. ray # rayTo => Sight!NextSquare(ray) # ray
  BY TurnKeeps
<1>5. Cardinality(crossed) <= IF Aside(rayFrom) > Ahead(rayFrom) THEN Aside(rayFrom) ELSE Ahead(rayFrom)
  BY SMTT(30), FS_CardinalityType DEF SightInv, Aside, Ahead, Bare
<1>6. Sight!Cardinality(crossed) = Cardinality(crossed)
  BY Zenon DEF Sight!Cardinality, Cardinality
<1> QED BY <1>1, <1>2, <1>3, <1>4, <1>5, <1>6 DEF Sight!RayStaysOnLine, InSpan

(* However far the target is, the loop of Map::checkSightLine, which has no*)
(* bound but its arithmetic, ends there: each turn makes the longer way to *)
(* it shorter, and the square is never off the line by more than half.     *)
THEOREM RayAlwaysOnLine == WorldSpec => []RayStaysOnLine
<1> DEFINE Inv == scene = "ray" => SightInv
<1>1. WorldInit => Inv
  <2> SUFFICES ASSUME Sight!Init PROVE SightInv
    BY DEF WorldInit
  <2>1. /\ rayFrom \in Int \X Int /\ rayTo \in Int \X Int /\ ray = rayFrom /\ crossed = {}
    BY WorldAssumption DEF Sight!Init, Sight!Square
  <2>2. InBox(ray)
    BY <2>1 DEF InBox, InSpan
  <2>3. Ahead(rayFrom) \in Nat /\ Aside(rayFrom) \in Nat
    BY <2>1 DEF Ahead, Aside, Bare
  <2>4. Said(ray) = 0
    BY <2>1, <2>3 DEF Said
  <2>5. Near(Ahead(rayFrom), Aside(rayFrom), 0)
    BY <2>3 DEF Near, Bare
  <2> QED BY <2>1, <2>2, <2>3, <2>4, <2>5, FS_EmptySet DEF SightInv
<1>2. Inv /\ [WorldNext]_<<scene, stepsVars, rayVars, areaVars, searchVars, cachedVars>> => Inv'
  <2> SUFFICES ASSUME Inv, scene' = "ray",
                      [WorldNext]_<<scene, stepsVars, rayVars, areaVars, searchVars, cachedVars>>
               PROVE  SightInv'
    OBVIOUS
  <2>1. scene = "ray" /\ [Sight!Next]_rayVars
    BY DEF WorldNext
  <2> QED BY <2>1, SightStep
<1>3. Inv => RayStaysOnLine
  BY SightSound DEF RayStaysOnLine
<1> QED BY <1>1, <1>2, <1>3, PTL DEF WorldSpec

-----------------------------------------------------------------------------
(* MonsterSteps (Steps).                                                   *)

Moves == (-1 .. 1) \X (-1 .. 1)
Four == {<<0, -1>>, <<1, 0>>, <<0, 1>>, <<-1, 0>>}

(* A set of numbers has a least one.                                       *)
LEMMA LeastOf ==
  ASSUME NEW S, S \subseteq Nat, S # {}
  PROVE  \E i \in S : \A j \in S : i <= j
<1>1. IsWellFoundedOn(OpToRel(<, Nat), Nat)
  BY NatLessThanWellFounded
<1>2. PICK i \in S : \A j \in S : ~ (<<j, i>> \in OpToRel(<, Nat))
  BY <1>1, WFMin, Zenon
<1>3. ASSUME NEW j \in S PROVE i <= j
  <2>1. i \in Nat /\ j \in Nat
    OBVIOUS
  <2>2. j < i => <<j, i>> \in OpToRel(<, Nat)
    BY <2>1 DEF OpToRel
  <2>3. ~(<<j, i>> \in OpToRel(<, Nat))
    BY <1>2, Zenon
  <2>4. ~(j < i)
    BY <2>2, <2>3, Zenon
  <2> QED BY <2>1, <2>4
<1> QED BY <1>3

LEMMA FirstOpenIs ==
  ASSUME NEW W, NEW sets \in Seq(SUBSET Moves), NEW d \in Steps!FirstOpen(W, sets)
  PROVE  \/ d = Steps!Stay
         \/ \E i \in 1 .. Len(sets) :
              d \in sets[i] /\ d \in W /\ \A j \in 1 .. (i - 1) : sets[j] \cap W = {}
<1>1. PICK usable : usable = {i \in 1 .. Len(sets) : sets[i] \cap W # {}}
  OBVIOUS
<1>2. usable = {} => d = Steps!Stay
  BY <1>1 DEF Steps!FirstOpen
<1>3. CASE usable # {}
  <2>1. usable \subseteq Nat
    BY <1>1
  <2>2. PICK k : k = CHOOSE i \in usable : \A j \in usable : i <= j
    OBVIOUS
  <2>3. k \in usable /\ \A j \in usable : k <= j
    BY <1>3, <2>1, <2>2, LeastOf
  <2>4. d \in sets[k] \cap W
    BY <1>1, <1>3, <2>2 DEF Steps!FirstOpen
  <2>5. \A j \in 1 .. (k - 1) : j \notin usable
    BY <1>1, <2>3
  <2>6. Len(sets) \in Nat
    OBVIOUS
  <2> QED BY <1>1, <2>3, <2>4, <2>5, <2>6
<1> QED BY <1>2, <1>3

LEMMA Joined ==
  ASSUME NEW E, NEW s \in Seq(E), NEW t \in Seq(E)
  PROVE  /\ s \o t \in Seq(E) /\ Len(s \o t) = Len(s) + Len(t)
         /\ Len(s) \in Nat /\ Len(t) \in Nat
         /\ \A i \in 1 .. Len(s) : (s \o t)[i] = s[i]
         /\ \A i \in 1 .. Len(t) : (s \o t)[Len(s) + i] = t[i]
OBVIOUS

(* The steps of StraightEscape leave the target's sides as they are, but   *)
(* the last.                                                               *)
LEMMA EscapeIs ==
  ASSUME NEW a \in Moves, NEW l \in Moves, NEW r \in Moves, NEW o, NEW first, first \in {l, r},
         Steps!Plus(a, l) \in Moves, Steps!Plus(a, r) \in Moves, Steps!Minus(a) \in Moves,
         NEW W, NEW flee \in BOOLEAN, NEW d \in Steps!StraightEscape(a, l, r, o, first, W, flee)
  PROVE  \/ d = Steps!Stay
         \/ d \in W /\ d \in {a, l, r, Steps!Plus(a, l), Steps!Plus(a, r)}
         \/ d \in W /\ flee /\ d = Steps!Minus(a) /\ {a, l, r} \cap W = {}
<1>1. PICK second : second = IF first = l THEN r ELSE l
  OBVIOUS
<1>2. PICK corners : corners = {Steps!Plus(a, l), Steps!Plus(a, r)}
  OBVIOUS
<1>3. PICK begin : begin = <<{a}, Steps!SidesAway(l, r, o), IF flee THEN {l, r} ELSE {}>>
  OBVIOUS
<1>4. PICK middle : middle = IF corners \subseteq W THEN <<corners>>
            ELSE IF corners \cap W = {} THEN << >>
            ELSE <<{first}, {Steps!Plus(a, first)}, {second}, {Steps!Plus(a, second)}>>
  OBVIOUS
<1>5. PICK last : last = <<IF flee THEN {Steps!Minus(a)} ELSE {}>>
  OBVIOUS
<1>6. PICK kept : kept = {a, l, r, Steps!Plus(a, l), Steps!Plus(a, r)}
  OBVIOUS
<1>7. second \in {l, r} /\ kept \subseteq Moves
  BY <1>1, <1>6
<1>8. begin \in Seq(SUBSET Moves) /\ Len(begin) = 3 /\ begin[1] = {a} /\ (flee => begin[3] = {l, r})
      /\ \A i \in 1 .. 3 : begin[i] \subseteq kept
  <2>1. Steps!SidesAway(l, r, o) \subseteq {l, r}
    BY DEF Steps!SidesAway
  <2>2. PICK s, f : s = Steps!SidesAway(l, r, o) /\ f = IF flee THEN {l, r} ELSE {}
    OBVIOUS
  <2>3. {a} \in SUBSET Moves /\ s \in SUBSET Moves /\ f \in SUBSET Moves
    BY <2>1, <2>2
  <2>4. begin = <<{a}, s, f>>
    BY <1>3, <2>2
  <2> QED BY <1>6, <2>1, <2>2, <2>3, <2>4
<1>9. middle \in Seq(SUBSET Moves) /\ \A i \in 1 .. Len(middle) : middle[i] \subseteq kept
  <2>1. CASE corners \subseteq W
    BY <1>2, <1>4, <1>6, <1>7, <2>1
  <2>2. CASE ~(corners \subseteq W) /\ corners \cap W = {}
    BY <1>4, <2>2
  <2>3. CASE ~(corners \subseteq W) /\ corners \cap W # {}
    <3>1. PICK p, q : p = Steps!Plus(a, first) /\ q = Steps!Plus(a, second)
      OBVIOUS
    <3>2. middle = <<{first}, {p}, {second}, {q}>>
      BY <1>4, <2>3, <3>1
    <3>3. {first} \subseteq kept /\ {p} \subseteq kept /\ {second} \subseteq kept /\ {q} \subseteq kept
      BY <1>6, <1>7, <3>1
    <3> QED BY <1>7, <3>2, <3>3
  <2> QED BY <2>1, <2>2, <2>3
<1>10. last \in Seq(SUBSET Moves) /\ Len(last) = 1 /\ last[1] = IF flee THEN {Steps!Minus(a)} ELSE {}
  BY <1>5
<1>11. PICK sets : sets = begin \o middle \o last
  OBVIOUS
<1>12. d \in Steps!FirstOpen(W, sets)
  BY <1>1, <1>2, <1>3, <1>4, <1>5, <1>11 DEF Steps!StraightEscape
<1>13. /\ sets \in Seq(SUBSET Moves) /\ Len(sets) = 4 + Len(middle) /\ Len(middle) \in Nat
       /\ \A i \in 1 .. 3 : sets[i] = begin[i]
       /\ \A i \in 1 .. (3 + Len(middle)) : sets[i] \subseteq kept
       /\ sets[4 + Len(middle)] = last[1]
  <2>1. PICK two : two = begin \o middle
    OBVIOUS
  <2>2. /\ two \in Seq(SUBSET Moves) /\ Len(two) = 3 + Len(middle) /\ Len(middle) \in Nat
        /\ \A i \in 1 .. 3 : two[i] = begin[i]
        /\ \A i \in 1 .. Len(middle) : two[3 + i] = middle[i]
    <3>1. PICK E : E = SUBSET Moves
      OBVIOUS
    <3>2. begin \in Seq(E) /\ middle \in Seq(E)
      BY <1>8, <1>9, <3>1
    <3>3. /\ begin \o middle \in Seq(E) /\ Len(begin \o middle) = Len(begin) + Len(middle)
          /\ Len(begin) \in Nat /\ Len(middle) \in Nat
          /\ \A i \in 1 .. Len(begin) : (begin \o middle)[i] = begin[i]
          /\ \A i \in 1 .. Len(middle) : (begin \o middle)[Len(begin) + i] = middle[i]
      BY <3>2, Joined
    <3> QED BY <1>8, <2>1, <3>1, <3>3
  <2>3. \A i \in 1 .. Len(two) : two[i] \subseteq kept
    <3> SUFFICES ASSUME NEW i \in 1 .. Len(two) PROVE two[i] \subseteq kept
      OBVIOUS
    <3>1. CASE i <= 3
      BY <1>8, <2>2, <3>1
    <3>2. CASE i > 3
      <4>1. i - 3 \in 1 .. Len(middle) /\ i = 3 + (i - 3)
        BY <2>2, <3>2
      <4> QED BY <1>9, <2>2, <4>1
    <3> QED BY <2>2, <3>1, <3>2
  <2>4. sets = two \o last
    BY <1>11, <2>1
  <2>5. /\ sets \in Seq(SUBSET Moves) /\ Len(sets) = Len(two) + 1
        /\ \A i \in 1 .. Len(two) : sets[i] = two[i]
        /\ sets[Len(two) + 1] = last[1]
    <3>1. 1 \in 1 .. Len(last)
      BY <1>10
    <3>2. PICK E : E = SUBSET Moves
      OBVIOUS
    <3>3. two \in Seq(E) /\ last \in Seq(E)
      BY <1>10, <2>2, <3>2
    <3>4. /\ two \o last \in Seq(E) /\ Len(two \o last) = Len(two) + Len(last)
          /\ Len(two) \in Nat /\ Len(last) \in Nat
          /\ \A i \in 1 .. Len(two) : (two \o last)[i] = two[i]
          /\ \A i \in 1 .. Len(last) : (two \o last)[Len(two) + i] = last[i]
      BY <3>3, Joined
    <3> QED BY <1>10, <2>4, <3>1, <3>2, <3>4
  <2> QED BY <2>2, <2>3, <2>5
<1>14. CASE d # Steps!Stay
  <2>1. PICK i \in 1 .. Len(sets) :
          d \in sets[i] /\ d \in W /\ \A j \in 1 .. (i - 1) : sets[j] \cap W = {}
    BY <1>12, <1>13, <1>14, FirstOpenIs
  <2>2. CASE i # Len(sets)
    BY <1>6, <1>13, <2>1, <2>2
  <2>3. CASE i = Len(sets)
    <3>1. flee /\ d = Steps!Minus(a)
      BY <1>10, <1>13, <2>1, <2>3
    <3>2. sets[1] \cap W = {} /\ sets[3] \cap W = {}
      BY <1>13, <2>1, <2>3
    <3>3. {a, l, r} \cap W = {}
      BY <1>8, <1>13, <3>1, <3>2
    <3> QED BY <2>1, <3>1, <3>3
  <2> QED BY <2>2, <2>3
<1> QED BY <1>14

LEMMA MinusIs ==
  ASSUME NEW p \in Int, NEW q \in Int
  PROVE  Steps!Minus(<<p, q>>) = <<0 - p, 0 - q>>
<1>1. PICK a : a = <<p, q>>
  OBVIOUS
<1>2. Steps!Minus(a) = <<-a[1], -a[2]>>
  BY DEF Steps!Minus
<1>3. -a[1] = 0 - p /\ -a[2] = 0 - q
  BY <1>1
<1> QED BY <1>1, <1>2, <1>3

LEMMA DiagonalIs ==
  ASSUME NEW x \in Int \ {0}, NEW y \in Int \ {0}, NEW W, NEW flee \in BOOLEAN,
         NEW d \in Steps!DiagonalEscape(<<x, y>>, W, flee),
         NEW h, h = Steps!Sign(x), NEW v, v = Steps!Sign(y)
  PROVE  d = Steps!Stay \/ (d \in W /\ d \in {<<h, 0>>, <<0, v>>, <<h, v>>, <<-h, 0>>, <<0, -v>>})
<1>1. h \in {1, -1} /\ v \in {1, -1}
  BY DEF Steps!Sign
<1>2. PICK K : K = {<<h, 0>>, <<0, v>>, <<h, v>>, <<-h, 0>>, <<0, -v>>}
  OBVIOUS
<1>3. K \subseteq Moves
  BY <1>1, <1>2 DEF Moves
<1>4. PICK o : o = <<x, y>>
  OBVIOUS
<1>5. o[1] = x /\ o[2] = y
  BY <1>4
<1>6. PICK first : first = IF <<-h, v>> \in W THEN {<<-h, 0>>} ELSE {}
  OBVIOUS
<1>7. PICK second : second = IF <<h, -v>> \in W THEN {<<0, -v>>} ELSE {}
  OBVIOUS
<1>8. PICK back : back = IF flee THEN {<<-h, 0>>, <<0, -v>>} ELSE {}
  OBVIOUS
<1>9. PICK ahead : ahead = <<{<<h, 0>>, <<0, v>>}, {<<h, v>>}, back>>
  OBVIOUS
<1>10. PICK around : around = IF x < 0 /\ y < 0 THEN <<second, first>> ELSE <<first, second>>
  OBVIOUS
<1>11. /\ {<<h, 0>>, <<0, v>>} \in SUBSET K /\ {<<h, v>>} \in SUBSET K /\ back \in SUBSET K
       /\ first \in SUBSET K /\ second \in SUBSET K
  BY <1>2, <1>6, <1>7, <1>8
<1>12. ahead \in Seq(SUBSET K) /\ around \in Seq(SUBSET K)
  <2>1. PICK p, q : p = {<<h, 0>>, <<0, v>>} /\ q = {<<h, v>>}
    OBVIOUS
  <2>2. ahead = <<p, q, back>> /\ p \in SUBSET K /\ q \in SUBSET K
    BY <1>9, <1>11, <2>1
  <2>3. PICK E : E = SUBSET K
    OBVIOUS
  <2>4. p \in E /\ q \in E /\ back \in E /\ first \in E /\ second \in E
    BY <1>11, <2>2, <2>3
  <2>5. ahead \in Seq(E)
    BY <2>2, <2>4
  <2>6. around \in Seq(E)
    BY <1>10, <2>4
  <2> QED BY <2>3, <2>5, <2>6
<1>13. PICK sets : sets = ahead \o around
  OBVIOUS
<1>14. sets \in Seq(SUBSET K)
  BY <1>12, <1>13
<1>15. d \in Steps!FirstOpen(W, sets)
  <2>0. h \in Int /\ v \in Int /\ h + 0 = h /\ 0 + v = v /\ 0 - 0 = 0 /\ 0 - h = -h /\ 0 - v = -v
    BY <1>1
  <2>1. /\ Steps!Plus(<<h, 0>>, <<0, v>>) = <<h, v>>
        /\ Steps!Minus(<<h, 0>>) = <<-h, 0>> /\ Steps!Minus(<<0, v>>) = <<0, -v>>
    BY <2>0, MinusIs DEF Steps!Plus
  <2> QED BY <1>4, <1>5, <1>6, <1>7, <1>8, <1>9, <1>10, <1>13, <2>1 DEF Steps!DiagonalEscape
<1>16. sets \in Seq(SUBSET Moves)
  BY <1>3, <1>14
<1>17. CASE d # Steps!Stay
  <2>1. PICK i \in 1 .. Len(sets) : d \in sets[i] /\ d \in W
    BY <1>15, <1>16, <1>17, FirstOpenIs
  <2> QED BY <1>2, <1>14, <2>1
<1> QED BY <1>17

Far(x, y) == IF Bare(x) > Bare(y) THEN Bare(x) ELSE Bare(y)

LEMMA FarIs ==
  /\ \A x \in Int : Steps!Abs(x) = Bare(x) /\ Steps!Sign(x) = IF x < 0 THEN -1 ELSE 1
  /\ \A x, y \in Int : Steps!Distance(<<x, y>>) = Far(x, y)
  /\ \A x, y \in Int, d \in Moves :
       Steps!Distance(Steps!Plus(<<x, y>>, d)) = Far(x + d[1], y + d[2])
<1>1. \A x \in Int : Steps!Abs(x) = Bare(x) /\ Steps!Sign(x) = IF x < 0 THEN -1 ELSE 1
  BY DEF Steps!Abs, Steps!Sign, Bare
<1>2. \A x, y \in Int : Steps!Distance(<<x, y>>) = Far(x, y)
  BY <1>1 DEF Far, Steps!Distance, Steps!Larger
<1>3. ASSUME NEW x \in Int, NEW y \in Int, NEW d \in Moves
      PROVE  Steps!Distance(Steps!Plus(<<x, y>>, d)) = Far(x + d[1], y + d[2])
  <2>1. Steps!Plus(<<x, y>>, d) = <<x + d[1], y + d[2]>>
    BY DEF Steps!Plus
  <2>2. x + d[1] \in Int /\ y + d[2] \in Int
    BY DEF Moves
  <2> QED BY <1>2, <2>1, <2>2
<1> QED BY <1>1, <1>2, <1>3

(* Steps that get no closer, and one that does.                            *)
LEMMA NotNearer ==
  ASSUME NEW x \in Int, NEW y \in Int, NEW p \in -1 .. 1, NEW q \in -1 .. 1
  PROVE  /\ Bare(y) > Bare(x) /\ q \in {0, IF y < 0 THEN -1 ELSE 1} => Far(x + p, y + q) >= Far(x, y)
         /\ Bare(x) > Bare(y) /\ p \in {0, IF x < 0 THEN -1 ELSE 1} => Far(x + p, y + q) >= Far(x, y)
         /\ Bare(y) > Bare(x) /\ p = 0 /\ q = (IF y < 0 THEN 1 ELSE -1) => ~(Far(x + p, y + q) >= Far(x, y))
         /\ Bare(x) > Bare(y) /\ q = 0 /\ p = (IF x < 0 THEN 1 ELSE -1) => ~(Far(x + p, y + q) >= Far(x, y))
         /\ Bare(x) = Bare(y) /\ (p = 0 \/ q = 0) => Far(x + p, y + q) >= Far(x, y)
         /\ /\ Bare(x) = Bare(y) /\ p = (IF x < 0 THEN -1 ELSE 1) /\ q = (IF y < 0 THEN -1 ELSE 1)
            => Far(x + p, y + q) >= Far(x, y)
BY DEF Far, Bare

(* A step of getDistanceStep.                                              *)
LEMMA DistanceStepIs ==
  ASSUME NEW x \in Int, NEW y \in Int, NEW W, NEW flee \in BOOLEAN,
         NEW d \in Steps!DistanceStep(<<x, y>>, W, flee)
  PROVE  /\ d \in Moves
         /\ d # Steps!Stay => d \in W
         /\ \/ Far(x + d[1], y + d[2]) >= Far(x, y)
            \/ /\ flee
               /\ \A e \in Four : Far(x + e[1], y + e[2]) >= Far(x, y) => e \notin W
<1>0. PICK o : o = <<x, y>>
  OBVIOUS
<1>0a. o[1] = x /\ o[2] = y /\ d \in Steps!DistanceStep(o, W, flee)
  BY <1>0
<1>0b. Steps!Abs(x) = Bare(x) /\ Steps!Abs(y) = Bare(y) /\ Bare(x) \in Int /\ Bare(y) \in Int
  BY FarIs DEF Bare
<1>1. Steps!Stay \in Moves /\ Four \subseteq Moves
  BY DEF Steps!Stay, Moves, Four
<1>2. CASE d = Steps!Stay
  <2>1. d[1] = 0 /\ d[2] = 0 /\ x + 0 = x /\ y + 0 = y
    BY <1>2 DEF Steps!Stay
  <2>2. Far(x + d[1], y + d[2]) >= Far(x, y)
    BY <2>1 DEF Far, Bare
  <2> QED BY <1>1, <1>2, <2>2
<1>3. CASE d # Steps!Stay /\ o = Steps!Stay
  <2>1. PICK sets : sets = <<Four>>
    OBVIOUS
  <2>2. sets \in Seq(SUBSET Moves) /\ Len(sets) = 1 /\ sets[1] = Four
    BY <1>1, <2>1
  <2>3. Steps!DistanceStep(o, W, flee) = Steps!RandomStep(W)
    <3>1. x = 0 /\ y = 0
      BY <1>0, <1>3 DEF Steps!Stay
    <3>2. ~(Steps!Abs(x) > Steps!Abs(y)) /\ ~(Steps!Abs(y) > Steps!Abs(x))
      BY <1>0b, <3>1
    <3> QED BY <1>0a, <1>3, <3>2 DEF Steps!DistanceStep
  <2>4. Steps!Straight = Four
    BY DEF Steps!Straight, Four
  <2>5. d \in Steps!FirstOpen(W, sets)
    BY <1>0a, <2>1, <2>3, <2>4 DEF Steps!RandomStep
  <2>6. PICK i \in 1 .. Len(sets) : d \in sets[i] /\ d \in W
    BY <1>3, <2>2, <2>5, FirstOpenIs
  <2>7. d \in Four /\ d \in W /\ x = 0 /\ y = 0
    BY <1>0, <1>3, <2>2, <2>6 DEF Steps!Stay
  <2>8. PICK p \in -1 .. 1, q \in -1 .. 1 : d = <<p, q>> /\ (p = 0 \/ q = 0)
    BY <2>7 DEF Four
  <2>9. Far(x + p, y + q) >= Far(x, y)
    BY <2>7, <2>8, NotNearer
  <2> QED BY <1>1, <2>7, <2>8, <2>9
<1>4. CASE d # Steps!Stay /\ o # Steps!Stay /\ Bare(x) = Bare(y)
  <2>1. x # 0 /\ y # 0
    BY <1>0, <1>4 DEF Steps!Stay, Bare
  <2>2. Steps!DistanceStep(o, W, flee) = Steps!DiagonalEscape(o, W, flee)
    BY <1>0a, <1>0b, <1>4 DEF Steps!DistanceStep
  <2>3. PICK h, v : h = Steps!Sign(x) /\ v = Steps!Sign(y)
    OBVIOUS
  <2>4. d \in W /\ d \in {<<h, 0>>, <<0, v>>, <<h, v>>, <<-h, 0>>, <<0, -v>>}
    BY <1>0, <1>0a, <1>4, <2>1, <2>2, <2>3, DiagonalIs
  <2>5. h = (IF x < 0 THEN -1 ELSE 1) /\ v = (IF y < 0 THEN -1 ELSE 1)
    BY <2>3, FarIs
  <2>6. PICK p \in -1 .. 1, q \in -1 .. 1 : d = <<p, q>> /\ (p = 0 \/ q = 0 \/ (p = h /\ q = v))
    BY <2>4, <2>5
  <2>7. Far(x + p, y + q) >= Far(x, y)
    BY <1>4, <2>5, <2>6, NotNearer
  <2> QED BY <2>4, <2>6, <2>7 DEF Moves
<1>5. CASE d # Steps!Stay /\ o # Steps!Stay /\ Bare(y) > Bare(x)
  <2>1. PICK v : v = Steps!Sign(y)
    OBVIOUS
  <2>2. v = IF y < 0 THEN -1 ELSE 1
    BY <2>1, FarIs
  <2>3. v \in {1, -1} /\ v \in Int /\ 0 - v = -v /\ 0 + v = v
    BY <2>2
  <2>4. PICK a, l, r : a = <<0, v>> /\ l = <<-1, 0>> /\ r = <<1, 0>>
    OBVIOUS
  <2>5. Steps!DistanceStep(o, W, flee) = Steps!StraightEscape(a, l, r, x, l, W, flee)
    BY <1>0a, <1>0b, <1>5, <2>1, <2>4 DEF Steps!DistanceStep
  <2>6. Steps!Plus(a, l) = <<-1, v>> /\ Steps!Plus(a, r) = <<1, v>> /\ Steps!Minus(a) = <<0, -v>>
    BY <2>3, <2>4, MinusIs DEF Steps!Plus
  <2>7. /\ a \in Moves /\ l \in Moves /\ r \in Moves /\ <<-1, v>> \in Moves /\ <<1, v>> \in Moves
        /\ <<0, -v>> \in Moves
    BY <2>3, <2>4 DEF Moves
  <2>8. \/ d \in W /\ d \in {a, l, r, <<-1, v>>, <<1, v>>}
        \/ d \in W /\ flee /\ d = <<0, -v>> /\ {a, l, r} \cap W = {}
    BY <1>0a, <1>5, <2>5, <2>6, <2>7, EscapeIs
  <2>9. CASE d \in {a, l, r, <<-1, v>>, <<1, v>>}
    <3>1. PICK p \in -1 .. 1, q \in -1 .. 1 : d = <<p, q>> /\ q \in {0, v}
      BY <2>3, <2>4, <2>9
    <3>2. Far(x + p, y + q) >= Far(x, y)
      BY <1>5, <2>2, <3>1, NotNearer
    <3> QED BY <2>7, <2>8, <2>9, <3>1, <3>2
  <2>10. CASE flee /\ d = <<0, -v>> /\ {a, l, r} \cap W = {}
    <3>1. ASSUME NEW e \in Four PROVE e \in {a, l, r} \/ e = <<0, -v>>
      BY <2>3, <2>4 DEF Four
    <3>2. -v \in -1 .. 1 /\ -v = IF y < 0 THEN 1 ELSE -1
      <4>0. (y < 0 => v = -1) /\ (~(y < 0) => v = 1)
        BY <2>2
      <4>1. (y < 0 => 0 - v = 1) /\ (~(y < 0) => 0 - v = -1)
        BY <4>0, <2>3
      <4> QED BY <2>3, <4>1
    <3>3. ~(Far(x + 0, y + (-v)) >= Far(x, y))
      BY <1>5, <3>2, NotNearer
    <3>4. \A e \in Four : e \in {a, l, r} \/ ~(Far(x + e[1], y + e[2]) >= Far(x, y))
      BY <3>1, <3>3
    <3> QED BY <2>7, <2>8, <2>10, <3>4
  <2> QED BY <2>8, <2>9, <2>10
<1>6. CASE d # Steps!Stay /\ o # Steps!Stay /\ Bare(x) > Bare(y)
  <2>1. PICK h : h = Steps!Sign(x)
    OBVIOUS
  <2>2. h = IF x < 0 THEN -1 ELSE 1
    BY <2>1, FarIs
  <2>3. h \in {1, -1} /\ h \in Int /\ 0 - h = -h /\ h + 0 = h
    BY <2>2
  <2>4. PICK a, l, r : a = <<h, 0>> /\ l = <<0, -1>> /\ r = <<0, 1>>
    OBVIOUS
  <2>4a. PICK first : first = IF x < 0 THEN l ELSE r
    OBVIOUS
  <2>5. Steps!DistanceStep(o, W, flee) = Steps!StraightEscape(a, l, r, y, first, W, flee)
    <3>1. ~(Bare(x) = Bare(y)) /\ ~(Bare(y) > Bare(x))
      BY <1>0b, <1>6
    <3> QED BY <1>0a, <1>0b, <1>6, <2>1, <2>4, <2>4a, <3>1 DEF Steps!DistanceStep
  <2>6. Steps!Plus(a, l) = <<h, -1>> /\ Steps!Plus(a, r) = <<h, 1>> /\ Steps!Minus(a) = <<-h, 0>>
    BY <2>3, <2>4, MinusIs DEF Steps!Plus
  <2>7. /\ a \in Moves /\ l \in Moves /\ r \in Moves /\ <<h, -1>> \in Moves /\ <<h, 1>> \in Moves
        /\ <<-h, 0>> \in Moves /\ first \in {l, r}
    BY <2>3, <2>4, <2>4a DEF Moves
  <2>8. \/ d \in W /\ d \in {a, l, r, <<h, -1>>, <<h, 1>>}
        \/ d \in W /\ flee /\ d = <<-h, 0>> /\ {a, l, r} \cap W = {}
    BY <1>0a, <1>6, <2>5, <2>6, <2>7, EscapeIs
  <2>9. CASE d \in {a, l, r, <<h, -1>>, <<h, 1>>}
    <3>1. PICK p \in -1 .. 1, q \in -1 .. 1 : d = <<p, q>> /\ p \in {0, h}
      BY <2>3, <2>4, <2>9
    <3>2. Far(x + p, y + q) >= Far(x, y)
      BY <1>6, <2>2, <3>1, NotNearer
    <3> QED BY <2>7, <2>8, <2>9, <3>1, <3>2
  <2>10. CASE flee /\ d = <<-h, 0>> /\ {a, l, r} \cap W = {}
    <3>1. ASSUME NEW e \in Four PROVE e \in {a, l, r} \/ e = <<-h, 0>>
      BY <2>3, <2>4 DEF Four
    <3>2. -h \in -1 .. 1 /\ -h = IF x < 0 THEN 1 ELSE -1
      <4>0. (x < 0 => h = -1) /\ (~(x < 0) => h = 1)
        BY <2>2
      <4>1. (x < 0 => 0 - h = 1) /\ (~(x < 0) => 0 - h = -1)
        BY <4>0, <2>3
      <4> QED BY <2>3, <4>1
    <3>3. ~(Far(x + (-h), y + 0) >= Far(x, y))
      BY <1>6, <3>2, NotNearer
    <3>4. \A e \in Four : e \in {a, l, r} \/ ~(Far(x + e[1], y + e[2]) >= Far(x, y))
      BY <3>1, <3>3
    <3> QED BY <2>7, <2>8, <2>10, <3>4
  <2> QED BY <2>8, <2>9, <2>10
<1>7. Bare(x) = Bare(y) \/ Bare(y) > Bare(x) \/ Bare(x) > Bare(y)
  BY <1>0b
<1> QED BY <1>2, <1>3, <1>4, <1>5, <1>6, <1>7

(* A monster that turns has its target in front of it.                     *)
LEMMA LookIs ==
  ASSUME NEW x \in Int, NEW y \in Int, NEW dir \in Four, x # 0 \/ y # 0,
         NEW d, d = Steps!LookDirection(<<x, y>>, dir)
  PROVE  d \in Four /\ d[1] * x + d[2] * y < 0
<1>0. PICK o : o = <<x, y>>
  OBVIOUS
<1>1. o[1] = x /\ o[2] = y /\ o # Steps!Stay
  BY <1>0 DEF Steps!Stay
<1>2. PICK toX, toY : toX = <<-Steps!Sign(x), 0>> /\ toY = <<0, IF y < 0 THEN 1 ELSE -1>>
  OBVIOUS
<1>3. toX = IF x < 0 THEN <<1, 0>> ELSE <<-1, 0>>
  <2>1. CASE x < 0
    <3>1. Steps!Sign(x) = -1 /\ 0 - (-1) = 1
      BY <2>1, FarIs
    <3>2. \A k \in Int : -k = 0 - k
      OBVIOUS
    <3> QED BY <1>2, <2>1, <3>1, <3>2
  <2>2. CASE ~(x < 0)
    BY <1>2, <2>2, FarIs
  <2> QED BY <2>1, <2>2
<1>4. toY = IF y < 0 THEN <<0, 1>> ELSE <<0, -1>>
  BY <1>2
<1>5. Steps!Abs(x) = Bare(x) /\ Steps!Abs(y) = Bare(y) /\ Bare(x) \in Int /\ Bare(y) \in Int
  BY FarIs DEF Bare
<1>6. /\ Bare(x) > Bare(y) => d = toX
      /\ Bare(x) < Bare(y) => d = toY
      /\ Bare(x) = Bare(y) => d \in {toX, toY}
  <2>1. d = CASE o = Steps!Stay -> (IF dir[1] = 0 THEN <<1, 0>>
                                    ELSE IF dir = Steps!Minus(<<1, 0>>) THEN <<0, 1>> ELSE dir)
              [] o # Steps!Stay /\ Steps!Abs(o[1]) > Steps!Abs(o[2]) -> toX
              [] o # Steps!Stay /\ Steps!Abs(o[1]) < Steps!Abs(o[2]) -> toY
              [] OTHER -> (IF dir = Steps!Minus(toX) THEN toY ELSE toX)
    BY <1>0, <1>1, <1>2 DEF Steps!LookDirection
  <2>2. CASE Bare(x) > Bare(y)
    BY <1>1, <1>5, <2>1, <2>2
  <2>3. CASE Bare(x) < Bare(y)
    BY <1>1, <1>5, <2>1, <2>3
  <2>4. CASE Bare(x) = Bare(y)
    BY <1>1, <1>5, <2>1, <2>4
  <2> QED BY <1>5, <2>2, <2>3, <2>4
<1>7. Bare(x) >= Bare(y) => x # 0
  BY <1>1 DEF Bare
<1>8. Bare(y) >= Bare(x) => y # 0
  BY <1>1 DEF Bare
<1>9. x # 0 => toX \in Four /\ toX[1] * x + toX[2] * y < 0
  BY <1>3 DEF Four
<1>10. y # 0 => toY \in Four /\ toY[1] * x + toY[2] * y < 0
  BY <1>4 DEF Four
<1> QED BY <1>5, <1>6, <1>7, <1>8, <1>9, <1>10

StepsInv ==
  /\ offset \in Int \X Int /\ facing \in Four /\ step \in Moves
  /\ mode = "none" => step = Steps!Stay
  /\ Steps!StepsFit

LEMMA StepsStep == StepsInv /\ [Steps!Next]_stepsVars => StepsInv'
<1> SUFFICES ASSUME StepsInv, [Steps!Next]_stepsVars
             PROVE  StepsInv'
  OBVIOUS
<1>0. PICK x \in Int, y \in Int : offset = <<x, y>>
  BY DEF StepsInv
<1>0a. Steps!Straight = Four /\ Four \subseteq Moves /\ Steps!Stay \in Moves
  BY DEF Steps!Straight, Four, Moves, Steps!Stay
<1>0b. ASSUME NEW d \in Moves
       PROVE  /\ Steps!Distance(Steps!Plus(offset, d)) = Far(x + d[1], y + d[2])
              /\ Steps!Distance(offset) = Far(x, y)
  BY <1>0, FarIs
<1>1. ASSUME NEW flee \in BOOLEAN, Steps!KeepAway(flee)
      PROVE  StepsInv'
  <2>1. /\ mode' = (IF flee THEN "flee" ELSE "keep")
        /\ step' \in Steps!DistanceStep(offset, open, flee)
        /\ offset' = offset /\ open' = open /\ facing' = facing
    BY <1>1 DEF Steps!KeepAway
  <2>2. PICK d : d = step'
    OBVIOUS
  <2>3. /\ d \in Moves
        /\ d # Steps!Stay => d \in open
        /\ \/ Far(x + d[1], y + d[2]) >= Far(x, y)
           \/ /\ flee
              /\ \A e \in Four : Far(x + e[1], y + e[2]) >= Far(x, y) => e \notin open
    BY <1>0, <2>1, <2>2, DistanceStepIs
  <2>4. mode' \in {"keep", "dance", "danceFleeing"} =>
          Steps!Distance(Steps!Plus(offset, d)) >= Steps!Distance(offset)
    BY <1>0b, <2>1, <2>3
  <2>5. Far(x + d[1], y + d[2]) \in Int /\ Far(x, y) \in Int
    BY <2>3 DEF Far, Bare, Moves
  <2>6. Steps!Distance(Steps!Plus(offset, d)) < Steps!Distance(offset) =>
          {e \in Steps!Straight : Steps!Distance(Steps!Plus(offset, e)) >= Steps!Distance(offset)}
            \cap open = {}
    BY <1>0a, <1>0b, <2>3, <2>5
  <2>7. Steps!StepKeepsDistance'
    BY <2>1, <2>2, <2>3, <2>4, <2>6 DEF Steps!StepKeepsDistance
  <2>8. Steps!LooksAtTarget'
    BY <2>1 DEF Steps!LooksAtTarget
  <2>9. mode' # "none"
    BY <2>1
  <2> QED BY <2>1, <2>2, <2>3, <2>7, <2>8, <2>9 DEF StepsInv, Steps!StepsFit
<1>2. ASSUME NEW flee \in BOOLEAN, Steps!Dance(flee)
      PROVE  StepsInv'
  <2>1. /\ mode' = (IF flee THEN "danceFleeing" ELSE "dance")
        /\ offset' = offset /\ open' = open /\ facing' = facing
    BY <1>2 DEF Steps!Dance
  <2>2. PICK d : d = step'
    OBVIOUS
  <2>3. \/ d = Steps!Stay
        \/ d \in open \cap Four /\ Steps!Distance(Steps!Plus(offset, d)) = Steps!Distance(offset)
    BY <1>0a, <1>2, <2>2 DEF Steps!Dance, Steps!DanceStep
  <2>4. d \in Moves /\ (d # Steps!Stay => d \in open)
    BY <1>0a, <2>3
  <2>5. x + 0 = x /\ y + 0 = y /\ Far(x, y) \in Int
    BY DEF Far, Bare
  <2>6. Steps!Distance(Steps!Plus(offset, Steps!Stay)) = Steps!Distance(offset)
    <3>1. Steps!Stay[1] = 0 /\ Steps!Stay[2] = 0
      BY DEF Steps!Stay
    <3> QED BY <1>0a, <1>0b, <2>5, <3>1
  <2>7. Steps!Distance(Steps!Plus(offset, d)) = Steps!Distance(offset) /\ Steps!Distance(offset) \in Int
    BY <1>0a, <1>0b, <2>3, <2>5, <2>6
  <2>8. Steps!StepKeepsDistance'
    BY <2>1, <2>2, <2>4, <2>7 DEF Steps!StepKeepsDistance
  <2>9. Steps!LooksAtTarget' /\ mode' # "none"
    BY <2>1 DEF Steps!LooksAtTarget
  <2> QED BY <2>1, <2>2, <2>4, <2>8, <2>9 DEF StepsInv, Steps!StepsFit
<1>3. CASE Steps!Look
  <2>1. /\ mode = "none" /\ mode' = "look" /\ facing' = Steps!LookDirection(offset, facing)
        /\ offset' = offset /\ open' = open /\ step' = step
    BY <1>3 DEF Steps!Look
  <2>2. step = Steps!Stay
    BY <2>1 DEF StepsInv
  <2>3. Steps!StepKeepsDistance'
    BY <2>1, <2>2 DEF Steps!StepKeepsDistance
  <2>4. PICK d : d = Steps!LookDirection(offset, facing)
    OBVIOUS
  <2>5. offset # Steps!Stay => d \in Four /\ d[1] * x + d[2] * y < 0
    BY <1>0, <2>4, LookIs DEF StepsInv, Steps!Stay
  <2>6. offset = Steps!Stay => d \in Four
    <3>1. Steps!Minus(<<1, 0>>) = <<-1, 0>>
      BY MinusIs
    <3> QED BY <2>4, <3>1 DEF Steps!LookDirection, StepsInv, Four
  <2>7. Steps!LooksAtTarget'
    BY <1>0, <2>1, <2>4, <2>5 DEF Steps!LooksAtTarget
  <2> QED BY <2>1, <2>2, <2>3, <2>4, <2>5, <2>6, <2>7 DEF StepsInv, Steps!StepsFit
<1>4. CASE UNCHANGED stepsVars
  BY <1>4 DEF StepsInv, stepsVars, Steps!StepsFit, Steps!StepKeepsDistance, Steps!LooksAtTarget
<1> QED BY <1>1, <1>2, <1>3, <1>4 DEF Steps!Next

(* Wherever its target stands and whatever is closed around it, a monster  *)
(* never steps to where it cannot walk, gets no closer to a target that it *)
(* keeps away from, flees towards it only when it is shut in, and looks at *)
(* what it attacks (Monster::getDistanceStep, getDanceStep,                *)
(* updateLookDirection).                                                   *)
THEOREM StepsAlwaysFit == WorldSpec => []StepsFit
<1> DEFINE Inv == scene = "steps" => StepsInv
<1>1. WorldInit => Inv
  <2> SUFFICES ASSUME Steps!Init PROVE StepsInv
    BY DEF WorldInit
  <2>1. offset \in Int \X Int /\ facing \in Four /\ mode = "none" /\ step = Steps!Stay
    BY WorldAssumption DEF Steps!Init, Steps!Straight, Four
  <2> QED BY <2>1 DEF StepsInv, Steps!StepsFit, Steps!StepKeepsDistance, Steps!LooksAtTarget,
                     Steps!Stay, Moves
<1>2. Inv /\ [WorldNext]_<<scene, stepsVars, rayVars, areaVars, searchVars, cachedVars>> => Inv'
  <2> SUFFICES ASSUME Inv, scene' = "steps",
                      [WorldNext]_<<scene, stepsVars, rayVars, areaVars, searchVars, cachedVars>>
               PROVE  StepsInv'
    OBVIOUS
  <2>1. scene = "steps" /\ [Steps!Next]_stepsVars
    BY DEF WorldNext
  <2> QED BY <2>1, StepsStep
<1>3. Inv => StepsFit
  BY DEF StepsInv, StepsFit
<1> QED BY <1>1, <1>2, <1>3, PTL DEF WorldSpec

-----------------------------------------------------------------------------
(* CombatArea (Area).                                                      *)

(* Matrices, of any size.                                                  *)
Drawn(m) ==
  /\ m \in [rows : Nat \ {0}, cols : Nat \ {0}, cy : Int, cx : Int, cells : SUBSET (Nat \X Nat)]
  /\ m.cy \in 0 .. (m.rows - 1) /\ m.cx \in 0 .. (m.cols - 1)
  /\ \A c \in m.cells : c[1] \in 0 .. (m.rows - 1) /\ c[2] \in 0 .. (m.cols - 1)

InMatrix(m) ==
  \A c \in m.cells : c[1] \in 0 .. (m.rows - 1) /\ c[2] \in 0 .. (m.cols - 1)

LEMMA GivenDrawn ==
  ASSUME NEW m \in Area!Matrix(MaxSide)
  PROVE  Drawn(m)
<1>1. PICK r \in 1 .. MaxSide, c \in 1 .. MaxSide :
        m \in [rows : {r}, cols : {c}, cy : 0 .. (r - 1), cx : 0 .. (c - 1),
               cells : SUBSET ((0 .. (r - 1)) \X (0 .. (c - 1)))]
  <2>1. PICK s \in (1 .. MaxSide) \X (1 .. MaxSide) :
          m \in [rows : {s[1]}, cols : {s[2]}, cy : 0 .. (s[1] - 1), cx : 0 .. (s[2] - 1),
                 cells : SUBSET ((0 .. (s[1] - 1)) \X (0 .. (s[2] - 1)))]
    BY DEF Area!Matrix
  <2> QED BY <2>1
<1>2. r \in Nat \ {0} /\ c \in Nat \ {0}
  BY WorldAssumption
<1> QED BY <1>1, <1>2 DEF Drawn

(* The squares that a turned matrix hits are those of m, turned.           *)
LEMMA RotateHits ==
  ASSUME NEW m, Drawn(m), NEW angle \in {90, 180, 270}, NEW out, out = Area!Rotate(m, angle)
  PROVE  /\ Area!Hits(out) = {Area!Turn(angle, h[1], h[2]) : h \in Area!Hits(m)}
         /\ InMatrix(out)
<1>1. PICK side \in Nat : side = IF m.cols > m.rows THEN m.cols ELSE m.rows
  BY DEF Drawn
<1>2. side >= m.cols /\ side >= m.rows /\ m.rows \in Nat /\ m.cols \in Nat
  BY <1>1 DEF Drawn
<1>3. (2 * side) \div 2 = side
  BY <1>1
<1>4. PICK blank : blank = Area!Blank(m)
  OBVIOUS
<1>5. blank = [rows |-> 2 * side, cols |-> 2 * side, cy |-> 0, cx |-> 0, cells |-> {}]
  BY <1>1, <1>4 DEF Area!Blank
<1>6. \A x, y \in Int : Area!Turn(angle, x, y) \in Int \X Int
  BY DEF Area!Turn
<1>7. PICK t : t = [c \in m.cells |-> Area!Turn(angle, c[2] - m.cx, c[1] - m.cy)]
  OBVIOUS
<1>8. PICK cells : cells = {<<t[c][2] + (side - 1), t[c][1] + (side - 1)>> : c \in m.cells}
  OBVIOUS
<1>9. out.rows = 2 * side /\ out.cols = 2 * side /\ out.cy = side - 1 /\ out.cx = side - 1
      /\ out.cells = cells
  <2>1. (blank.cols \div 2) - 1 = side - 1 /\ (blank.rows \div 2) - 1 = side - 1
    BY <1>3, <1>5
  <2>2. cells = {<<Area!Turn(angle, c[2] - m.cx, c[1] - m.cy)[2] + (side - 1),
                   Area!Turn(angle, c[2] - m.cx, c[1] - m.cy)[1] + (side - 1)>> : c \in m.cells}
    BY <1>7, <1>8
  <2>3. PICK w, v, k : /\ w = (Area!Blank(m).cols \div 2) - 1 /\ v = (Area!Blank(m).rows \div 2) - 1
                       /\ k = {<<Area!Turn(angle, c[2] - m.cx, c[1] - m.cy)[2] + ((Area!Blank(m).rows \div 2) - 1),
                                 Area!Turn(angle, c[2] - m.cx, c[1] - m.cy)[1] + ((Area!Blank(m).cols \div 2) - 1)>>
                                : c \in m.cells}
    OBVIOUS
  <2>4. out = [blank EXCEPT !.cells = k, !.cy = v, !.cx = w]
    <3>1. out = [Area!Blank(m) EXCEPT
                   !.cells = {<<Area!Turn(angle, c[2] - m.cx, c[1] - m.cy)[2] + ((Area!Blank(m).rows \div 2) - 1),
                                 Area!Turn(angle, c[2] - m.cx, c[1] - m.cy)[1] + ((Area!Blank(m).cols \div 2) - 1)>>
                                : c \in m.cells},
                   !.cy = (Area!Blank(m).rows \div 2) - 1, !.cx = (Area!Blank(m).cols \div 2) - 1]
      BY Zenon DEF Area!Rotate
    <3> QED BY <1>4, <2>3, <3>1, Zenon
  <2>5. k = cells /\ v = side - 1 /\ w = side - 1
    <3>1. Area!Blank(m).rows \div 2 = side /\ Area!Blank(m).cols \div 2 = side
      BY <1>3, <1>4, <1>5
    <3> QED BY <2>2, <2>3, <3>1
  <2>6. PICK z : z = 2 * side
    OBVIOUS
  <2>7. blank = [rows |-> z, cols |-> z, cy |-> 0, cx |-> 0, cells |-> {}]
    BY <1>5, <2>6
  <2>8. out.rows = z /\ out.cols = z /\ out.cy = v /\ out.cx = w /\ out.cells = k
    <3>1. blank.rows = z /\ blank.cols = z /\ DOMAIN blank = {"rows", "cols", "cy", "cx", "cells"}
      BY <2>7
    <3> QED BY <2>4, <3>1
  <2> QED BY <2>5, <2>6, <2>8
<1>10. ASSUME NEW c \in m.cells
       PROVE  /\ c[1] \in Int /\ c[2] \in Int /\ c[2] - m.cx \in Int /\ c[1] - m.cy \in Int
              /\ c[2] - m.cx \in -(side - 1) .. (side - 1) /\ c[1] - m.cy \in -(side - 1) .. (side - 1)
  BY <1>2 DEF Drawn
<1>11. ASSUME NEW c \in m.cells
       PROVE  /\ t[c] \in Int \X Int
              /\ t[c][1] \in -(side - 1) .. (side - 1) /\ t[c][2] \in -(side - 1) .. (side - 1)
  BY <1>7, <1>10 DEF Area!Turn
<1>12. InMatrix(out)
  BY <1>9, <1>8, <1>11 DEF InMatrix
<1>13. Area!Hits(out) = {t[c] : c \in m.cells}
  <2>1. Area!Hits(out) = {<<e[2] - (side - 1), e[1] - (side - 1)>> : e \in cells}
    BY <1>9 DEF Area!Hits
  <2>2. ASSUME NEW c \in m.cells
        PROVE  <<(t[c][1] + (side - 1)) - (side - 1), (t[c][2] + (side - 1)) - (side - 1)>> = t[c]
    BY <1>11
  <2>3. ASSUME NEW e \in cells
        PROVE  \E c \in m.cells : <<e[2] - (side - 1), e[1] - (side - 1)>> = t[c]
    <3>1. PICK c \in m.cells : e = <<t[c][2] + (side - 1), t[c][1] + (side - 1)>>
      BY <1>8
    <3> QED BY <2>2, <3>1
  <2>4. ASSUME NEW c \in m.cells
        PROVE  \E e \in cells : <<e[2] - (side - 1), e[1] - (side - 1)>> = t[c]
    <3>1. <<t[c][2] + (side - 1), t[c][1] + (side - 1)>> \in cells
      BY <1>8
    <3> QED BY <2>2, <3>1
  <2>5. PICK L, R : L = {<<e[2] - (side - 1), e[1] - (side - 1)>> : e \in cells}
                    /\ R = {t[c] : c \in m.cells}
    OBVIOUS
  <2>6. L = R
    <3>1. ASSUME NEW p \in L PROVE p \in R
      BY <2>3, <2>5
    <3>2. ASSUME NEW p \in R PROVE p \in L
      <4>1. PICK c \in m.cells : p = t[c]
        BY <2>5
      <4>2. PICK e \in cells : <<e[2] - (side - 1), e[1] - (side - 1)>> = t[c]
        BY <2>4
      <4> QED BY <2>5, <4>1, <4>2
    <3> QED BY <3>1, <3>2
  <2> QED BY <2>1, <2>5, <2>6, Zenon
<1>14. Area!Hits(m) = {<<c[2] - m.cx, c[1] - m.cy>> : c \in m.cells}
  BY DEF Area!Hits
<1>15. {t[c] : c \in m.cells} = {Area!Turn(angle, h[1], h[2]) : h \in Area!Hits(m)}
  <2>1. ASSUME NEW c \in m.cells
        PROVE  \E h \in Area!Hits(m) : t[c] = Area!Turn(angle, h[1], h[2])
    <3>1. <<c[2] - m.cx, c[1] - m.cy>> \in Area!Hits(m)
      BY <1>14
    <3>2. t[c] = Area!Turn(angle, c[2] - m.cx, c[1] - m.cy)
      BY <1>7
    <3> QED BY <3>1, <3>2
  <2>2. ASSUME NEW h \in Area!Hits(m)
        PROVE  \E c \in m.cells : t[c] = Area!Turn(angle, h[1], h[2])
    <3>1. PICK c \in m.cells : h = <<c[2] - m.cx, c[1] - m.cy>>
      BY <1>14
    <3>2. t[c] = Area!Turn(angle, c[2] - m.cx, c[1] - m.cy)
      BY <1>7
    <3> QED BY <3>1, <3>2
  <2> QED BY <2>1, <2>2
<1> QED BY <1>12, <1>13, <1>15

Square(m) ==
  /\ m.rows \in Nat /\ m.cols = m.rows /\ m.cx \in Int /\ m.cy \in Int
  /\ m.cells \subseteq Int \X Int /\ InMatrix(m)

(* A mirrored matrix, on a blank one of side z, and a flipped one.         *)
LEMMA MirrorHits ==
  ASSUME NEW m, Square(m), NEW z \in Nat, z >= m.rows,
         NEW b, b = [rows |-> z, cols |-> z, cy |-> 0, cx |-> 0, cells |-> {}],
         NEW out, out = Area!Mirror(m, b)
  PROVE  /\ Area!Hits(out) = {<<0 - h[1], h[2]>> : h \in Area!Hits(m)}
         /\ Square(out) /\ out.rows = z
<1>1. PICK k, v, w : k = {<<c[1], (m.cols - 1) - c[2]>> : c \in m.cells} /\ v = m.cy /\ w = (m.rows - 1) - m.cx
  OBVIOUS
<1>2. out = [b EXCEPT !.cells = k, !.cy = v, !.cx = w]
  <2>1. out = [b EXCEPT !.cells = {<<c[1], (m.cols - 1) - c[2]>> : c \in m.cells}, !.cy = m.cy, !.cx = (m.rows - 1) - m.cx]
    BY Zenon DEF Area!Mirror
  <2> QED BY <1>1, <2>1, Zenon
<1>3. out.rows = z /\ out.cols = z /\ out.cy = v /\ out.cx = w /\ out.cells = k
  <2>1. b.rows = z /\ b.cols = z /\ DOMAIN b = {"rows", "cols", "cy", "cx", "cells"}
    OBVIOUS
  <2> QED BY <1>2, <2>1
<1>4. \A c \in m.cells : c[1] \in 0 .. (m.rows - 1) /\ c[2] \in 0 .. (m.cols - 1) /\ c = <<c[1], c[2]>>
  BY DEF Square, InMatrix
<1>5. m.rows \in Nat /\ m.cols = m.rows /\ m.cx \in Int /\ m.cy \in Int
  BY DEF Square
<1>6. Square(out) /\ out.rows = z
  <2>1. ASSUME NEW e \in k
        PROVE  e \in Int \X Int /\ e[1] \in 0 .. (z - 1) /\ e[2] \in 0 .. (z - 1)
    <3>1. PICK c \in m.cells : e = <<c[1], (m.cols - 1) - c[2]>>
      BY <1>1
    <3> QED BY <1>4, <1>5, <3>1
  <2>2. v \in Int /\ w \in Int
    BY <1>1, <1>5
  <2> QED BY <1>3, <2>1, <2>2 DEF Square, InMatrix
<1>7. Area!Hits(m) = {<<c[2] - m.cx, c[1] - m.cy>> : c \in m.cells}
  BY DEF Area!Hits
<1>8. Area!Hits(out) = {<<e[2] - w, e[1] - v>> : e \in k}
  BY <1>3 DEF Area!Hits
<1>9. ASSUME NEW c \in m.cells, NEW e, e = <<c[1], (m.cols - 1) - c[2]>>, NEW h, h = <<c[2] - m.cx, c[1] - m.cy>>
      PROVE  <<e[2] - w, e[1] - v>> = <<0 - h[1], h[2]>>
  BY <1>1, <1>4, <1>5, <1>9
<1>10. PICK L, R : L = {<<e[2] - w, e[1] - v>> : e \in k} /\ R = {<<0 - h[1], h[2]>> : h \in Area!Hits(m)}
  OBVIOUS
<1>11. ASSUME NEW p \in L PROVE p \in R
  <2>1. PICK c \in m.cells : \E e : e = <<c[1], (m.cols - 1) - c[2]>> /\ p = <<e[2] - w, e[1] - v>>
    BY <1>1, <1>10
  <2>2. PICK h \in Area!Hits(m) : h = <<c[2] - m.cx, c[1] - m.cy>>
    BY <1>7
  <2> QED BY <1>9, <1>10, <2>1, <2>2
<1>12. ASSUME NEW p \in R PROVE p \in L
  <2>1. PICK h \in Area!Hits(m) : p = <<0 - h[1], h[2]>>
    BY <1>10
  <2>2. PICK c \in m.cells : h = <<c[2] - m.cx, c[1] - m.cy>>
    BY <1>7, <2>1
  <2>3. <<c[1], (m.cols - 1) - c[2]>> \in k
    BY <1>1
  <2>4. PICK e \in k : e = <<c[1], (m.cols - 1) - c[2]>>
    BY <2>3
  <2> QED BY <1>9, <1>10, <2>1, <2>2, <2>4
<1> QED BY <1>6, <1>8, <1>10, <1>11, <1>12

LEMMA FlipHits ==
  ASSUME NEW m, Square(m), NEW z \in Nat, z >= m.rows,
         NEW b, b = [rows |-> z, cols |-> z, cy |-> 0, cx |-> 0, cells |-> {}],
         NEW out, out = Area!Flip(m, b)
  PROVE  /\ Area!Hits(out) = {<<h[1], 0 - h[2]>> : h \in Area!Hits(m)}
         /\ Square(out) /\ out.rows = z
<1>1. PICK k, v, w : k = {<<(m.rows - 1) - c[1], c[2]>> : c \in m.cells} /\ v = (m.cols - 1) - m.cy /\ w = m.cx
  OBVIOUS
<1>2. out = [b EXCEPT !.cells = k, !.cy = v, !.cx = w]
  <2>1. out = [b EXCEPT !.cells = {<<(m.rows - 1) - c[1], c[2]>> : c \in m.cells}, !.cy = (m.cols - 1) - m.cy, !.cx = m.cx]
    BY Zenon DEF Area!Flip
  <2> QED BY <1>1, <2>1, Zenon
<1>3. out.rows = z /\ out.cols = z /\ out.cy = v /\ out.cx = w /\ out.cells = k
  <2>1. b.rows = z /\ b.cols = z /\ DOMAIN b = {"rows", "cols", "cy", "cx", "cells"}
    OBVIOUS
  <2> QED BY <1>2, <2>1
<1>4. \A c \in m.cells : c[1] \in 0 .. (m.rows - 1) /\ c[2] \in 0 .. (m.cols - 1) /\ c = <<c[1], c[2]>>
  BY DEF Square, InMatrix
<1>5. m.rows \in Nat /\ m.cols = m.rows /\ m.cx \in Int /\ m.cy \in Int
  BY DEF Square
<1>6. Square(out) /\ out.rows = z
  <2>1. ASSUME NEW e \in k
        PROVE  e \in Int \X Int /\ e[1] \in 0 .. (z - 1) /\ e[2] \in 0 .. (z - 1)
    <3>1. PICK c \in m.cells : e = <<(m.rows - 1) - c[1], c[2]>>
      BY <1>1
    <3> QED BY <1>4, <1>5, <3>1
  <2>2. v \in Int /\ w \in Int
    BY <1>1, <1>5
  <2> QED BY <1>3, <2>1, <2>2 DEF Square, InMatrix
<1>7. Area!Hits(m) = {<<c[2] - m.cx, c[1] - m.cy>> : c \in m.cells}
  BY DEF Area!Hits
<1>8. Area!Hits(out) = {<<e[2] - w, e[1] - v>> : e \in k}
  BY <1>3 DEF Area!Hits
<1>9. ASSUME NEW c \in m.cells, NEW e, e = <<(m.rows - 1) - c[1], c[2]>>, NEW h, h = <<c[2] - m.cx, c[1] - m.cy>>
      PROVE  <<e[2] - w, e[1] - v>> = <<h[1], 0 - h[2]>>
  BY <1>1, <1>4, <1>5, <1>9
<1>10. PICK L, R : L = {<<e[2] - w, e[1] - v>> : e \in k} /\ R = {<<h[1], 0 - h[2]>> : h \in Area!Hits(m)}
  OBVIOUS
<1>11. ASSUME NEW p \in L PROVE p \in R
  <2>1. PICK c \in m.cells : \E e : e = <<(m.rows - 1) - c[1], c[2]>> /\ p = <<e[2] - w, e[1] - v>>
    BY <1>1, <1>10
  <2>2. PICK h \in Area!Hits(m) : h = <<c[2] - m.cx, c[1] - m.cy>>
    BY <1>7
  <2> QED BY <1>9, <1>10, <2>1, <2>2
<1>12. ASSUME NEW p \in R PROVE p \in L
  <2>1. PICK h \in Area!Hits(m) : p = <<h[1], 0 - h[2]>>
    BY <1>10
  <2>2. PICK c \in m.cells : h = <<c[2] - m.cx, c[1] - m.cy>>
    BY <1>7, <2>1
  <2>3. <<(m.rows - 1) - c[1], c[2]>> \in k
    BY <1>1
  <2>4. PICK e \in k : e = <<(m.rows - 1) - c[1], c[2]>>
    BY <2>3
  <2> QED BY <1>9, <1>10, <2>1, <2>2, <2>4
<1> QED BY <1>6, <1>8, <1>10, <1>11, <1>12

(* Whatever their sizes, what is mirrored or flipped fits the blank matrix.*)
WithinBlank(m, z) ==
  /\ m.rows \in Nat /\ m.cols \in Nat /\ m.rows <= z /\ m.cols <= z
  /\ \A c \in m.cells : c[1] \in 0 .. (m.rows - 1) /\ c[2] \in 0 .. (m.cols - 1)

LEMMA MirrorFits ==
  ASSUME NEW z \in Nat, NEW m, WithinBlank(m, z),
         NEW b, b = [rows |-> z, cols |-> z, cy |-> 0, cx |-> 0, cells |-> {}],
         NEW out, out = Area!Mirror(m, b) \/ out = Area!Flip(m, b)
  PROVE  WithinBlank(out, z)
<1>1. PICK k, l : /\ k = {<<c[1], (m.cols - 1) - c[2]>> : c \in m.cells}
                  /\ l = {<<(m.rows - 1) - c[1], c[2]>> : c \in m.cells}
  OBVIOUS
<1>2. \A e \in k \cup l : e[1] \in 0 .. (z - 1) /\ e[2] \in 0 .. (z - 1)
  <2>1. \A c \in m.cells : /\ c[1] \in 0 .. (m.rows - 1) /\ c[2] \in 0 .. (m.cols - 1)
                          /\ m.rows \in Nat /\ m.cols \in Nat /\ m.rows <= z /\ m.cols <= z
    BY DEF WithinBlank
  <2>2. ASSUME NEW e \in k PROVE e[1] \in 0 .. (z - 1) /\ e[2] \in 0 .. (z - 1)
    <3>1. PICK c \in m.cells : e = <<c[1], (m.cols - 1) - c[2]>>
      BY <1>1
    <3> QED BY <2>1, <3>1
  <2>3. ASSUME NEW e \in l PROVE e[1] \in 0 .. (z - 1) /\ e[2] \in 0 .. (z - 1)
    <3>1. PICK c \in m.cells : e = <<(m.rows - 1) - c[1], c[2]>>
      BY <1>1
    <3> QED BY <2>1, <3>1
  <2> QED BY <2>2, <2>3
<1>3. b.rows = z /\ b.cols = z /\ DOMAIN b = {"rows", "cols", "cy", "cx", "cells"}
  OBVIOUS
<1>4. out.rows = z /\ out.cols = z /\ out.cells \in {k, l}
  <2>1. CASE out = Area!Mirror(m, b)
    <3>1. out = [b EXCEPT !.cells = {<<c[1], (m.cols - 1) - c[2]>> : c \in m.cells}, !.cy = m.cy, !.cx = (m.rows - 1) - m.cx]
      BY Zenon, <2>1 DEF Area!Mirror
    <3>2. PICK v, w : out = [b EXCEPT !.cells = k, !.cy = v, !.cx = w]
      BY <1>1, <3>1, Zenon
    <3> QED BY <1>3, <3>2
  <2>2. CASE out = Area!Flip(m, b)
    <3>1. out = [b EXCEPT !.cells = {<<(m.rows - 1) - c[1], c[2]>> : c \in m.cells}, !.cy = (m.cols - 1) - m.cy, !.cx = m.cx]
      BY Zenon, <2>2 DEF Area!Flip
    <3>2. PICK v, w : out = [b EXCEPT !.cells = l, !.cy = v, !.cx = w]
      BY <1>1, <3>1, Zenon
    <3> QED BY <1>3, <3>2
  <2> QED BY <2>1, <2>2
<1> QED BY <1>2, <1>4 DEF WithinBlank

(* The squares h as they are seen from their caster, who looks to d.       *)
Along(d, h) == h[1] * Area!Ahead[d][1] + h[2] * Area!Ahead[d][2]
Across(d, h) == h[1] * Area!Ahead[d][2] - h[2] * Area!Ahead[d][1]
Shape(d, H) == {<<Along(d, h), Across(d, h)>> : h \in H}
Mirrored(d, H) == {<<Along(d, h), -Across(d, h)>> : h \in H}

LEMMA Looks ==
  \A h \in Int \X Int :
    /\ Along("N", h) = 0 - h[2] /\ Across("N", h) = 0 - h[1]
    /\ Along("S", h) = h[2] /\ Across("S", h) = h[1]
    /\ Along("E", h) = h[1] /\ Across("E", h) = 0 - h[2]
    /\ Along("W", h) = 0 - h[1] /\ Across("W", h) = h[2]
    /\ Along("NW", h) = 0 - h[1] - h[2] /\ Across("NW", h) = h[2] - h[1]
    /\ Along("NE", h) = h[1] - h[2] /\ Across("NE", h) = 0 - h[1] - h[2]
    /\ Along("SW", h) = h[2] - h[1] /\ Across("SW", h) = h[1] + h[2]
    /\ Along("SE", h) = h[1] + h[2] /\ Across("SE", h) = h[1] - h[2]
<1> SUFFICES ASSUME NEW x \in Int, NEW y \in Int, NEW h, h = <<x, y>>
             PROVE  /\ Along("N", h) = 0 - y /\ Across("N", h) = 0 - x
                    /\ Along("S", h) = y /\ Across("S", h) = x
                    /\ Along("E", h) = x /\ Across("E", h) = 0 - y
                    /\ Along("W", h) = 0 - x /\ Across("W", h) = y
                    /\ Along("NW", h) = 0 - x - y /\ Across("NW", h) = y - x
                    /\ Along("NE", h) = x - y /\ Across("NE", h) = 0 - x - y
                    /\ Along("SW", h) = y - x /\ Across("SW", h) = x + y
                    /\ Along("SE", h) = x + y /\ Across("SE", h) = x - y
  OBVIOUS
<1>1. \A k \in Int : k * 0 = 0 /\ k * 1 = k /\ k * (-1) = 0 - k
  OBVIOUS
<1>2. /\ Area!Ahead["N"] = <<0, -1>> /\ Area!Ahead["S"] = <<0, 1>>
      /\ Area!Ahead["E"] = <<1, 0>> /\ Area!Ahead["W"] = <<-1, 0>>
      /\ Area!Ahead["NW"] = <<-1, -1>> /\ Area!Ahead["NE"] = <<1, -1>>
      /\ Area!Ahead["SW"] = <<-1, 1>> /\ Area!Ahead["SE"] = <<1, 1>>
  BY DEF Area!Ahead
<1> QED BY <1>1, <1>2 DEF Along, Across

(* A spell for the four directions.                                        *)
LEMMA RoundPictures ==
  ASSUME NEW m, Drawn(m), NEW H, H = Area!Hits(m)
  PROVE  /\ Shape("N", H) = {<<0 - h[2], 0 - h[1]>> : h \in H}
         /\ Shape("E", Area!Hits(Area!Rotate(m, 90))) = {<<0 - h[2], 0 - h[1]>> : h \in H}
         /\ Shape("S", Area!Hits(Area!Rotate(m, 180))) = {<<0 - h[2], 0 - h[1]>> : h \in H}
         /\ Shape("W", Area!Hits(Area!Rotate(m, 270))) = {<<0 - h[2], 0 - h[1]>> : h \in H}
<1>1. H \subseteq Int \X Int
  BY DEF Drawn, Area!Hits
<1>2. PICK g : g = [h \in H |-> <<0 - h[2], 0 - h[1]>>]
  OBVIOUS
<1>3. {g[h] : h \in H} = {<<0 - h[2], 0 - h[1]>> : h \in H}
  BY <1>2
<1>4. Shape("N", H) = {g[h] : h \in H}
  <2>1. \A h \in H : <<Along("N", h), Across("N", h)>> = g[h]
    BY <1>1, <1>2, Looks
  <2> QED BY <2>1 DEF Shape
<1>5. ASSUME NEW angle \in {90, 180, 270}, NEW d,
             d = (IF angle = 90 THEN "E" ELSE IF angle = 180 THEN "S" ELSE "W")
      PROVE  Shape(d, Area!Hits(Area!Rotate(m, angle))) = {g[h] : h \in H}
  <2>1. PICK f : f = [h \in H |-> Area!Turn(angle, h[1], h[2])]
    OBVIOUS
  <2>2. PICK F : F = Area!Hits(Area!Rotate(m, angle))
    OBVIOUS
  <2>3. F = {f[h] : h \in H}
    <3>1. F = {Area!Turn(angle, h[1], h[2]) : h \in H}
      BY <2>2, RotateHits
    <3> QED BY <2>1, <3>1
  <2>4. ASSUME NEW h \in H PROVE <<Along(d, f[h]), Across(d, f[h])>> = g[h]
    <3>1. PICK x \in Int, y \in Int : h = <<x, y>>
      BY <1>1
    <3>2. f[h] = IF angle = 90 THEN <<-y, x>> ELSE IF angle = 180 THEN <<-x, -y>> ELSE <<y, -x>>
      BY <2>1, <3>1 DEF Area!Turn
    <3>3. f[h] \in Int \X Int /\ g[h] = <<0 - y, 0 - x>>
      BY <1>2, <3>1, <3>2
    <3> QED BY <1>5, <3>2, <3>3, Looks
  <2>5. Shape(d, F) = {g[h] : h \in H}
    <3>1. \A e : e \in F <=> \E h \in H : e = f[h]
      BY <2>3
    <3>2. \A h \in H : <<Along(d, f[h]), Across(d, f[h])>> = g[h]
      BY <2>4, Zenon
    <3>3. ASSUME NEW p \in Shape(d, F) PROVE \E h \in H : p = g[h]
      <4>1. PICK e \in F : p = <<Along(d, e), Across(d, e)>>
        BY DEF Shape
      <4>2. PICK h \in H : e = f[h]
        BY <3>1
      <4> QED BY <3>2, <4>1, <4>2
    <3>4. ASSUME NEW h \in H PROVE g[h] \in Shape(d, F)
      <4>1. f[h] \in F
        BY <3>1
      <4> QED BY <3>2, <4>1 DEF Shape
    <3> QED BY <3>3, <3>4
  <2> QED BY <2>2, <2>5
<1> QED BY <1>3, <1>4, <1>5

(* And one for the diagonals.                                              *)
LEMMA DiagonalPictures ==
  ASSUME NEW m, Drawn(m), m.rows = m.cols, NEW H, H = Area!Hits(m),
         NEW b, b = Area!Blank(m), NEW sw, sw = Area!Flip(m, b)
  PROVE  /\ Shape("NW", H) = {<<0 - h[1] - h[2], h[2] - h[1]>> : h \in H}
         /\ Mirrored("NE", Area!Hits(Area!Mirror(m, b))) = {<<0 - h[1] - h[2], h[2] - h[1]>> : h \in H}
         /\ Mirrored("SW", Area!Hits(sw)) = {<<0 - h[1] - h[2], h[2] - h[1]>> : h \in H}
         /\ Shape("SE", Area!Hits(Area!Mirror(sw, b))) = {<<0 - h[1] - h[2], h[2] - h[1]>> : h \in H}
         /\ InMatrix(Area!Mirror(m, b)) /\ InMatrix(sw) /\ InMatrix(Area!Mirror(sw, b))
<1>1. H \subseteq Int \X Int
  BY DEF Drawn, Area!Hits
<1>2. PICK g : g = [h \in H |-> <<0 - h[1] - h[2], h[2] - h[1]>>]
  OBVIOUS
<1>3. {g[h] : h \in H} = {<<0 - h[1] - h[2], h[2] - h[1]>> : h \in H}
  BY <1>2
<1>4. Shape("NW", H) = {g[h] : h \in H}
  <2>1. \A h \in H : <<Along("NW", h), Across("NW", h)>> = g[h]
    BY <1>1, <1>2, Looks
  <2> QED BY <2>1 DEF Shape
<1>5. PICK z : z = 2 * m.rows
  OBVIOUS
<1>6. Square(m) /\ z \in Nat /\ z >= m.rows /\ z >= z
  BY <1>5 DEF Drawn, Square, InMatrix
<1>7. b = [rows |-> z, cols |-> z, cy |-> 0, cx |-> 0, cells |-> {}]
  BY <1>5 DEF Area!Blank
<1>8. PICK ne, se : ne = Area!Mirror(m, b) /\ se = Area!Mirror(sw, b)
  OBVIOUS
<1>9. Area!Hits(ne) = {<<0 - h[1], h[2]>> : h \in H} /\ Square(ne)
  BY <1>6, <1>7, <1>8, MirrorHits
<1>10. Area!Hits(sw) = {<<h[1], 0 - h[2]>> : h \in H} /\ Square(sw) /\ sw.rows = z
  BY <1>6, <1>7, FlipHits
<1>11. Area!Hits(se) = {<<0 - e[1], e[2]>> : e \in Area!Hits(sw)} /\ Square(se)
  BY <1>6, <1>7, <1>8, <1>10, MirrorHits
<1>12. Mirrored("NE", Area!Hits(ne)) = {g[h] : h \in H}
  <2>1. PICK f, F : f = [h \in H |-> <<0 - h[1], h[2]>>] /\ F = Area!Hits(ne)
    OBVIOUS
  <2>2. F = {f[h] : h \in H}
    BY <1>9, <2>1
  <2>3. ASSUME NEW h \in H PROVE <<Along("NE", f[h]), -Across("NE", f[h])>> = g[h]
    <3>1. PICK x \in Int, y \in Int : h = <<x, y>>
      BY <1>1
    <3>2. f[h] = <<0 - x, y>> /\ f[h] \in Int \X Int /\ g[h] = <<0 - x - y, y - x>>
      BY <1>2, <2>1, <3>1
    <3>3. Along("NE", f[h]) = 0 - x - y /\ Across("NE", f[h]) = x - y /\ -(x - y) = y - x
      BY <3>2, Looks
    <3> QED BY <3>2, <3>3
  <2>4. Mirrored("NE", F) = {g[h] : h \in H}
    <3>1. \A e : e \in F <=> \E h \in H : e = f[h]
      BY <2>2
    <3>2. \A h \in H : <<Along("NE", f[h]), -Across("NE", f[h])>> = g[h]
      BY <2>3, Zenon
    <3>3. ASSUME NEW p \in Mirrored("NE", F) PROVE \E h \in H : p = g[h]
      <4>1. PICK e \in F : p = <<Along("NE", e), -Across("NE", e)>>
        BY DEF Mirrored
      <4>2. PICK h \in H : e = f[h]
        BY <3>1
      <4> QED BY <3>2, <4>1, <4>2
    <3>4. ASSUME NEW h \in H PROVE g[h] \in Mirrored("NE", F)
      <4>1. f[h] \in F
        BY <3>1
      <4> QED BY <3>2, <4>1 DEF Mirrored
    <3> QED BY <3>3, <3>4
  <2> QED BY <2>1, <2>4
<1>13. Mirrored("SW", Area!Hits(sw)) = {g[h] : h \in H}
  <2>1. PICK f, F : f = [h \in H |-> <<h[1], 0 - h[2]>>] /\ F = Area!Hits(sw)
    OBVIOUS
  <2>2. F = {f[h] : h \in H}
    BY <1>10, <2>1
  <2>3. ASSUME NEW h \in H PROVE <<Along("SW", f[h]), -Across("SW", f[h])>> = g[h]
    <3>1. PICK x \in Int, y \in Int : h = <<x, y>>
      BY <1>1
    <3>2. f[h] = <<x, 0 - y>> /\ f[h] \in Int \X Int /\ g[h] = <<0 - x - y, y - x>>
      BY <1>2, <2>1, <3>1
    <3>3. Along("SW", f[h]) = 0 - x - y /\ Across("SW", f[h]) = x - y /\ -(x - y) = y - x
      BY <3>2, Looks
    <3> QED BY <3>2, <3>3
  <2>4. Mirrored("SW", F) = {g[h] : h \in H}
    <3>1. \A e : e \in F <=> \E h \in H : e = f[h]
      BY <2>2
    <3>2. \A h \in H : <<Along("SW", f[h]), -Across("SW", f[h])>> = g[h]
      BY <2>3, Zenon
    <3>3. ASSUME NEW p \in Mirrored("SW", F) PROVE \E h \in H : p = g[h]
      <4>1. PICK e \in F : p = <<Along("SW", e), -Across("SW", e)>>
        BY DEF Mirrored
      <4>2. PICK h \in H : e = f[h]
        BY <3>1
      <4> QED BY <3>2, <4>1, <4>2
    <3>4. ASSUME NEW h \in H PROVE g[h] \in Mirrored("SW", F)
      <4>1. f[h] \in F
        BY <3>1
      <4> QED BY <3>2, <4>1 DEF Mirrored
    <3> QED BY <3>3, <3>4
  <2> QED BY <2>1, <2>4
<1>14. Shape("SE", Area!Hits(se)) = {g[h] : h \in H}
  <2>1. PICK f, F : f = [h \in H |-> <<0 - h[1], 0 - h[2]>>] /\ F = Area!Hits(se)
    OBVIOUS
  <2>2. F = {f[h] : h \in H}
    <3>1. F = {<<0 - e[1], e[2]>> : e \in Area!Hits(sw)}
      BY <1>11, <2>1
    <3>2. ASSUME NEW p \in F PROVE \E h \in H : p = f[h]
      <4>1. PICK e \in Area!Hits(sw) : p = <<0 - e[1], e[2]>>
        BY <3>1
      <4>2. PICK h \in H : e = <<h[1], 0 - h[2]>>
        BY <1>10, <4>1
      <4> QED BY <2>1, <4>1, <4>2
    <3>3. ASSUME NEW h \in H PROVE f[h] \in F
      <4>1. <<h[1], 0 - h[2]>> \in Area!Hits(sw)
        BY <1>10
      <4> QED BY <2>1, <3>1, <4>1
    <3> QED BY <3>2, <3>3
  <2>3. ASSUME NEW h \in H PROVE <<Along("SE", f[h]), Across("SE", f[h])>> = g[h]
    <3>1. PICK x \in Int, y \in Int : h = <<x, y>>
      BY <1>1
    <3>2. f[h] = <<0 - x, 0 - y>> /\ f[h] \in Int \X Int /\ g[h] = <<0 - x - y, y - x>>
      BY <1>2, <2>1, <3>1
    <3>3. Along("SE", f[h]) = 0 - x - y /\ Across("SE", f[h]) = y - x
      BY <3>2, Looks
    <3> QED BY <3>2, <3>3
  <2>4. Shape("SE", F) = {g[h] : h \in H}
    <3>1. \A e : e \in F <=> \E h \in H : e = f[h]
      BY <2>2
    <3>2. \A h \in H : <<Along("SE", f[h]), Across("SE", f[h])>> = g[h]
      BY <2>3, Zenon
    <3>3. ASSUME NEW p \in Shape("SE", F) PROVE \E h \in H : p = g[h]
      <4>1. PICK e \in F : p = <<Along("SE", e), Across("SE", e)>>
        BY DEF Shape
      <4>2. PICK h \in H : e = f[h]
        BY <3>1
      <4> QED BY <3>2, <4>1, <4>2
    <3>4. ASSUME NEW h \in H PROVE g[h] \in Shape("SE", F)
      <4>1. f[h] \in F
        BY <3>1
      <4> QED BY <3>2, <4>1 DEF Shape
    <3> QED BY <3>3, <3>4
  <2> QED BY <2>1, <2>4
<1>15. InMatrix(ne) /\ InMatrix(sw) /\ InMatrix(se)
  BY <1>9, <1>10, <1>11 DEF Square
<1> QED BY <1>3, <1>4, <1>8, <1>12, <1>13, <1>14, <1>15

(* The direction of the square ahead.                                      *)
LEMMA AimedAt ==
  /\ \A d \in {"N", "E", "S", "W"} : Area!Direction(Area!Ahead[d][1], Area!Ahead[d][2], FALSE) = d
  /\ \A d \in {"NW", "NE", "SW", "SE"} : Area!Direction(Area!Ahead[d][1], Area!Ahead[d][2], TRUE) = d
<1>1. /\ Area!Ahead["N"] = <<0, -1>> /\ Area!Ahead["S"] = <<0, 1>>
      /\ Area!Ahead["E"] = <<1, 0>> /\ Area!Ahead["W"] = <<-1, 0>>
      /\ Area!Ahead["NW"] = <<-1, -1>> /\ Area!Ahead["NE"] = <<1, -1>>
      /\ Area!Ahead["SW"] = <<-1, 1>> /\ Area!Ahead["SE"] = <<1, 1>>
  BY DEF Area!Ahead
<1> QED BY <1>1 DEF Area!Direction

AreaInv ==
  /\ Drawn(given)
  /\ \/ turned = Area!NoAreas /\ extended = FALSE
     \/ /\ extended = FALSE
        /\ turned = [N |-> given, S |-> Area!Rotate(given, 180), E |-> Area!Rotate(given, 90),
                     W |-> Area!Rotate(given, 270)]
     \/ /\ extended = TRUE
        /\ turned = [NW |-> given, NE |-> Area!Mirror(given, Area!Blank(given)),
                     SW |-> Area!Flip(given, Area!Blank(given)),
                     SE |-> Area!Mirror(Area!Flip(given, Area!Blank(given)), Area!Blank(given))]

LEMMA AreaStep == AreaInv /\ [Area!Next]_areaVars => AreaInv'
<1> SUFFICES ASSUME AreaInv, [Area!Next]_areaVars
             PROVE  AreaInv'
  OBVIOUS
<1>0. given' = given
  BY DEF Area!Next, Area!SetupArea, Area!SetupExtArea, areaVars
<1>1. CASE Area!SetupArea
  <2>1. extended = FALSE
    <3>1. turned = <<>>
      BY <1>1 DEF Area!SetupArea, Area!NoAreas
    <3>2. DOMAIN turned = {}
      BY <3>1
    <3>3. \A x, y, z, w : DOMAIN [NW |-> x, NE |-> y, SW |-> z, SE |-> w] # {}
      OBVIOUS
    <3> QED BY <3>2, <3>3 DEF AreaInv
  <2> QED BY <1>0, <1>1, <2>1 DEF AreaInv, Area!SetupArea
<1>2. CASE Area!SetupExtArea
  BY <1>0, <1>2 DEF AreaInv, Area!SetupExtArea
<1>3. CASE UNCHANGED areaVars
  BY <1>3 DEF AreaInv, areaVars
<1> QED BY <1>1, <1>2, <1>3 DEF Area!Next

LEMMA AreaSound == AreaInv => Area!AreaSameAllAround
<1> SUFFICES ASSUME AreaInv PROVE Area!AreaSameAllAround
  OBVIOUS
<1> DEFINE first == IF extended THEN "NW" ELSE "N"
           Same(d) == /\ InMatrix(turned[d])
                      /\ (extended => given.rows = given.cols) =>
                         (IF d \in {"NE", "SW"} THEN Mirrored(d, Area!Hits(turned[d]))
                          ELSE Shape(d, Area!Hits(turned[d])))
                         = Shape(first, Area!Hits(turned[first]))
                      /\ Area!Direction(Area!Ahead[d][1], Area!Ahead[d][2], extended) = d
<1>1. SUFFICES \A d \in DOMAIN turned : Same(d)
  BY DEF Area!AreaSameAllAround, InMatrix, Shape, Mirrored, Along, Across
<1>2. PICK m : m = given
  OBVIOUS
<1>3. Drawn(m) /\ InMatrix(m)
  BY <1>2 DEF AreaInv, Drawn, InMatrix
<1>4. CASE turned = Area!NoAreas
  BY <1>4 DEF Area!NoAreas
<1>5. CASE /\ extended = FALSE
           /\ turned = [N |-> given, S |-> Area!Rotate(given, 180), E |-> Area!Rotate(given, 90),
                        W |-> Area!Rotate(given, 270)]
  <2>1. PICK s, e, w : s = Area!Rotate(m, 180) /\ e = Area!Rotate(m, 90) /\ w = Area!Rotate(m, 270)
    OBVIOUS
  <2>2. turned = [N |-> m, S |-> s, E |-> e, W |-> w]
    BY <1>2, <1>5, <2>1
  <2>3. /\ DOMAIN turned = {"N", "E", "S", "W"}
        /\ turned["N"] = m /\ turned["S"] = s /\ turned["E"] = e /\ turned["W"] = w
    BY <2>2
  <2>4. InMatrix(s) /\ InMatrix(e) /\ InMatrix(w)
    BY <1>3, <2>1, RotateHits
  <2>5. PICK P : P = {<<0 - h[2], 0 - h[1]>> : h \in Area!Hits(m)}
    OBVIOUS
  <2>6. /\ Shape("N", Area!Hits(m)) = P /\ Shape("E", Area!Hits(e)) = P
        /\ Shape("S", Area!Hits(s)) = P /\ Shape("W", Area!Hits(w)) = P
    BY <1>3, <2>1, <2>5, RoundPictures
  <2>7. \A d \in {"N", "E", "S", "W"} : Area!Direction(Area!Ahead[d][1], Area!Ahead[d][2], extended) = d
    BY <1>5, AimedAt
  <2>8. Shape(first, Area!Hits(turned[first])) = P
    BY <1>5, <2>3, <2>6
  <2> QED BY <1>3, <2>3, <2>4, <2>6, <2>7, <2>8
<1>6. CASE /\ extended = TRUE
           /\ turned = [NW |-> given, NE |-> Area!Mirror(given, Area!Blank(given)),
                        SW |-> Area!Flip(given, Area!Blank(given)),
                        SE |-> Area!Mirror(Area!Flip(given, Area!Blank(given)), Area!Blank(given))]
  <2>1. PICK b, sw : b = Area!Blank(m) /\ sw = Area!Flip(m, Area!Blank(m))
    OBVIOUS
  <2>1a. sw = Area!Flip(m, b)
    BY <2>1
  <2>2. PICK ne, se : ne = Area!Mirror(m, b) /\ se = Area!Mirror(sw, b)
    OBVIOUS
  <2>3. turned = [NW |-> m, NE |-> ne, SW |-> sw, SE |-> se]
    BY <1>2, <1>6, <2>1, <2>2
  <2>4. /\ DOMAIN turned = {"NW", "NE", "SW", "SE"}
        /\ turned["NW"] = m /\ turned["NE"] = ne /\ turned["SW"] = sw /\ turned["SE"] = se
    BY <2>3
  <2>5. PICK P : P = {<<0 - h[1] - h[2], h[2] - h[1]>> : h \in Area!Hits(m)}
    OBVIOUS
  <2>6. ASSUME given.rows = given.cols
        PROVE  /\ Shape("NW", Area!Hits(m)) = P /\ Mirrored("NE", Area!Hits(ne)) = P
               /\ Mirrored("SW", Area!Hits(sw)) = P /\ Shape("SE", Area!Hits(se)) = P
    BY <2>6, <1>2, <1>3, <1>6, <2>1, <2>1a, <2>2, <2>5, DiagonalPictures
  <2>7. \A d \in {"NW", "NE", "SW", "SE"} :
          Area!Direction(Area!Ahead[d][1], Area!Ahead[d][2], extended) = d
    BY <1>6, AimedAt
  <2>8. given.rows = given.cols => Shape(first, Area!Hits(turned[first])) = P
    BY <1>6, <2>4, <2>6
  <2>9. InMatrix(ne) /\ InMatrix(sw) /\ InMatrix(se)
    <3>1. PICK side \in Nat : side = IF m.cols > m.rows THEN m.cols ELSE m.rows
      BY <1>3 DEF Drawn
    <3>2. PICK z \in Nat : z = 2 * side
      OBVIOUS
    <3>3. b = [rows |-> z, cols |-> z, cy |-> 0, cx |-> 0, cells |-> {}]
      BY <2>1, <3>1, <3>2 DEF Area!Blank
    <3>4. WithinBlank(m, z)
      BY <1>3, <3>1, <3>2 DEF Drawn, WithinBlank
    <3>5. WithinBlank(ne, z) /\ WithinBlank(sw, z)
      BY <2>1a, <2>2, <3>3, <3>4, MirrorFits
    <3>6. WithinBlank(se, z)
      BY <2>2, <3>3, <3>5, MirrorFits
    <3> QED BY <3>5, <3>6 DEF WithinBlank, InMatrix
  <2>10. \A d \in {"NW", "NE", "SW", "SE"} : InMatrix(turned[d])
    BY <1>3, <2>4, <2>9
  <2>11. ASSUME given.rows = given.cols, NEW d \in {"NW", "NE", "SW", "SE"}
         PROVE  (IF d \in {"NE", "SW"} THEN Mirrored(d, Area!Hits(turned[d]))
                 ELSE Shape(d, Area!Hits(turned[d]))) = Shape(first, Area!Hits(turned[first]))
    BY <2>4, <2>6, <2>8, <2>11
  <2> QED BY <2>4, <2>7, <2>10, <2>11, <1>6
<1> QED BY <1>4, <1>5, <1>6 DEF AreaInv

(* However large an area is and wherever its centre, a spell hits the same *)
(* squares in all the directions, seen from its caster, and writes none    *)
(* outside its matrix (AreaCombat::copyArea, setupArea, setupExtArea,      *)
(* getArea).                                                               *)
THEOREM AreasAlwaysSame == WorldSpec => []AreaSameAllAround
<1> DEFINE Inv == scene = "area" => AreaInv
<1>1. WorldInit => Inv
  BY GivenDrawn DEF WorldInit, Area!Init, AreaInv
<1>2. Inv /\ [WorldNext]_<<scene, stepsVars, rayVars, areaVars, searchVars, cachedVars>> => Inv'
  <2> SUFFICES ASSUME Inv, scene' = "area",
                      [WorldNext]_<<scene, stepsVars, rayVars, areaVars, searchVars, cachedVars>>
               PROVE  AreaInv'
    OBVIOUS
  <2>1. scene = "area" /\ [Area!Next]_areaVars
    BY DEF WorldNext
  <2> QED BY <2>1, AreaStep
<1>3. Inv => AreaSameAllAround
  BY AreaSound DEF AreaSameAllAround
<1> QED BY <1>1, <1>2, <1>3, PTL DEF WorldSpec

-----------------------------------------------------------------------------
(* PathSearch, which MCWorld calls Search.  First the squares around one.  *)

(* The offsets of the eight squares around one, and the squares.           *)
Ring == {e \in (-1 .. 1) \X (-1 .. 1) : e # <<0, 0>>}
Beside(p, q) == Search!Distance(p, q) = 1

LEMMA BesideIs ==
  ASSUME NEW p \in Search!Cell, NEW q \in Search!Cell
  PROVE  /\ Beside(p, q) <=> <<q[1] - p[1], q[2] - p[2]>> \in Ring
         /\ Beside(p, q) => Beside(q, p) /\ p # q
<1>1. PICK a, b, c, d : /\ a = p[1] /\ b = p[2] /\ c = q[1] /\ d = q[2]
                        /\ p = <<a, b>> /\ q = <<c, d>>
  BY DEF Search!Cell
<1>2. a \in Int /\ b \in Int /\ c \in Int /\ d \in Int
  BY <1>1, WorldAssumption DEF Search!Cell
<1>3. Beside(p, q) <=> /\ c - a \in -1 .. 1 /\ d - b \in -1 .. 1
                       /\ ~(c = a /\ d = b)
  BY <1>1, <1>2 DEF Beside, Search!Distance, Search!Farther, Search!Gap
<1>4. Beside(q, p) <=> /\ a - c \in -1 .. 1 /\ b - d \in -1 .. 1
                       /\ ~(c = a /\ d = b)
  BY <1>1, <1>2 DEF Beside, Search!Distance, Search!Farther, Search!Gap
<1>5. <<c - a, d - b>> \in Ring <=> /\ c - a \in -1 .. 1 /\ d - b \in -1 .. 1
                                    /\ ~(c = a /\ d = b)
  BY <1>2 DEF Ring
<1>6. p = q => c = a /\ d = b
  BY <1>1
<1>7. <<q[1] - p[1], q[2] - p[2]>> = <<c - a, d - b>>
  BY <1>1
<1>8. Beside(p, q) <=> <<q[1] - p[1], q[2] - p[2]>> \in Ring
  BY <1>3, <1>5, <1>7
<1>9. /\ c - a \in -1 .. 1 => a - c \in -1 .. 1
      /\ d - b \in -1 .. 1 => b - d \in -1 .. 1
  BY <1>2
<1>10. Beside(p, q) => Beside(q, p) /\ p # q
  BY <1>3, <1>4, <1>6, <1>9
<1> QED BY <1>8, <1>10

(* What is in a table.                                                     *)
Holds(table, S) == {table[k] : k \in 1 .. Len(table)} = S

LEMMA TablesHold ==
  /\ Holds(Search!AllNeighbors, Ring)
  /\ Holds(Search!North, {<<-1, 0>>, <<0, 1>>, <<1, 0>>, <<1, 1>>, <<-1, 1>>})
  /\ Holds(Search!East, {<<-1, 0>>, <<0, 1>>, <<0, -1>>, <<-1, -1>>, <<-1, 1>>})
  /\ Holds(Search!South, {<<-1, 0>>, <<1, 0>>, <<0, -1>>, <<-1, -1>>, <<1, -1>>})
  /\ Holds(Search!West, {<<0, 1>>, <<1, 0>>, <<0, -1>>, <<1, -1>>, <<1, 1>>})
  /\ Holds(Search!SouthWest, {<<1, 0>>, <<0, -1>>, <<-1, -1>>, <<1, -1>>, <<1, 1>>})
  /\ Holds(Search!SouthEast, {<<-1, 0>>, <<0, -1>>, <<-1, -1>>, <<1, -1>>, <<-1, 1>>})
  /\ Holds(Search!NorthWest, {<<0, 1>>, <<1, 0>>, <<1, -1>>, <<1, 1>>, <<-1, 1>>})
  /\ Holds(Search!NorthEast, {<<-1, 0>>, <<0, 1>>, <<-1, -1>>, <<1, 1>>, <<-1, 1>>})
<1>1. ASSUME NEW a, NEW b, NEW c, NEW d, NEW e PROVE Holds(<<a, b, c, d, e>>, {a, b, c, d, e})
  <2>1. /\ Len(<<a, b, c, d, e>>) = 5
        /\ \A k \in 1 .. 5 : k \in {1, 2, 3, 4, 5}
    OBVIOUS
  <2> QED BY <2>1 DEF Holds
<1>2. Holds(Search!AllNeighbors, Ring)
  <2>1. /\ Len(Search!AllNeighbors) = 8
        /\ \A k \in 1 .. 8 : k \in {1, 2, 3, 4, 5, 6, 7, 8}
    BY DEF Search!AllNeighbors
  <2>2. {Search!AllNeighbors[k] : k \in 1 .. 8}
          = {<<-1, 0>>, <<0, 1>>, <<1, 0>>, <<0, -1>>, <<-1, -1>>, <<1, -1>>, <<1, 1>>, <<-1, 1>>}
    BY <2>1 DEF Search!AllNeighbors
  <2>3. \A x, y \in {-1, 0, 1} : <<x, y>> # <<0, 0>> =>
          <<x, y>> \in {<<-1, 0>>, <<0, 1>>, <<1, 0>>, <<0, -1>>, <<-1, -1>>, <<1, -1>>, <<1, 1>>, <<-1, 1>>}
    OBVIOUS
  <2>4. -1 .. 1 = {-1, 0, 1}
    OBVIOUS
  <2>5. Ring = {<<-1, 0>>, <<0, 1>>, <<1, 0>>, <<0, -1>>, <<-1, -1>>, <<1, -1>>, <<1, 1>>, <<-1, 1>>}
    BY <2>3, <2>4 DEF Ring
  <2> QED BY <2>1, <2>2, <2>5 DEF Holds
<1> QED BY <1>1, <1>2 DEF Search!North, Search!East, Search!South, Search!West, Search!SouthWest,
           Search!SouthEast, Search!NorthWest, Search!NorthEast

(* A node looks back at no square, but its parent's and those that are as  *)
(* near to the parent.                                                     *)
LEMMA FewAreEnough ==
  ASSUME NEW d \in Ring
  PROVE  \E S \in SUBSET Ring :
           /\ Holds(Search!DirNeighbors(d[1], d[2]), S)
           /\ \A e \in Ring : \/ e = d \/ e \in S
                             \/ /\ <<e[1] - d[1], e[2] - d[2]>> \in Ring
                                /\ e[1] = d[1] \/ e[2] = d[2]
<1>1. PICK x \in {-1, 0, 1}, y \in {-1, 0, 1} : d = <<x, y>> /\ d # <<0, 0>>
  BY DEF Ring
<1> DEFINE Enough(S) ==
      /\ S \in SUBSET Ring
      /\ \A e \in Ring : \/ e = <<x, y>> \/ e \in S
                        \/ /\ <<e[1] - x, e[2] - y>> \in Ring
                           /\ e[1] = x \/ e[2] = y
           Nice(table) == \E S : Holds(table, S) /\ Enough(S)
           T == Search!DirNeighbors(x, y)
<1>2. ASSUME NEW S \in SUBSET ({-1, 0, 1} \X {-1, 0, 1}), <<0, 0>> \notin S,
             \A a, b \in {-1, 0, 1} :
               \/ (a = x /\ b = y) \/ (a = 0 /\ b = 0) \/ <<a, b>> \in S
               \/ a = x /\ b - y \in {-1, 1}
               \/ b = y /\ a - x \in {-1, 1}
      PROVE  Enough(S)
  <2>1. S \in SUBSET Ring
    BY <1>2 DEF Ring
  <2>2. ASSUME NEW e \in Ring, e # <<x, y>>, e \notin S
        PROVE  <<e[1] - x, e[2] - y>> \in Ring /\ (e[1] = x \/ e[2] = y)
    <3>1. PICK a \in {-1, 0, 1}, b \in {-1, 0, 1} : e = <<a, b>> /\ ~(a = 0 /\ b = 0)
      BY DEF Ring
    <3>2. (a = x /\ b - y \in {-1, 1}) \/ (b = y /\ a - x \in {-1, 1})
      BY <1>2, <2>2, <3>1
    <3>3. e[1] = a /\ e[2] = b /\ a - x \in -1 .. 1 /\ b - y \in -1 .. 1 /\ ~(a = x /\ b = y)
      BY <3>1, <3>2
    <3> QED BY <3>2, <3>3 DEF Ring
  <2> QED BY <2>1, <2>2
<1> SUFFICES Nice(T)
  BY <1>1
<1> HIDE DEF Enough
<1>3. CASE x = 0 /\ y = -1
  <2>1. T = Search!North
    BY <1>3 DEF Search!DirNeighbors
  <2>2. PICK S : S = {<<-1, 0>>, <<0, 1>>, <<1, 0>>, <<1, 1>>, <<-1, 1>>}
    OBVIOUS
  <2>3. /\ S \in SUBSET ({-1, 0, 1} \X {-1, 0, 1}) /\ <<0, 0>> \notin S
        /\ <<-1, 0>> \in S /\ <<0, 1>> \in S /\ <<1, 0>> \in S
        /\ <<1, 1>> \in S /\ <<-1, 1>> \in S
    BY <2>2
  <2>4. \A a, b \in {-1, 0, 1} :
          \/ (a = x /\ b = y) \/ (a = 0 /\ b = 0) \/ <<a, b>> \in S
          \/ a = x /\ b - y \in {-1, 1}
          \/ b = y /\ a - x \in {-1, 1}
    BY <1>3, <2>3
  <2>5. Enough(S)
    BY <1>2, <2>3, <2>4
  <2> QED BY <2>1, <2>2, <2>5, TablesHold
<1>4. CASE x = 0 /\ y = 1
  <2>1. T = Search!South
    BY <1>4 DEF Search!DirNeighbors
  <2>2. PICK S : S = {<<-1, 0>>, <<1, 0>>, <<0, -1>>, <<-1, -1>>, <<1, -1>>}
    OBVIOUS
  <2>3. /\ S \in SUBSET ({-1, 0, 1} \X {-1, 0, 1}) /\ <<0, 0>> \notin S
        /\ <<-1, 0>> \in S /\ <<1, 0>> \in S /\ <<0, -1>> \in S
        /\ <<-1, -1>> \in S /\ <<1, -1>> \in S
    BY <2>2
  <2>4. \A a, b \in {-1, 0, 1} :
          \/ (a = x /\ b = y) \/ (a = 0 /\ b = 0) \/ <<a, b>> \in S
          \/ a = x /\ b - y \in {-1, 1}
          \/ b = y /\ a - x \in {-1, 1}
    BY <1>4, <2>3
  <2>5. Enough(S)
    BY <1>2, <2>3, <2>4
  <2> QED BY <2>1, <2>2, <2>5, TablesHold
<1>5. CASE x = -1 /\ y = 0
  <2>1. T = Search!West
    BY <1>5 DEF Search!DirNeighbors
  <2>2. PICK S : S = {<<0, 1>>, <<1, 0>>, <<0, -1>>, <<1, -1>>, <<1, 1>>}
    OBVIOUS
  <2>3. /\ S \in SUBSET ({-1, 0, 1} \X {-1, 0, 1}) /\ <<0, 0>> \notin S
        /\ <<0, 1>> \in S /\ <<1, 0>> \in S /\ <<0, -1>> \in S
        /\ <<1, -1>> \in S /\ <<1, 1>> \in S
    BY <2>2
  <2>4. \A a, b \in {-1, 0, 1} :
          \/ (a = x /\ b = y) \/ (a = 0 /\ b = 0) \/ <<a, b>> \in S
          \/ a = x /\ b - y \in {-1, 1}
          \/ b = y /\ a - x \in {-1, 1}
    BY <1>5, <2>3
  <2>5. Enough(S)
    BY <1>2, <2>3, <2>4
  <2> QED BY <2>1, <2>2, <2>5, TablesHold
<1>6. CASE x = 1 /\ y = 0
  <2>1. T = Search!East
    BY <1>6 DEF Search!DirNeighbors
  <2>2. PICK S : S = {<<-1, 0>>, <<0, 1>>, <<0, -1>>, <<-1, -1>>, <<-1, 1>>}
    OBVIOUS
  <2>3. /\ S \in SUBSET ({-1, 0, 1} \X {-1, 0, 1}) /\ <<0, 0>> \notin S
        /\ <<-1, 0>> \in S /\ <<0, 1>> \in S /\ <<0, -1>> \in S
        /\ <<-1, -1>> \in S /\ <<-1, 1>> \in S
    BY <2>2
  <2>4. \A a, b \in {-1, 0, 1} :
          \/ (a = x /\ b = y) \/ (a = 0 /\ b = 0) \/ <<a, b>> \in S
          \/ a = x /\ b - y \in {-1, 1}
          \/ b = y /\ a - x \in {-1, 1}
    BY <1>6, <2>3
  <2>5. Enough(S)
    BY <1>2, <2>3, <2>4
  <2> QED BY <2>1, <2>2, <2>5, TablesHold
<1>7. CASE x = -1 /\ y = -1
  <2>1. T = Search!NorthWest
    BY <1>7 DEF Search!DirNeighbors
  <2>2. PICK S : S = {<<0, 1>>, <<1, 0>>, <<1, -1>>, <<1, 1>>, <<-1, 1>>}
    OBVIOUS
  <2>3. /\ S \in SUBSET ({-1, 0, 1} \X {-1, 0, 1}) /\ <<0, 0>> \notin S
        /\ <<0, 1>> \in S /\ <<1, 0>> \in S /\ <<1, -1>> \in S
        /\ <<1, 1>> \in S /\ <<-1, 1>> \in S
    BY <2>2
  <2>4. \A a, b \in {-1, 0, 1} :
          \/ (a = x /\ b = y) \/ (a = 0 /\ b = 0) \/ <<a, b>> \in S
          \/ a = x /\ b - y \in {-1, 1}
          \/ b = y /\ a - x \in {-1, 1}
    BY <1>7, <2>3
  <2>5. Enough(S)
    BY <1>2, <2>3, <2>4
  <2> QED BY <2>1, <2>2, <2>5, TablesHold
<1>8. CASE x = 1 /\ y = -1
  <2>1. T = Search!NorthEast
    BY <1>8 DEF Search!DirNeighbors
  <2>2. PICK S : S = {<<-1, 0>>, <<0, 1>>, <<-1, -1>>, <<1, 1>>, <<-1, 1>>}
    OBVIOUS
  <2>3. /\ S \in SUBSET ({-1, 0, 1} \X {-1, 0, 1}) /\ <<0, 0>> \notin S
        /\ <<-1, 0>> \in S /\ <<0, 1>> \in S /\ <<-1, -1>> \in S
        /\ <<1, 1>> \in S /\ <<-1, 1>> \in S
    BY <2>2
  <2>4. \A a, b \in {-1, 0, 1} :
          \/ (a = x /\ b = y) \/ (a = 0 /\ b = 0) \/ <<a, b>> \in S
          \/ a = x /\ b - y \in {-1, 1}
          \/ b = y /\ a - x \in {-1, 1}
    BY <1>8, <2>3
  <2>5. Enough(S)
    BY <1>2, <2>3, <2>4
  <2> QED BY <2>1, <2>2, <2>5, TablesHold
<1>9. CASE x = -1 /\ y = 1
  <2>1. T = Search!SouthWest
    BY <1>9 DEF Search!DirNeighbors
  <2>2. PICK S : S = {<<1, 0>>, <<0, -1>>, <<-1, -1>>, <<1, -1>>, <<1, 1>>}
    OBVIOUS
  <2>3. /\ S \in SUBSET ({-1, 0, 1} \X {-1, 0, 1}) /\ <<0, 0>> \notin S
        /\ <<1, 0>> \in S /\ <<0, -1>> \in S /\ <<-1, -1>> \in S
        /\ <<1, -1>> \in S /\ <<1, 1>> \in S
    BY <2>2
  <2>4. \A a, b \in {-1, 0, 1} :
          \/ (a = x /\ b = y) \/ (a = 0 /\ b = 0) \/ <<a, b>> \in S
          \/ a = x /\ b - y \in {-1, 1}
          \/ b = y /\ a - x \in {-1, 1}
    BY <1>9, <2>3
  <2>5. Enough(S)
    BY <1>2, <2>3, <2>4
  <2> QED BY <2>1, <2>2, <2>5, TablesHold
<1>10. CASE x = 1 /\ y = 1
  <2>1. T = Search!SouthEast
    BY <1>10 DEF Search!DirNeighbors
  <2>2. PICK S : S = {<<-1, 0>>, <<0, -1>>, <<-1, -1>>, <<1, -1>>, <<-1, 1>>}
    OBVIOUS
  <2>3. /\ S \in SUBSET ({-1, 0, 1} \X {-1, 0, 1}) /\ <<0, 0>> \notin S
        /\ <<-1, 0>> \in S /\ <<0, -1>> \in S /\ <<-1, -1>> \in S
        /\ <<1, -1>> \in S /\ <<-1, 1>> \in S
    BY <2>2
  <2>4. \A a, b \in {-1, 0, 1} :
          \/ (a = x /\ b = y) \/ (a = 0 /\ b = 0) \/ <<a, b>> \in S
          \/ a = x /\ b - y \in {-1, 1}
          \/ b = y /\ a - x \in {-1, 1}
    BY <1>10, <2>3
  <2>5. Enough(S)
    BY <1>2, <2>3, <2>4
  <2> QED BY <2>1, <2>2, <2>5, TablesHold
<1> QED
  BY <1>1, <1>3, <1>4, <1>5, <1>6, <1>7, <1>8, <1>9, <1>10

-----------------------------------------------------------------------------
(* One neighbour.                                                          *)

Nodes == [at : Search!Cell, f : Nat, parent : Nat, open : BOOLEAN]
Usable(p) == Search!CanWalkTo(p) /\ Search!Allowed(p)
Fare(p, q) == Search!WalkCost(p, q) + Search!TileCost(q)

LEMMA FareIs ==
  ASSUME NEW p, NEW q PROVE Fare(p, q) \in Nat /\ Fare(p, q) > 0
BY DEF Fare, Search!WalkCost, Search!TileCost

LEMMA NodeIs ==
  ASSUME NEW ns \in Seq(Nodes), NEW i \in DOMAIN ns
  PROVE  /\ ns[i] \in Nodes /\ ns[i].at \in Search!Cell /\ ns[i].f \in Nat
         /\ ns[i].parent \in Nat /\ ns[i].open \in BOOLEAN
<1>1. ns[i] \in Nodes
  OBVIOUS
<1> QED BY <1>1 DEF Nodes

(* One node for every square; all but the first, which is the start, were  *)
(* reached from a closed one, at the cost they say; a closed node costs no *)
(* more than an open one.                                                  *)
Tree(ns) ==
  /\ ns \in Seq(Nodes) /\ 1 \in DOMAIN ns
  /\ \A i, j \in DOMAIN ns : ns[i].at = ns[j].at => i = j
  /\ ns[1].at = start /\ ns[1].f = 0 /\ ns[1].parent = 0
  /\ \A i \in DOMAIN ns : Search!CanWalkTo(ns[i].at)
  /\ \A i \in DOMAIN ns \ {1} :
       /\ ns[i].parent \in DOMAIN ns /\ ~ns[ns[i].parent].open
       /\ Beside(ns[i].at, ns[ns[i].parent].at)
       /\ ns[i].f = ns[ns[i].parent].f + Fare(ns[ns[i].parent].at, ns[i].at)
  /\ \A i, j \in DOMAIN ns : ~ns[i].open /\ ns[j].open => ns[i].f <= ns[j].f

Cheapest(ns, n) ==
  /\ n \in DOMAIN ns /\ ns[n].open
  /\ \A j \in DOMAIN ns : ns[j].open => ns[n].f <= ns[j].f

(* Node i was made, or made cheaper, when n was looked from.               *)
Opened(n, ns, ms, i) ==
  /\ ms[i].open /\ ms[i].parent = n
  /\ Search!CanWalkTo(ms[i].at) /\ Beside(ms[i].at, ns[n].at)
  /\ ms[i].f = ns[n].f + Fare(ns[n].at, ms[i].at)
  /\ i \in DOMAIN ns => ns[i].open /\ ns[i].at = ms[i].at /\ ms[i].f < ns[i].f

Reached(n, ns, ms, q) ==
  \E j \in DOMAIN ms : ms[j].at = q /\ ms[j].f <= ns[n].f + Fare(ns[n].at, q)

(* n has looked at the squares of K.                                       *)
Looked(n, ns, s, K) ==
  /\ s \in [nodes : Seq(Nodes), closed : Int, full : BOOLEAN]
  /\ Len(ns) <= Len(s.nodes)
  /\ \A i, j \in DOMAIN s.nodes : s.nodes[i].at = s.nodes[j].at => i = j
  /\ \A i \in DOMAIN s.nodes :
       \/ i \in DOMAIN ns /\ s.nodes[i] = ns[i]
       \/ Opened(n, ns, s.nodes, i)
  /\ s.full => Len(s.nodes) = MaxNodes
  /\ ~s.full => \A q \in K : Usable(q) => Reached(n, ns, s.nodes, q)

LEMMA LookedMore ==
  ASSUME NEW n, NEW ns, NEW s, NEW K, NEW p, Looked(n, ns, s, K),
         ~s.full /\ Usable(p) => Reached(n, ns, s.nodes, p)
  PROVE  Looked(n, ns, s, K \cup {p})
BY DEF Looked

(* n itself stays.                                                         *)
LEMMA LookedFrom ==
  ASSUME NEW ns, Tree(ns), NEW n, Cheapest(ns, n), NEW s, NEW K, Looked(n, ns, s, K)
  PROVE  /\ n \in DOMAIN s.nodes /\ s.nodes[n] = ns[n]
         /\ ns[n] \in Nodes /\ ns \in Seq(Nodes) /\ s.nodes \in Seq(Nodes)
         /\ \A i \in DOMAIN ns : i \in DOMAIN s.nodes /\ s.nodes[i].at = ns[i].at
                                 /\ s.nodes[i].f <= ns[i].f
<1>1. ns \in Seq(Nodes) /\ s.nodes \in Seq(Nodes) /\ Len(ns) <= Len(s.nodes)
  BY DEF Tree, Looked
<1>2. \A i \in DOMAIN ns : i \in DOMAIN s.nodes
  BY <1>1
<1>3. \A i \in DOMAIN ns : ns[i] \in Nodes /\ ns[i].f \in Nat
  BY <1>1, NodeIs
<1>4. n \in DOMAIN ns
  BY DEF Cheapest
<1>5. ~Opened(n, ns, s.nodes, n)
  <2> SUFFICES ASSUME Opened(n, ns, s.nodes, n) PROVE FALSE
    OBVIOUS
  <2>1. s.nodes[n].f = ns[n].f + Fare(ns[n].at, s.nodes[n].at) /\ s.nodes[n].f < ns[n].f
    BY <1>4 DEF Opened
  <2> QED BY <1>3, <1>4, <2>1, FareIs
<1>6. s.nodes[n] = ns[n]
  BY <1>2, <1>4, <1>5 DEF Looked
<1>7. ASSUME NEW i \in DOMAIN ns PROVE s.nodes[i].at = ns[i].at /\ s.nodes[i].f <= ns[i].f
  <2>1. CASE s.nodes[i] = ns[i]
    BY <1>3, <2>1
  <2>2. CASE Opened(n, ns, s.nodes, i)
    <3>1. s.nodes[i] \in Nodes
      BY <1>1, <1>2
    <3> QED BY <1>3, <2>2, <3>1 DEF Opened, Nodes
  <2> QED BY <1>2, <2>1, <2>2 DEF Looked
<1> QED BY <1>1, <1>2, <1>3, <1>4, <1>6, <1>7

(* What becomes of a node that is found to be reached at a lower cost.     *)
Relinked(n, m, cost) == [m EXCEPT !.f = cost, !.parent = n, !.open = TRUE]

LookOutcome(n, s, p, cost, v) ==
  \/ v = s /\ (s.full \/ ~Usable(p))
  \/ \E i \in DOMAIN s.nodes : s.nodes[i].at = p /\ v = s /\ s.nodes[i].f <= cost
  \/ \E i \in DOMAIN s.nodes :
       /\ s.nodes[i].at = p /\ ~(s.nodes[i].f <= cost) /\ ~s.full
       /\ \E c : /\ c \in {s.closed, s.closed - 1}
                 /\ v = [s EXCEPT !.nodes = [s.nodes EXCEPT ![i] = Relinked(n, s.nodes[i], cost)],
                                  !.closed = c]
  \/ v = [s EXCEPT !.full = TRUE] /\ Len(s.nodes) = MaxNodes
  \/ /\ \A i \in DOMAIN s.nodes : s.nodes[i].at # p
     /\ Search!CanWalkTo(p) /\ ~s.full
     /\ v = [s EXCEPT !.nodes = Append(s.nodes, [at |-> p, f |-> cost, parent |-> n, open |-> TRUE])]

LEMMA LookGives ==
  ASSUME NEW n, NEW s, NEW p, s.nodes \in Seq(Nodes),
         NEW cost, cost = s.nodes[n].f + Search!WalkCost(s.nodes[n].at, p) + Search!TileCost(p),
         NEW v, v = Search!Look(n, s, p)
  PROVE  LookOutcome(n, s, p, cost, v)
<1>1. PICK known : known = {i \in DOMAIN s.nodes : s.nodes[i].at = p}
  OBVIOUS
<1>2. PICK old : old = CHOOSE i \in known : TRUE
  OBVIOUS
<1>3. known # {} => old \in DOMAIN s.nodes /\ s.nodes[old].at = p
  BY <1>1, <1>2
<1>4. v = IF \/ s.full \/ ~Search!Allowed(p)
             \/ known = {} /\ ~Search!CanWalkTo(p)
             \/ known # {} /\ s.nodes[old].f <= cost
          THEN s
          ELSE IF known # {} THEN
            [s EXCEPT !.nodes = [s.nodes EXCEPT ![old] = Relinked(n, s.nodes[old], cost)],
                      !.closed = IF s.nodes[old].open THEN s.closed ELSE s.closed - 1]
          ELSE IF Len(s.nodes) = MaxNodes THEN [s EXCEPT !.full = TRUE]
          ELSE [s EXCEPT !.nodes = Append(s.nodes, [at |-> p, f |-> cost, parent |-> n, open |-> TRUE])]
  BY <1>1, <1>2, Zenon DEF Search!Look, Relinked
<1>5. known = {} => \A i \in DOMAIN s.nodes : s.nodes[i].at # p
  BY <1>1
<1> QED BY <1>3, <1>4, <1>5 DEF Usable, LookOutcome

LEMMA LookKeeps ==
  ASSUME start \in Search!Cell,
         NEW ns, Tree(ns), NEW n, Cheapest(ns, n), NEW s, NEW K, Looked(n, ns, s, K),
         NEW p, p \in Search!Cell => Beside(p, ns[n].at),
         NEW v, v = Search!Look(n, s, p)
  PROVE  Looked(n, ns, v, K \cup {p})
<1>1. /\ n \in DOMAIN s.nodes /\ s.nodes[n] = ns[n] /\ n \in DOMAIN ns
      /\ ns \in Seq(Nodes) /\ s.nodes \in Seq(Nodes)
      /\ \A i \in DOMAIN ns : i \in DOMAIN s.nodes /\ s.nodes[i].at = ns[i].at
                              /\ s.nodes[i].f <= ns[i].f
  BY LookedFrom DEF Cheapest
<1>2. PICK cost : cost = ns[n].f + Fare(ns[n].at, p)
  OBVIOUS
<1>3. cost = s.nodes[n].f + Search!WalkCost(s.nodes[n].at, p) + Search!TileCost(p)
  <2>1. ns[n].f \in Nat
    BY <1>1, NodeIs
  <2>2. Search!WalkCost(ns[n].at, p) \in Nat /\ Search!TileCost(p) \in Nat
    BY DEF Search!WalkCost, Search!TileCost
  <2> QED BY <1>1, <1>2, <2>1, <2>2 DEF Fare
<1>4. cost \in Nat /\ cost > ns[n].f /\ ns[n].f \in Nat
  BY <1>1, <1>2, NodeIs, FareIs
<1>5. n \in Nat
  BY <1>1
<1>6. s \in [nodes : Seq(Nodes), closed : Int, full : BOOLEAN]
  BY DEF Looked
<1>7. CASE v = s /\ (s.full \/ ~Usable(p))
  BY <1>7, LookedMore
<1>8. CASE \E i \in DOMAIN s.nodes : s.nodes[i].at = p /\ v = s /\ s.nodes[i].f <= cost
  BY <1>2, <1>8, LookedMore DEF Reached
<1>9. CASE v = [s EXCEPT !.full = TRUE] /\ Len(s.nodes) = MaxNodes
  <2>1. v \in [nodes : Seq(Nodes), closed : Int, full : BOOLEAN] /\ v.nodes = s.nodes /\ v.full
    BY <1>6, <1>9
  <2> QED BY <1>9, <2>1 DEF Looked
<1>10. ASSUME NEW i \in DOMAIN s.nodes, s.nodes[i].at = p, ~(s.nodes[i].f <= cost), ~s.full,
              NEW c \in {s.closed, s.closed - 1},
              v = [s EXCEPT !.nodes = [s.nodes EXCEPT ![i] = Relinked(n, s.nodes[i], cost)],
                            !.closed = c]
       PROVE  Looked(n, ns, v, K \cup {p})
  <2>1. PICK m, ms : m = Relinked(n, s.nodes[i], cost) /\ ms = [s.nodes EXCEPT ![i] = m]
    OBVIOUS
  <2>2. s.nodes[i] \in Nodes /\ s.nodes[i].f \in Nat /\ p \in Search!Cell
    BY <1>1, <1>10, NodeIs
  <2>3. /\ m \in Nodes /\ m.at = p /\ m.f = cost /\ m.parent = n /\ m.open = TRUE
    BY <1>4, <1>5, <1>10, <2>1, <2>2 DEF Relinked, Nodes
  <2>4. /\ ms \in Seq(Nodes) /\ DOMAIN ms = DOMAIN s.nodes /\ Len(ms) = Len(s.nodes)
        /\ ms[i] = m /\ \A j \in DOMAIN ms : j # i => ms[j] = s.nodes[j]
    BY <1>1, <2>1, <2>3
  <2>5. /\ v \in [nodes : Seq(Nodes), closed : Int, full : BOOLEAN]
        /\ v.nodes = ms /\ ~v.full
    <3>1. v = [s EXCEPT !.nodes = ms, !.closed = c] /\ c \in Int
      BY <1>6, <1>10, <2>1
    <3> QED BY <1>6, <1>10, <2>4, <3>1
  <2>6. \A j, k \in DOMAIN ms : ms[j].at = ms[k].at => j = k
    <3>1. \A j \in DOMAIN ms : ms[j].at = s.nodes[j].at
      BY <1>10, <2>3, <2>4
    <3> QED BY <2>4, <3>1 DEF Looked
  <2>7. \/ i \in DOMAIN ns /\ s.nodes[i] = ns[i]
        \/ Opened(n, ns, s.nodes, i)
    BY <1>10 DEF Looked
  <2>8. Opened(n, ns, ms, i)
    <3>1. Search!CanWalkTo(p)
      BY <1>10, <2>7 DEF Tree, Opened
    <3>2. Beside(p, ns[n].at)
      BY <2>2
    <3>3. ASSUME i \in DOMAIN ns
          PROVE  ns[i].open /\ ns[i].at = p /\ cost < ns[i].f
      <4>1. ns[i].at = p /\ ns[i].f \in Nat /\ s.nodes[i].f <= ns[i].f
        BY <1>1, <1>10, <3>3, NodeIs
      <4>2. cost < ns[i].f
        BY <1>4, <1>10, <2>2, <4>1
      <4>3. ns[i].open
        BY <1>1, <1>4, <3>3, <4>1, <4>2 DEF Tree, Cheapest
      <4> QED BY <4>1, <4>2, <4>3
    <3> QED BY <1>2, <2>3, <2>4, <3>1, <3>2, <3>3 DEF Opened
  <2>9. ASSUME NEW j \in DOMAIN ms
        PROVE  (j \in DOMAIN ns /\ ms[j] = ns[j]) \/ Opened(n, ns, ms, j)
    <3>1. CASE j = i
      BY <2>8, <3>1
    <3>2. CASE j # i
      BY <2>4, <2>9, <3>2 DEF Looked, Opened
    <3> QED BY <3>1, <3>2
  <2>10. ASSUME NEW q \in K \cup {p}, Usable(q) PROVE Reached(n, ns, ms, q)
    <3>1. CASE q = p
      BY <1>2, <1>4, <2>3, <2>4, <3>1 DEF Reached
    <3>2. CASE q # p
      <4>1. PICK j \in DOMAIN s.nodes :
              s.nodes[j].at = q /\ s.nodes[j].f <= ns[n].f + Fare(ns[n].at, q)
        BY <1>10, <2>10, <3>2 DEF Looked, Reached
      <4> QED BY <1>10, <2>4, <3>2, <4>1 DEF Reached
    <3> QED BY <3>1, <3>2
  <2>11. Len(ns) <= Len(ms)
    BY <2>4 DEF Looked
  <2> QED BY <2>4, <2>5, <2>6, <2>9, <2>10, <2>11 DEF Looked
<1>11. ASSUME \A i \in DOMAIN s.nodes : s.nodes[i].at # p,
              Search!CanWalkTo(p), ~s.full,
              v = [s EXCEPT !.nodes = Append(s.nodes,
                                             [at |-> p, f |-> cost, parent |-> n, open |-> TRUE])]
       PROVE  Looked(n, ns, v, K \cup {p})
  <2>1. PICK m, ms : m = [at |-> p, f |-> cost, parent |-> n, open |-> TRUE] /\ ms = Append(s.nodes, m)
    OBVIOUS
  <2>2. p \in Search!Cell
    BY <1>11 DEF Search!CanWalkTo
  <2>3. /\ m \in Nodes /\ m.at = p /\ m.f = cost /\ m.parent = n /\ m.open = TRUE
    BY <1>4, <1>5, <2>1, <2>2 DEF Nodes
  <2>4. PICK i \in Nat : i = Len(s.nodes) + 1
    BY <1>1
  <2>5. /\ ms \in Seq(Nodes) /\ DOMAIN ms = DOMAIN s.nodes \cup {i} /\ Len(ms) = Len(s.nodes) + 1
        /\ ms[i] = m /\ i \notin DOMAIN s.nodes /\ \A j \in DOMAIN s.nodes : ms[j] = s.nodes[j]
    BY <1>1, <2>1, <2>3, <2>4
  <2>6. /\ v \in [nodes : Seq(Nodes), closed : Int, full : BOOLEAN]
        /\ v.nodes = ms /\ ~v.full
    BY <1>6, <1>11, <2>1, <2>5
  <2>7. \A j, k \in DOMAIN ms : ms[j].at = ms[k].at => j = k
    BY <1>11, <2>3, <2>5 DEF Looked
  <2>8. Opened(n, ns, ms, i)
    <3>1. i \notin DOMAIN ns
      BY <1>1, <2>5
    <3> QED BY <1>2, <1>11, <2>2, <2>3, <2>5, <3>1 DEF Opened
  <2>9. ASSUME NEW j \in DOMAIN ms
        PROVE  (j \in DOMAIN ns /\ ms[j] = ns[j]) \/ Opened(n, ns, ms, j)
    <3>1. CASE j = i
      BY <2>8, <3>1
    <3>2. CASE j \in DOMAIN s.nodes
      BY <2>5, <3>2 DEF Looked, Opened
    <3> QED BY <2>5, <3>1, <3>2
  <2>10. ASSUME NEW q \in K \cup {p}, Usable(q) PROVE Reached(n, ns, ms, q)
    <3>1. CASE q = p
      BY <1>2, <1>4, <2>3, <2>5, <3>1 DEF Reached
    <3>2. CASE q # p
      <4>1. PICK j \in DOMAIN s.nodes :
              s.nodes[j].at = q /\ s.nodes[j].f <= ns[n].f + Fare(ns[n].at, q)
        BY <1>11, <2>10, <3>2 DEF Looked, Reached
      <4> QED BY <2>5, <4>1 DEF Reached
    <3> QED BY <3>1, <3>2
  <2>11. Len(ns) <= Len(ms)
    BY <1>1, <2>5 DEF Looked
  <2> QED BY <2>5, <2>6, <2>7, <2>9, <2>10, <2>11 DEF Looked
<1>12. LookOutcome(n, s, p, cost, v)
  BY <1>1, <1>3, LookGives
<1> QED
  BY <1>7, <1>8, <1>9, <1>10, <1>11, <1>12 DEF LookOutcome

-----------------------------------------------------------------------------
(* The loop over the neighbours.                                           *)

LEMMA Induction ==
  ASSUME NEW S, 0 \in S, \A k \in Nat : k \in S => k + 1 \in S
  PROVE  Nat \subseteq S
<1> SUFFICES ASSUME Nat \ S # {} PROVE FALSE
  OBVIOUS
<1>1. PICK k \in Nat \ S : \A j \in Nat \ S : k <= j
  BY LeastOf
<1>2. PICK j \in Nat : k = j + 1
  <2>1. k # 0
    BY <1>1
  <2> QED BY <1>1, <2>1
<1>3. j \in S
  BY <1>1, <1>2
<1> QED BY <1>1, <1>2, <1>3

LEMMA AroundIs ==
  ASSUME NEW n, NEW L \in Nat, L = Len(Search!Neighbors(n))
  PROVE  \E looks :
           /\ looks[0] = [nodes |-> nodes, closed |-> closedNodes, full |-> FALSE]
           /\ \A k \in 1 .. L : looks[k] = Search!Look(n, looks[k - 1], Search!Square(n, k))
           /\ Search!Around(n) = looks[L]
<1> DEFINE Step(s, k) == Search!Look(n, s, Search!Square(n, k))
           First == [nodes |-> nodes, closed |-> closedNodes, full |-> FALSE]
           Goes(g, m) == g = [k \in 0 .. m |-> IF k = 0 THEN First ELSE Step(g[k - 1], k)]
           S == {m \in Nat : \E g : Goes(g, m)}
<1> HIDE DEF Step, First
<1>1. 0 \in S
  <2>1. PICK g : g = [k \in 0 .. 0 |-> First]
    OBVIOUS
  <2>2. Goes(g, 0)
    BY <2>1
  <2> QED BY <2>2
<1>2. ASSUME NEW m \in Nat, m \in S PROVE m + 1 \in S
  <2>1. PICK g : Goes(g, m)
    BY <1>2
  <2>2. PICK h : h = [k \in 0 .. m + 1 |-> IF k <= m THEN g[k] ELSE Step(g[m], k)]
    OBVIOUS
  <2>3. /\ h = [k \in 0 .. m + 1 |-> h[k]]
        /\ \A k \in 0 .. m : h[k] = g[k]
        /\ h[m + 1] = Step(g[m], m + 1)
    BY <2>2
  <2>4. g[0] = First /\ \A k \in 1 .. m : g[k] = Step(g[k - 1], k)
    BY <2>1
  <2>5. ASSUME NEW k \in 0 .. m + 1
        PROVE  h[k] = IF k = 0 THEN First ELSE Step(h[k - 1], k)
    <3>1. CASE k = 0
      BY <2>3, <2>4, <3>1
    <3>2. CASE k \in 1 .. m
      <4>1. k - 1 \in 0 .. m /\ k \in 0 .. m /\ k # 0
        BY <3>2
      <4> QED BY <2>3, <2>4, <3>2, <4>1
    <3>3. CASE k = m + 1
      <4>1. k - 1 = m /\ m \in 0 .. m /\ k # 0
        BY <3>3
      <4> QED BY <2>3, <3>3, <4>1
    <3> QED BY <3>1, <3>2, <3>3
  <2>6. Goes(h, m + 1)
    BY <2>3, <2>5
  <2> QED BY <2>6
<1> HIDE DEF S
<1>3. L \in S
  BY <1>1, <1>2, Induction
<1>4. \E g : Goes(g, L)
  BY <1>3 DEF S
<1>5. PICK g : g = CHOOSE f : Goes(f, L)
  OBVIOUS
<1>6. Goes(g, L)
  BY <1>4, <1>5
<1>7. Search!Around(n) = g[L]
  BY <1>5, Zenon DEF Search!Around, Step, First
<1>8. /\ g[0] = First
      /\ \A k \in 1 .. L : g[k] = Step(g[k - 1], k)
  BY <1>6
<1> QED BY <1>7, <1>8 DEF Step, First

LEMMA AroundLooked ==
  ASSUME start \in Search!Cell, closedNodes \in Int, Tree(nodes),
         NEW n, Cheapest(nodes, n),
         NEW L \in Nat, L = Len(Search!Neighbors(n)),
         \A k \in 1 .. L : Search!Square(n, k) \in Search!Cell =>
                             Beside(Search!Square(n, k), nodes[n].at)
  PROVE  Looked(n, nodes, Search!Around(n), {Search!Square(n, k) : k \in 1 .. L})
<1>1. PICK looks :
        /\ looks[0] = [nodes |-> nodes, closed |-> closedNodes, full |-> FALSE]
        /\ \A k \in 1 .. L : looks[k] = Search!Look(n, looks[k - 1], Search!Square(n, k))
        /\ Search!Around(n) = looks[L]
  BY AroundIs
<1> DEFINE K(m) == {Search!Square(n, k) : k \in 1 .. m}
           S == {m \in Nat : m <= L => Looked(n, nodes, looks[m], K(m))}
<1>2. 0 \in S
  <2>1. K(0) = {}
    OBVIOUS
  <2>2. nodes \in Seq(Nodes) /\ \A i, j \in DOMAIN nodes : nodes[i].at = nodes[j].at => i = j
    BY DEF Tree
  <2> HIDE DEF K
  <2>3. Looked(n, nodes, looks[0], K(0))
    BY <1>1, <2>1, <2>2 DEF Looked
  <2> QED BY <2>3
<1>3. ASSUME NEW m \in Nat, m \in S PROVE m + 1 \in S
  <2> SUFFICES ASSUME m + 1 <= L PROVE Looked(n, nodes, looks[m + 1], K(m + 1))
    OBVIOUS
  <2>1. Looked(n, nodes, looks[m], K(m))
    BY <1>3
  <2>2. m + 1 \in 1 .. L /\ (m + 1) - 1 = m
    OBVIOUS
  <2>3. looks[m + 1] = Search!Look(n, looks[m], Search!Square(n, m + 1))
    BY <1>1, <2>2
  <2>4. K(m + 1) = K(m) \cup {Search!Square(n, m + 1)}
    <3>1. 1 .. m + 1 = (1 .. m) \cup {m + 1}
      OBVIOUS
    <3> QED BY <3>1
  <2> HIDE DEF K
  <2>5. Looked(n, nodes, looks[m + 1], K(m) \cup {Search!Square(n, m + 1)})
    BY <2>1, <2>2, <2>3, LookKeeps
  <2> QED BY <2>4, <2>5
<1> HIDE DEF S
<1>4. L \in S
  BY <1>2, <1>3, Induction
<1> QED BY <1>1, <1>4 DEF S

-----------------------------------------------------------------------------
(* The node the loop looks from, and the whole table of its neighbours.    *)

LEMMA BestNodeIs ==
  ASSUME Tree(nodes)
  PROVE  /\ Search!BestNode = 0 => \A i \in DOMAIN nodes : ~nodes[i].open
         /\ Search!BestNode # 0 => Cheapest(nodes, Search!BestNode)
<1> DEFINE opened == {i \in DOMAIN nodes : nodes[i].open}
           cheapest == {i \in opened : \A j \in opened : nodes[i].f <= nodes[j].f}
<1>3. Search!BestNode = IF opened = {} THEN 0
                        ELSE CHOOSE i \in cheapest : \A j \in cheapest : i <= j
  BY Zenon DEF Search!BestNode
<1>1. opened = {i \in DOMAIN nodes : nodes[i].open}
  OBVIOUS
<1>2. cheapest = {i \in opened : \A j \in opened : nodes[i].f <= nodes[j].f}
  OBVIOUS
<1> HIDE DEF opened, cheapest
<1>4. nodes \in Seq(Nodes)
  BY DEF Tree
<1>5. DOMAIN nodes \subseteq Nat \ {0} /\ \A i \in DOMAIN nodes : nodes[i].f \in Nat
  BY <1>4, NodeIs
<1>6. ASSUME opened # {} PROVE cheapest # {}
  <2>1. PICK S : S = {nodes[i].f : i \in opened}
    OBVIOUS
  <2>2. S \subseteq Nat /\ S # {}
    BY <1>1, <1>5, <1>6, <2>1
  <2>3. PICK c \in S : \A d \in S : c <= d
    BY <2>2, LeastOf
  <2>4. PICK i \in opened : nodes[i].f = c
    BY <2>1
  <2>5. \A j \in opened : nodes[i].f <= nodes[j].f
    BY <2>1, <2>3, <2>4
  <2> QED BY <1>2, <2>5
<1>7. cheapest \subseteq DOMAIN nodes
  BY <1>1, <1>2
<1>8. ASSUME opened # {}
      PROVE  Search!BestNode \in cheapest
  <2>1. cheapest # {} /\ cheapest \subseteq Nat
    BY <1>5, <1>6, <1>7, <1>8
  <2>2. \E i \in cheapest : \A j \in cheapest : i <= j
    BY <2>1, LeastOf
  <2> QED BY <1>3, <1>8, <2>2
<1>9. opened = {} => Search!BestNode = 0
  BY <1>3
<1>10. opened # {} => Search!BestNode # 0 /\ Cheapest(nodes, Search!BestNode)
  BY <1>1, <1>2, <1>5, <1>7, <1>8 DEF Cheapest
<1> QED BY <1>1, <1>9, <1>10

(* The squares n looks at are those of some offsets, all of them when it   *)
(* has no parent, and otherwise those of DirNeighbors.                     *)
LEMMA SquaresAre ==
  ASSUME start \in Search!Cell, Tree(nodes), NEW n \in DOMAIN nodes
  PROVE  \E L \in Nat, S \in SUBSET Ring :
           /\ L = Len(Search!Neighbors(n))
           /\ {Search!Square(n, k) : k \in 1 .. L}
                = {<<nodes[n].at[1] + e[1], nodes[n].at[2] + e[2]>> : e \in S}
           /\ nodes[n].parent = 0 => S = Ring
           /\ nodes[n].parent # 0 =>
                LET d == <<nodes[nodes[n].parent].at[1] - nodes[n].at[1],
                           nodes[nodes[n].parent].at[2] - nodes[n].at[2]>>
                IN \A e \in Ring : \/ e = d \/ e \in S
                                   \/ /\ <<e[1] - d[1], e[2] - d[2]>> \in Ring
                                      /\ e[1] = d[1] \/ e[2] = d[2]
<1>1. nodes \in Seq(Nodes)
  BY DEF Tree
<1>2. PICK up : up = nodes[n].parent
  OBVIOUS
<1> DEFINE d == <<nodes[up].at[1] - nodes[n].at[1], nodes[up].at[2] - nodes[n].at[2]>>
<1>3. up # 0 => d \in Ring
  <2> SUFFICES ASSUME up # 0 PROVE d \in Ring
    OBVIOUS
  <2>1. up \in DOMAIN nodes /\ Beside(nodes[n].at, nodes[up].at)
    BY <1>2 DEF Tree
  <2>2. nodes[n].at \in Search!Cell /\ nodes[up].at \in Search!Cell
    BY <1>1, <2>1, NodeIs
  <2> QED BY <2>1, <2>2, BesideIs
<1>4. PICK table : table = Search!Neighbors(n)
  OBVIOUS
<1> DEFINE Fits(S) ==
      \A e \in Ring : \/ e = d \/ e \in S
                      \/ /\ <<e[1] - d[1], e[2] - d[2]>> \in Ring
                         /\ e[1] = d[1] \/ e[2] = d[2]
<1>5. \E S \in SUBSET Ring : Holds(table, S) /\ (up = 0 => S = Ring) /\ (up # 0 => Fits(S))
  <2>1. CASE up = 0
    <3>1. table = Search!AllNeighbors
      BY <1>2, <1>4, <2>1 DEF Search!Neighbors
    <3> QED BY <2>1, <3>1, TablesHold
  <2>2. CASE up # 0
    <3>1. table = Search!DirNeighbors(nodes[up].at[1] - nodes[n].at[1],
                                      nodes[up].at[2] - nodes[n].at[2])
      BY <1>2, <1>4, <2>2 DEF Search!Neighbors
    <3>2. table = Search!DirNeighbors(d[1], d[2])
      BY <3>1
    <3> HIDE DEF d
    <3>3. \E S \in SUBSET Ring : Holds(table, S) /\ Fits(S)
      BY <1>3, <2>2, <3>2, FewAreEnough
    <3> QED BY <2>2, <3>3
  <2> QED BY <2>1, <2>2
<1>6. PICK S \in SUBSET Ring : Holds(table, S) /\ (up = 0 => S = Ring) /\ (up # 0 => Fits(S))
  BY <1>5
<1>7. Len(table) \in Nat
  BY <1>4 DEF Search!Neighbors, Search!AllNeighbors, Search!DirNeighbors, Search!North,
              Search!South, Search!East, Search!West, Search!NorthWest, Search!NorthEast,
              Search!SouthWest, Search!SouthEast
<1>8. \A k : Search!Square(n, k) = <<nodes[n].at[1] + table[k][1], nodes[n].at[2] + table[k][2]>>
  BY <1>4 DEF Search!Square
<1>9. {Search!Square(n, k) : k \in 1 .. Len(table)}
        = {<<nodes[n].at[1] + e[1], nodes[n].at[2] + e[2]>> : e \in S}
  BY <1>6, <1>8 DEF Holds
<1> QED BY <1>2, <1>4, <1>6, <1>7, <1>9

-----------------------------------------------------------------------------
(* The node is closed.                                                     *)

Shut(n, ms, rs) == rs = [ms EXCEPT ![n] = [ms[n] EXCEPT !.open = FALSE]]

LEMMA ShutIs ==
  ASSUME NEW ms \in Seq(Nodes), NEW n \in DOMAIN ms, NEW rs, Shut(n, ms, rs)
  PROVE  /\ rs \in Seq(Nodes) /\ DOMAIN rs = DOMAIN ms /\ Len(rs) = Len(ms)
         /\ ~rs[n].open
         /\ \A i \in DOMAIN ms :
              /\ rs[i].at = ms[i].at /\ rs[i].f = ms[i].f /\ rs[i].parent = ms[i].parent
              /\ i # n => rs[i] = ms[i]
<1>1. PICK m : m = [ms[n] EXCEPT !.open = FALSE]
  OBVIOUS
<1>2. ms[n] \in Nodes
  OBVIOUS
<1>3. m \in Nodes /\ m.at = ms[n].at /\ m.f = ms[n].f /\ m.parent = ms[n].parent /\ ~m.open
  BY <1>1, <1>2 DEF Nodes
<1>4. rs = [ms EXCEPT ![n] = m]
  BY <1>1 DEF Shut
<1>5. rs \in Seq(Nodes) /\ DOMAIN rs = DOMAIN ms /\ Len(rs) = Len(ms)
  BY <1>3, <1>4
<1>6. rs[n] = m /\ \A i \in DOMAIN ms : i # n => rs[i] = ms[i]
  BY <1>4
<1> QED BY <1>3, <1>5, <1>6

LEMMA StillTree ==
  ASSUME start \in Search!Cell, NEW ns, Tree(ns), NEW n, Cheapest(ns, n),
         NEW s, NEW K, Looked(n, ns, s, K), NEW rs, Shut(n, s.nodes, rs)
  PROVE  /\ Tree(rs) /\ Len(ns) <= Len(rs) /\ Len(rs) = Len(s.nodes)
         /\ \A i \in DOMAIN rs : ~rs[i].open =>
              i \in DOMAIN ns /\ (i = n \/ ~ns[i].open)
                /\ rs[i].at = ns[i].at /\ rs[i].f = ns[i].f
         /\ \A i \in DOMAIN ns : i \in DOMAIN rs /\ rs[i].at = ns[i].at /\ rs[i].f <= ns[i].f
<1>1. /\ n \in DOMAIN s.nodes /\ s.nodes[n] = ns[n]
      /\ ns[n] \in Nodes /\ ns \in Seq(Nodes) /\ s.nodes \in Seq(Nodes)
      /\ \A i \in DOMAIN ns : i \in DOMAIN s.nodes /\ s.nodes[i].at = ns[i].at
                              /\ s.nodes[i].f <= ns[i].f
  BY LookedFrom
<1>2. PICK ms : ms = s.nodes
  OBVIOUS
<1>3. n \in DOMAIN ns /\ ns[n].open /\ \A j \in DOMAIN ns : ns[j].open => ns[n].f <= ns[j].f
  BY DEF Cheapest
<1>4. \A i \in DOMAIN ns : ns[i].f \in Nat /\ ns[i].at \in Search!Cell /\ ns[i].parent \in Nat
  BY <1>1, NodeIs
<1>5. \A i \in DOMAIN ms : ms[i].f \in Nat /\ ms[i].at \in Search!Cell /\ ms[i].parent \in Nat
  BY <1>1, <1>2, NodeIs
<1>6. /\ rs \in Seq(Nodes) /\ DOMAIN rs = DOMAIN ms /\ Len(rs) = Len(ms)
      /\ ~rs[n].open
      /\ \A i \in DOMAIN ms :
           /\ rs[i].at = ms[i].at /\ rs[i].f = ms[i].f /\ rs[i].parent = ms[i].parent
           /\ i # n => rs[i] = ms[i]
  BY <1>1, <1>2, ShutIs
<1>7. \A i \in DOMAIN ms : (i \in DOMAIN ns /\ ms[i] = ns[i]) \/ Opened(n, ns, ms, i)
  BY <1>2 DEF Looked
<1>8. ASSUME NEW i \in DOMAIN rs, ~rs[i].open
      PROVE  /\ i \in DOMAIN ns /\ (i = n \/ ~ns[i].open) /\ ns[i].f <= ns[n].f
             /\ rs[i].at = ns[i].at /\ rs[i].f = ns[i].f
  <2>1. CASE i = n
    BY <1>1, <1>2, <1>3, <1>4, <1>6, <2>1
  <2>2. CASE i # n
    <3>1. ~Opened(n, ns, ms, i)
      BY <1>6, <1>8, <2>2 DEF Opened
    <3>2. i \in DOMAIN ns /\ ms[i] = ns[i]
      BY <1>6, <1>7, <3>1
    <3>3. ~ns[i].open
      BY <1>6, <1>8, <2>2, <3>2
    <3>4. ns[i].f <= ns[n].f
      BY <1>3, <3>2, <3>3 DEF Tree
    <3> QED BY <1>6, <3>2, <3>3, <3>4
  <2> QED BY <2>1, <2>2
<1>9. ASSUME NEW i \in DOMAIN ns, ~ns[i].open
      PROVE  i \in DOMAIN rs /\ i # n /\ rs[i] = ns[i]
  <2>1. i # n
    BY <1>3, <1>9
  <2>2. ~Opened(n, ns, ms, i) /\ i \in DOMAIN ms
    BY <1>1, <1>2, <1>9 DEF Opened
  <2> QED BY <1>6, <1>7, <2>1, <2>2
<1>10. ASSUME NEW i \in DOMAIN rs, rs[i].open
       PROVE  ns[n].f <= rs[i].f
  <2>1. i # n /\ i \in DOMAIN ms
    BY <1>6, <1>10
  <2>2. CASE i \in DOMAIN ns /\ ms[i] = ns[i]
    BY <1>3, <1>6, <1>10, <2>1, <2>2
  <2>3. CASE Opened(n, ns, ms, i)
    <3>1. ms[i].f = ns[n].f + Fare(ns[n].at, ms[i].at)
      BY <2>3 DEF Opened
    <3>2. ns[n].f <= ms[i].f
      BY <1>3, <1>4, <3>1, FareIs
    <3> QED BY <1>6, <2>1, <3>2
  <2> QED BY <1>7, <2>1, <2>2, <2>3
<1>11. 1 \in DOMAIN rs /\ rs[1].at = start /\ rs[1].f = 0 /\ rs[1].parent = 0
  <2>1. 1 \in DOMAIN ns /\ ns[1].at = start /\ ns[1].f = 0 /\ ns[1].parent = 0
    BY DEF Tree
  <2>2. 1 \in DOMAIN ms
    BY <1>1, <1>2, <2>1
  <2>3. ~Opened(n, ns, ms, 1)
    BY <1>5, <2>1, <2>2 DEF Opened
  <2>4. ms[1] = ns[1]
    BY <1>7, <2>2, <2>3
  <2> QED BY <1>6, <2>1, <2>2, <2>4
<1>12. ASSUME NEW i \in DOMAIN rs
       PROVE  Search!CanWalkTo(rs[i].at)
  <2>1. CASE i \in DOMAIN ns /\ ms[i] = ns[i]
    <3>1. Search!CanWalkTo(ns[i].at)
      BY <2>1 DEF Tree
    <3> QED BY <1>6, <2>1, <3>1
  <2>2. CASE Opened(n, ns, ms, i)
    BY <1>6, <2>2 DEF Opened
  <2> QED BY <1>6, <1>7, <2>1, <2>2
<1>13. ASSUME NEW i \in DOMAIN rs, i # 1
       PROVE  /\ rs[i].parent \in DOMAIN rs /\ ~rs[rs[i].parent].open
              /\ Beside(rs[i].at, rs[rs[i].parent].at)
              /\ rs[i].f = rs[rs[i].parent].f + Fare(rs[rs[i].parent].at, rs[i].at)
  <2>1. CASE i \in DOMAIN ns /\ ms[i] = ns[i]
    <3>1. PICK up : up = ns[i].parent
      OBVIOUS
    <3>2. /\ up \in DOMAIN ns /\ ~ns[up].open /\ Beside(ns[i].at, ns[up].at)
          /\ ns[i].f = ns[up].f + Fare(ns[up].at, ns[i].at)
      BY <1>13, <2>1, <3>1 DEF Tree
    <3>3. up \in DOMAIN rs /\ rs[up] = ns[up]
      BY <1>9, <3>2
    <3>4. rs[i].parent = up /\ rs[i].at = ns[i].at /\ rs[i].f = ns[i].f
      BY <1>6, <2>1, <3>1
    <3> QED BY <3>2, <3>3, <3>4
  <2>2. CASE Opened(n, ns, ms, i)
    <3>1. rs[i].parent = n
      BY <1>6, <2>2 DEF Opened
    <3>2. n \in DOMAIN rs /\ rs[n].at = ns[n].at /\ rs[n].f = ns[n].f /\ ~rs[n].open
      BY <1>1, <1>2, <1>6
    <3>3. Beside(rs[i].at, ns[n].at) /\ rs[i].f = ns[n].f + Fare(ns[n].at, rs[i].at)
      BY <1>6, <2>2 DEF Opened
    <3> QED BY <3>1, <3>2, <3>3
  <2> QED BY <1>6, <1>7, <2>1, <2>2
<1>14. \A i, j \in DOMAIN rs : rs[i].at = rs[j].at => i = j
  BY <1>2, <1>6 DEF Looked
<1>15. ASSUME NEW i \in DOMAIN rs, NEW j \in DOMAIN rs, ~rs[i].open, rs[j].open
       PROVE  rs[i].f <= rs[j].f
  <2>1. rs[i].f <= ns[n].f
    BY <1>8, <1>15
  <2>2. ns[n].f <= rs[j].f
    BY <1>10, <1>15
  <2>3. rs[i].f \in Nat /\ rs[j].f \in Nat /\ ns[n].f \in Nat
    BY <1>3, <1>4, <1>5, <1>6
  <2> QED BY <2>1, <2>2, <2>3
<1>16. Tree(rs)
  BY <1>6, <1>11, <1>12, <1>13, <1>14, <1>15 DEF Tree
<1>17. Len(ns) <= Len(rs) /\ Len(rs) = Len(s.nodes)
  BY <1>2, <1>6 DEF Looked
<1>18. \A i \in DOMAIN ns : i \in DOMAIN rs /\ rs[i].at = ns[i].at /\ rs[i].f <= ns[i].f
  BY <1>1, <1>2, <1>6
<1> QED BY <1>8, <1>16, <1>17, <1>18

(* While there are nodes left, every way on from a closed node leads to a  *)
(* node that costs no more than that way.                                  *)
Closure(ns) ==
  Len(ns) < MaxNodes =>
    \A i \in DOMAIN ns : ~ns[i].open =>
      \A q \in Search!Cell : Beside(ns[i].at, q) /\ Usable(q) => Reached(i, ns, ns, q)

(* A straight step is the cheapest there is.                               *)
LEMMA StraightIsCheap ==
  ASSUME NEW p \in Search!Cell, NEW q \in Search!Cell, NEW r \in Search!Cell,
         Beside(p, q), p[1] = q[1] \/ p[2] = q[2], NEW a \in Nat, NEW b \in Nat,
         b = a + Fare(p, r)
  PROVE  a + Fare(p, q) <= b + Fare(r, q)
<1>1. p[1] \in Int /\ p[2] \in Int /\ q[1] \in Int /\ q[2] \in Int
  BY WorldAssumption DEF Search!Cell
<1>2. Search!WalkCost(p, q) = 10
  <2>1. Search!Gap(p[1], q[1]) # Search!Gap(p[2], q[2])
    BY <1>1 DEF Beside, Search!Distance, Search!Farther, Search!Gap
  <2> QED BY <2>1 DEF Search!WalkCost
<1>3. PICK t \in Nat : t = Search!TileCost(q)
  BY DEF Search!TileCost
<1>4. Fare(p, q) = 10 + t
  BY <1>2, <1>3 DEF Fare
<1>5. PICK w \in Nat : w >= 10 /\ w = Search!WalkCost(r, q)
  BY DEF Search!WalkCost
<1>6. Fare(r, q) = w + t
  BY <1>3, <1>5 DEF Fare
<1>7. PICK c \in Nat : c = Fare(p, r)
  BY FareIs
<1> QED BY <1>4, <1>5, <1>6, <1>7

LEMMA StillClosure ==
  ASSUME start \in Search!Cell, closedNodes \in Int, Tree(nodes), Closure(nodes),
         NEW n, Cheapest(nodes, n), NEW s, s = Search!Around(n),
         NEW rs, Shut(n, s.nodes, rs)
  PROVE  /\ \E K : Looked(n, nodes, s, K)
         /\ Closure(rs)
<1>1. n \in DOMAIN nodes /\ nodes[n].open /\ nodes \in Seq(Nodes)
  BY DEF Tree, Cheapest
<1>2. nodes[n].at \in Search!Cell /\ nodes[n].f \in Nat /\ nodes[n].parent \in Nat
  BY <1>1, NodeIs
<1>3. PICK L \in Nat, S \in SUBSET Ring :
        /\ L = Len(Search!Neighbors(n))
        /\ {Search!Square(n, k) : k \in 1 .. L}
             = {<<nodes[n].at[1] + e[1], nodes[n].at[2] + e[2]>> : e \in S}
        /\ nodes[n].parent = 0 => S = Ring
        /\ nodes[n].parent # 0 =>
             LET d == <<nodes[nodes[n].parent].at[1] - nodes[n].at[1],
                        nodes[nodes[n].parent].at[2] - nodes[n].at[2]>>
             IN \A e \in Ring : \/ e = d \/ e \in S
                                \/ /\ <<e[1] - d[1], e[2] - d[2]>> \in Ring
                                   /\ e[1] = d[1] \/ e[2] = d[2]
  BY <1>1, SquaresAre
<1>4. PICK x \in Int, y \in Int : nodes[n].at = <<x, y>>
  BY <1>2, WorldAssumption DEF Search!Cell
<1>5. PICK K : K = {Search!Square(n, k) : k \in 1 .. L}
  OBVIOUS
<1>6. \A e \in S : e[1] \in Int /\ e[2] \in Int /\ e = <<e[1], e[2]>> /\ e \in Ring
  BY <1>3 DEF Ring
<1>7. K = {<<x + e[1], y + e[2]>> : e \in S}
  BY <1>3, <1>4, <1>5
<1>8. ASSUME NEW q \in K, q \in Search!Cell
      PROVE  Beside(q, nodes[n].at)
  <2>1. PICK e \in S : q = <<x + e[1], y + e[2]>>
    BY <1>7
  <2>2. <<q[1] - x, q[2] - y>> = e
    BY <1>6, <2>1
  <2>3. Beside(nodes[n].at, q)
    BY <1>2, <1>4, <1>6, <1>8, <2>2, BesideIs
  <2> QED BY <1>2, <1>8, <2>3, BesideIs
<1>9. Looked(n, nodes, s, K)
  <2>1. \A k \in 1 .. L : Search!Square(n, k) \in Search!Cell =>
                            Beside(Search!Square(n, k), nodes[n].at)
    BY <1>5, <1>8
  <2> QED BY <1>3, <1>5, <2>1, AroundLooked
<1>10. /\ Tree(rs) /\ Len(nodes) <= Len(rs) /\ Len(rs) = Len(s.nodes)
       /\ \A i \in DOMAIN rs : ~rs[i].open =>
            i \in DOMAIN nodes /\ (i = n \/ ~nodes[i].open)
              /\ rs[i].at = nodes[i].at /\ rs[i].f = nodes[i].f
       /\ \A i \in DOMAIN nodes :
            i \in DOMAIN rs /\ rs[i].at = nodes[i].at /\ rs[i].f <= nodes[i].f
  BY <1>9, StillTree
<1>11. rs \in Seq(Nodes)
  BY <1>10 DEF Tree
<1> SUFFICES ASSUME Len(rs) < MaxNodes,
                    NEW i \in DOMAIN rs, ~rs[i].open,
                    NEW q \in Search!Cell, Beside(rs[i].at, q), Usable(q)
             PROVE  Reached(i, rs, rs, q)
  BY <1>9 DEF Closure
<1>12. /\ i \in DOMAIN nodes /\ (i = n \/ ~nodes[i].open)
       /\ rs[i].at = nodes[i].at /\ rs[i].f = nodes[i].f
  BY <1>10
<1>13. Len(nodes) < MaxNodes
  <2>1. Len(nodes) \in Nat /\ Len(rs) \in Nat
    BY <1>1, <1>11
  <2> QED BY <1>10, <2>1, WorldAssumption
<1>14. PICK c \in Nat : c = nodes[i].f + Fare(nodes[i].at, q)
  BY <1>1, <1>12, NodeIs, FareIs
<1>15. SUFFICES \E j \in DOMAIN rs : rs[j].at = q /\ rs[j].f <= c
  BY <1>12, <1>14 DEF Reached
<1>16. ASSUME NEW j \in DOMAIN nodes, nodes[j].at = q, nodes[j].f <= c
       PROVE  \E k \in DOMAIN rs : rs[k].at = q /\ rs[k].f <= c
  <2>1. j \in DOMAIN rs /\ rs[j].at = q /\ rs[j].f <= nodes[j].f
    BY <1>10, <1>16
  <2>2. rs[j].f \in Nat /\ nodes[j].f \in Nat
    BY <1>1, <1>11, <2>1, NodeIs
  <2> QED BY <1>16, <2>1, <2>2
<1>17. CASE ~nodes[i].open
  <2>1. Reached(i, nodes, nodes, q)
    BY <1>12, <1>13, <1>17 DEF Closure
  <2> QED BY <1>14, <1>16, <2>1 DEF Reached
<1>18. CASE i = n
  <2>1. Beside(nodes[n].at, q)
    BY <1>12, <1>18
  <2>2. PICK a \in Int, b \in Int : q = <<x + a, y + b>> /\ <<a, b>> \in Ring
    <3>1. PICK u \in Int, v \in Int : q = <<u, v>>
      BY WorldAssumption DEF Search!Cell
    <3>2. <<u - x, v - y>> \in Ring
      BY <1>2, <1>4, <2>1, <3>1, BesideIs
    <3>3. u - x \in Int /\ v - y \in Int /\ q = <<x + (u - x), y + (v - y)>>
      BY <3>1
    <3>4. PICK a \in Int, b \in Int : a = u - x /\ b = v - y
      BY <3>3
    <3>5. q = <<x + a, y + b>> /\ <<a, b>> \in Ring
      BY <3>2, <3>3, <3>4
    <3> QED BY <3>5
  <2>3. CASE <<a, b>> \in S
    <3>1. q \in K
      BY <1>7, <2>2, <2>3
    <3>2. ~s.full /\ s.nodes \in Seq(Nodes) /\ n \in DOMAIN s.nodes
      <4>1. s.full => Len(s.nodes) = MaxNodes
        BY <1>9 DEF Looked
      <4>2. s.full \in BOOLEAN
        BY <1>9 DEF Looked
      <4>3. s.nodes \in Seq(Nodes) /\ n \in DOMAIN s.nodes
        BY <1>9, LookedFrom
      <4> QED BY <1>10, <4>1, <4>2, <4>3, WorldAssumption
    <3>3. Reached(n, nodes, s.nodes, q)
      BY <1>9, <3>1, <3>2 DEF Looked
    <3>4. PICK j \in DOMAIN s.nodes : s.nodes[j].at = q /\ s.nodes[j].f <= c
      BY <1>14, <1>18, <3>3 DEF Reached
    <3>5. j \in DOMAIN rs /\ rs[j].at = s.nodes[j].at /\ rs[j].f = s.nodes[j].f
      BY <3>2, ShutIs
    <3> QED BY <3>4, <3>5
  <2>4. CASE <<a, b>> \notin S
    <3>1. PICK up : up = nodes[n].parent
      OBVIOUS
    <3>2. up # 0
      BY <1>3, <2>2, <2>4, <3>1
    <3>3. n # 1
      BY <3>1, <3>2 DEF Tree
    <3>4. /\ up \in DOMAIN nodes /\ ~nodes[up].open /\ Beside(nodes[n].at, nodes[up].at)
          /\ nodes[n].f = nodes[up].f + Fare(nodes[up].at, nodes[n].at)
      BY <1>1, <3>1, <3>3 DEF Tree
    <3>5. nodes[up].at \in Search!Cell /\ nodes[up].f \in Nat
      BY <1>1, <3>4, NodeIs
    <3>6. PICK u \in Int, v \in Int : nodes[up].at = <<u, v>>
      <4>1. \A p \in Search!Cell : \E u \in Int, v \in Int : p = <<u, v>>
        BY WorldAssumption DEF Search!Cell
      <4> QED BY <3>5, <4>1
    <3>7. PICK e, d : e = <<a, b>> /\ d = <<u - x, v - y>>
      OBVIOUS
    <3>8. \/ e = d
          \/ <<e[1] - d[1], e[2] - d[2]>> \in Ring /\ (e[1] = d[1] \/ e[2] = d[2])
      <4>1. \A g \in Ring : \/ g = d \/ g \in S
                            \/ /\ <<g[1] - d[1], g[2] - d[2]>> \in Ring
                               /\ g[1] = d[1] \/ g[2] = d[2]
        <5>1. d = <<nodes[nodes[n].parent].at[1] - nodes[n].at[1],
                    nodes[nodes[n].parent].at[2] - nodes[n].at[2]>>
          BY <1>4, <3>1, <3>6, <3>7
        <5> QED BY <1>3, <3>1, <3>2, <5>1
      <4> QED BY <2>2, <2>4, <3>7, <4>1
    <3>9. CASE e = d
      <4>1. q = nodes[up].at
        BY <2>2, <3>6, <3>7, <3>9
      <4>2. nodes[up].f <= c
        <5>1. nodes[up].f <= nodes[n].f
          BY <1>2, <3>4, <3>5, FareIs
        <5>2. nodes[n].f <= c
          BY <1>2, <1>14, <1>18, FareIs
        <5> QED BY <1>2, <3>5, <5>1, <5>2
      <4> QED BY <1>16, <3>4, <4>1, <4>2
    <3>10. CASE <<e[1] - d[1], e[2] - d[2]>> \in Ring /\ (e[1] = d[1] \/ e[2] = d[2])
      <4>1. /\ q[1] - u = e[1] - d[1] /\ q[2] - v = e[2] - d[2]
            /\ q[1] = u \/ q[2] = v
        BY <2>2, <3>7, <3>10
      <4>2. Beside(nodes[up].at, q) /\ (nodes[up].at[1] = q[1] \/ nodes[up].at[2] = q[2])
        BY <3>5, <3>6, <3>10, <4>1, BesideIs
      <4>3. Reached(up, nodes, nodes, q)
        BY <1>13, <3>4, <4>2 DEF Closure
      <4>4. PICK j \in DOMAIN nodes :
              nodes[j].at = q /\ nodes[j].f <= nodes[up].f + Fare(nodes[up].at, q)
        BY <4>3 DEF Reached
      <4>5. nodes[up].f + Fare(nodes[up].at, q) <= c
        BY <1>2, <1>14, <1>18, <3>4, <3>5, <4>2, StraightIsCheap
      <4>6. nodes[j].f <= c
        <5>1. nodes[j].f \in Nat /\ Fare(nodes[up].at, q) \in Nat
          BY <1>1, NodeIs, FareIs
        <5> QED BY <3>5, <4>4, <4>5, <5>1
      <4> QED BY <1>16, <4>4, <4>6
    <3> QED BY <3>8, <3>9, <3>10
  <2> QED BY <2>3, <2>4
<1> QED BY <1>12, <1>17, <1>18

-----------------------------------------------------------------------------
(* The way back from a node.                                               *)

Size(L) == L = Len(nodes)

LEMMA TrailIs ==
  ASSUME NEW n, NEW L \in Nat, Size(L)
  PROVE  \E t : /\ Search!Trail(n) = t /\ t[0] = n
                /\ \A k \in 1 .. L :
                     t[k] = IF t[k - 1] = 0 THEN 0 ELSE nodes[t[k - 1]].parent
<1> DEFINE Up(i) == IF i = 0 THEN 0 ELSE nodes[i].parent
           Goes(g, m) == g = [k \in 0 .. m |-> IF k = 0 THEN n ELSE Up(g[k - 1])]
           S == {m \in Nat : \E g : Goes(g, m)}
<1> HIDE DEF Up
<1>1. 0 \in S
  <2>1. PICK g : g = [k \in 0 .. 0 |-> n]
    OBVIOUS
  <2>2. Goes(g, 0)
    BY <2>1
  <2> QED BY <2>2
<1>2. ASSUME NEW m \in Nat, m \in S PROVE m + 1 \in S
  <2>1. PICK g : Goes(g, m)
    BY <1>2
  <2>2. PICK h : h = [k \in 0 .. m + 1 |-> IF k <= m THEN g[k] ELSE Up(g[m])]
    OBVIOUS
  <2>3. /\ h = [k \in 0 .. m + 1 |-> h[k]]
        /\ \A k \in 0 .. m : h[k] = g[k]
        /\ h[m + 1] = Up(g[m])
    BY <2>2
  <2>4. g[0] = n /\ \A k \in 1 .. m : g[k] = Up(g[k - 1])
    BY <2>1
  <2>5. ASSUME NEW k \in 0 .. m + 1
        PROVE  h[k] = IF k = 0 THEN n ELSE Up(h[k - 1])
    <3>1. CASE k = 0
      <4>1. 0 \in 0 .. m
        OBVIOUS
      <4> QED BY <2>3, <2>4, <3>1, <4>1
    <3>2. CASE k \in 1 .. m
      <4>1. k - 1 \in 0 .. m /\ k \in 0 .. m /\ k # 0
        BY <3>2
      <4> QED BY <2>3, <2>4, <3>2, <4>1
    <3>3. CASE k = m + 1
      <4>1. k - 1 = m /\ m \in 0 .. m /\ k # 0
        BY <3>3
      <4> QED BY <2>3, <3>3, <4>1
    <3> QED BY <3>1, <3>2, <3>3
  <2>6. Goes(h, m + 1)
    BY <2>3, <2>5
  <2> QED BY <2>6
<1> HIDE DEF S
<1>3. L \in S
  BY <1>1, <1>2, Induction
<1>4. \E g : Goes(g, L)
  BY <1>3 DEF S
<1> DEFINE g == CHOOSE f : Goes(f, Len(nodes))
<1>5. Search!Trail(n) = [k \in 0 .. Len(nodes) |-> g[k]]
  BY DEF Search!Trail, Up
<1>6. Goes(g, L)
  <2> HIDE DEF Goes
  <2>1. Goes(g, Len(nodes))
    BY <1>4, Zenon DEF Size
  <2> HIDE DEF g
  <2> QED BY <2>1, Zenon DEF Size
<1> HIDE DEF g
<1>7. Search!Trail(n) = [k \in 0 .. L |-> g[k]]
  BY <1>5, Zenon DEF Size
<1>8. /\ g[0] = n
      /\ \A k \in 1 .. L : g[k] = Up(g[k - 1])
  BY <1>6
<1>9. PICK t : t = [k \in 0 .. L |-> g[k]]
  OBVIOUS
<1>10. \A k \in 0 .. L : t[k] = g[k]
  BY <1>9
<1>11. t[0] = n /\ \A k \in 1 .. L : t[k] = Up(t[k - 1])
  <2>1. 0 \in 0 .. L /\ \A k \in 1 .. L : k \in 0 .. L /\ k - 1 \in 0 .. L
    OBVIOUS
  <2> QED BY <1>8, <1>10, <2>1
<1>12. Search!Trail(n) = t
  BY <1>7, <1>9
<1>13. \A k \in 1 .. L : t[k] = IF t[k - 1] = 0 THEN 0 ELSE nodes[t[k - 1]].parent
  BY <1>11 DEF Up
<1> QED BY <1>11, <1>12, <1>13, Zenon

(* The costs fall on the way back, so it visits no node twice and ends.    *)
LEMMA TrailEnds ==
  ASSUME Tree(nodes), NEW n \in DOMAIN nodes, NEW L \in Nat, Size(L),
         NEW t, t = Search!Trail(n)
  PROVE  t[L] = 0 /\ \A k \in 0 .. L : t[k] = 0 \/ t[k] \in DOMAIN nodes
<1>1. /\ t[0] = n
      /\ \A k \in 1 .. L : t[k] = IF t[k - 1] = 0 THEN 0 ELSE nodes[t[k - 1]].parent
  BY TrailIs
<1>2. nodes \in Seq(Nodes) /\ DOMAIN nodes = 1 .. L
  BY DEF Tree, Size
<1>3. ASSUME NEW i \in DOMAIN nodes, nodes[i].parent # 0
      PROVE  /\ nodes[i].parent \in DOMAIN nodes
             /\ nodes[nodes[i].parent].f < nodes[i].f
  <2>1. PICK up : up = nodes[i].parent
    OBVIOUS
  <2>2. i # 1
    BY <1>3 DEF Tree
  <2>3. up \in DOMAIN nodes /\ nodes[i].f = nodes[up].f + Fare(nodes[up].at, nodes[i].at)
    BY <2>1, <2>2 DEF Tree
  <2>4. nodes[up].f \in Nat
    BY <1>2, <2>3, NodeIs
  <2>5. nodes[up].f < nodes[i].f
    BY <2>3, <2>4, FareIs
  <2> QED BY <2>1, <2>3, <2>5
<1> DEFINE Falls(m) ==
             /\ t[m] = 0 \/ t[m] \in DOMAIN nodes
             /\ \A j \in 0 .. m : t[m] # 0 /\ j # m =>
                  t[j] \in DOMAIN nodes /\ nodes[t[m]].f < nodes[t[j]].f
           S == {m \in Nat : m <= L => Falls(m)}
<1>4. 0 \in S
  BY <1>1
<1>5. ASSUME NEW m \in Nat, m \in S PROVE m + 1 \in S
  <2> SUFFICES ASSUME m + 1 <= L PROVE Falls(m + 1)
    OBVIOUS
  <2>1. m + 1 \in 1 .. L /\ (m + 1) - 1 = m
    OBVIOUS
  <2>2. t[m + 1] = IF t[m] = 0 THEN 0 ELSE nodes[t[m]].parent
    BY <1>1, <2>1
  <2>3. Falls(m)
    BY <1>5
  <2>4. CASE t[m + 1] = 0
    BY <2>4
  <2>5. CASE t[m + 1] # 0
    <3>1. t[m] \in DOMAIN nodes /\ t[m + 1] = nodes[t[m]].parent
      BY <2>2, <2>3, <2>5
    <3>2. t[m + 1] \in DOMAIN nodes /\ nodes[t[m + 1]].f < nodes[t[m]].f
      BY <1>3, <2>5, <3>1
    <3>3. ASSUME NEW j \in 0 .. m + 1, j # m + 1
          PROVE  t[j] \in DOMAIN nodes /\ nodes[t[m + 1]].f < nodes[t[j]].f
      <4>1. CASE j = m
        BY <3>1, <3>2, <4>1
      <4>2. CASE j # m
        <5>1. j \in 0 .. m
          BY <3>3
        <5>2. t[m] # 0
          BY <1>2, <3>1
        <5>3. t[j] \in DOMAIN nodes /\ nodes[t[m]].f < nodes[t[j]].f
          BY <2>3, <4>2, <5>1, <5>2
        <5>4. nodes[t[j]].f \in Nat /\ nodes[t[m]].f \in Nat /\ nodes[t[m + 1]].f \in Nat
          BY <1>2, <3>1, <3>2, <5>3, NodeIs
        <5> QED BY <3>2, <5>3, <5>4
      <4> QED BY <4>1, <4>2
    <3> QED BY <3>2, <3>3
  <2> QED BY <2>4, <2>5
<1> HIDE DEF S
<1>6. \A m \in Nat : m \in S
  BY <1>4, <1>5, Induction
<1>7. \A m \in 0 .. L : Falls(m)
  BY <1>6 DEF S
<1> HIDE DEF Falls
<1>8. ASSUME t[L] # 0 PROVE FALSE
  <2>1. \A j \in 0 .. L : t[j] \in 1 .. L
    BY <1>2, <1>7, <1>8 DEF Falls
  <2>2. PICK g : g = [j \in 0 .. L |-> t[j]]
    OBVIOUS
  <2>3. g \in [0 .. L -> 1 .. L]
    BY <2>1, <2>2
  <2>4. IsFiniteSet(0 .. L) /\ Cardinality(0 .. L) = L + 1
    BY FS_Interval
  <2>5. IsFiniteSet(1 .. L) /\ Cardinality(1 .. L) = L
    BY FS_Interval
  <2>6. PICK x \in 0 .. L, y \in 0 .. L : x # y /\ g[x] = g[y]
    <3>1. Cardinality(1 .. L) < Cardinality(0 .. L)
      BY <2>4, <2>5
    <3> QED BY <2>3, <2>4, <2>5, <3>1, FS_PigeonHole
  <2>7. ASSUME NEW u \in 0 .. L, NEW w \in 0 .. L, u < w, t[u] = t[w] PROVE FALSE
    <3>1. u \in 0 .. w /\ u # w /\ t[w] \in DOMAIN nodes /\ t[w] # 0
      BY <1>2, <2>1, <2>7
    <3>2. nodes[t[w]].f < nodes[t[u]].f
      BY <1>7, <3>1 DEF Falls
    <3>3. nodes[t[w]].f \in Nat
      BY <1>2, <3>1, NodeIs
    <3> QED BY <2>7, <3>2, <3>3
  <2>8. t[x] = t[y]
    BY <2>2, <2>6
  <2> QED BY <2>6, <2>7, <2>8
<1> QED BY <1>7, <1>8 DEF Falls

(* What PathShortest says of the way that is handed to the walk.           *)
LEMMA WayWalkable ==
  ASSUME start \in Search!Cell, Tree(nodes), found \in DOMAIN nodes
  PROVE  Search!Walkable
<1>1. PICK L \in Nat : Size(L)
  BY DEF Tree, Size
<1>2. PICK t : t = Search!Trail(found)
  OBVIOUS
<1>3. t[L] = 0 /\ \A k \in 0 .. L : t[k] = 0 \/ t[k] \in DOMAIN nodes
  BY <1>1, <1>2, TrailEnds
<1>4. nodes \in Seq(Nodes)
  BY DEF Tree
<1>5. ASSUME NEW i \in DOMAIN nodes
      PROVE  /\ Search!CanWalkTo(nodes[i].at)
             /\ IF nodes[i].parent = 0 THEN nodes[i].at = start
                ELSE LET up == nodes[nodes[i].parent] IN
                     /\ Search!Distance(nodes[i].at, up.at) = 1
                     /\ nodes[i].f = up.f + Search!WalkCost(up.at, nodes[i].at)
                                          + Search!TileCost(nodes[i].at)
  <2>1. Search!CanWalkTo(nodes[i].at)
    BY DEF Tree
  <2>2. CASE i = 1
    BY <2>1, <2>2 DEF Tree
  <2>3. CASE i # 1
    <3>1. PICK u : u = nodes[i].parent
      OBVIOUS
    <3>2. /\ u \in DOMAIN nodes /\ Beside(nodes[i].at, nodes[u].at)
          /\ nodes[i].f = nodes[u].f + Fare(nodes[u].at, nodes[i].at)
      BY <2>3, <3>1 DEF Tree
    <3>3. PICK up : up = nodes[u]
      OBVIOUS
    <3>4. up.f \in Nat /\ u # 0
      BY <1>4, <3>2, <3>3, NodeIs
    <3>5. Search!WalkCost(up.at, nodes[i].at) \in Nat /\ Search!TileCost(nodes[i].at) \in Nat
      BY DEF Search!WalkCost, Search!TileCost
    <3>6. nodes[i].f = up.f + Search!WalkCost(up.at, nodes[i].at)
                            + Search!TileCost(nodes[i].at)
      BY <3>2, <3>3, <3>4, <3>5 DEF Fare
    <3>7. Search!Distance(nodes[i].at, up.at) = 1
      BY <3>2, <3>3 DEF Beside
    <3> QED BY <2>1, <3>1, <3>3, <3>4, <3>6, <3>7
  <2> QED BY <2>2, <2>3
<1>6. \A k \in 0 .. L :
        t[k] # 0 => /\ Search!CanWalkTo(nodes[t[k]].at)
                    /\ IF nodes[t[k]].parent = 0 THEN nodes[t[k]].at = start
                       ELSE LET up == nodes[nodes[t[k]].parent] IN
                            /\ Search!Distance(nodes[t[k]].at, up.at) = 1
                            /\ nodes[t[k]].f = up.f + Search!WalkCost(up.at, nodes[t[k]].at)
                                                    + Search!TileCost(nodes[t[k]].at)
  BY <1>3, <1>5
<1>7. L = Len(nodes)
  BY <1>1 DEF Size
<1> QED BY <1>2, <1>3, <1>6, <1>7, Zenon DEF Search!Walkable

-----------------------------------------------------------------------------
(* The search.                                                             *)

(* A square of the wanted distance, at which the search stops at once.     *)
Exact(p) == Search!Matches(p, 0) /\ Search!BestMatch(p, 0) = 0

LEMMA ExactIs ==
  ASSUME goal \in Search!Cell, NEW p \in Search!Cell, NEW best \in Nat,
         request.maxTargetDist = 1 => best = 0
  PROVE  /\ Search!Matches(p, best) /\ Search!BestMatch(p, best) = 0 <=> Exact(p)
         /\ Search!Matches(p, best) => /\ Search!BestMatch(p, best) \in Nat
                                       /\ request.maxTargetDist = 1 => Search!BestMatch(p, best) = 0
<1>1. PICK d \in Nat : d = Search!Distance(goal, p)
  <2>1. \A q \in Search!Cell : q[1] \in Int /\ q[2] \in Int
    BY WorldAssumption DEF Search!Cell
  <2>2. goal[1] \in Int /\ goal[2] \in Int /\ p[1] \in Int /\ p[2] \in Int
    BY <2>1
  <2>3. Search!Distance(goal, p) \in Nat
    BY <2>2 DEF Search!Distance, Search!Farther, Search!Gap
  <2> QED BY <2>3
<1>2. PICK low, far : low = request.minTargetDist /\ far = request.maxTargetDist
  OBVIOUS
<1>3. \A b : Search!Matches(p, b) <=> /\ Search!IsInRange(p) /\ d >= low /\ d <= far
                                      /\ far = 1 \/ d = far \/ d > b
  BY <1>1, <1>2, Zenon DEF Search!Matches
<1>4. \A b : Search!BestMatch(p, b) = IF far = 1 THEN b ELSE IF d = far THEN 0 ELSE d
  BY <1>1, <1>2, Zenon DEF Search!BestMatch
<1>5. Exact(p) <=> /\ Search!IsInRange(p) /\ d >= low /\ d <= far
                   /\ far = 1 \/ d = far
  BY <1>3, <1>4 DEF Exact
<1>6. Search!Matches(p, best) /\ Search!BestMatch(p, best) = 0
        <=> /\ Search!IsInRange(p) /\ d >= low /\ d <= far
            /\ far = 1 \/ d = far
  BY <1>2, <1>3, <1>4
<1> QED BY <1>2, <1>4, <1>5, <1>6

(* No closed node was one to take.                                         *)
Unlike(ns) == \A i \in DOMAIN ns : ~ns[i].open => ~Search!Matches(ns[i].at, 0)
NoneExact(ns) == \A i \in DOMAIN ns : ~ns[i].open => ~Exact(ns[i].at)

SearchOutcome ==
  Len(nodes) < MaxNodes /\ Search!MayGoOn =>
    /\ verdict = "none" => \A i \in DOMAIN nodes : ~Search!Matches(nodes[i].at, 0)
    /\ verdict = "path" =>
         \A i \in DOMAIN nodes :
           Exact(nodes[i].at) => Exact(nodes[found].at) /\ nodes[found].f <= nodes[i].f

(* What holds at every turn of the loop.                                   *)
SearchInv ==
  /\ start \in Search!Cell /\ goal \in Search!Cell /\ closedNodes \in Int
  /\ bestMatch \in Nat /\ (request.maxTargetDist = 1 => bestMatch = 0)
  /\ found = 0 \/ found \in DOMAIN nodes
  /\ found = 0 => bestMatch = 0 /\ Unlike(nodes)
  /\ NoneExact(nodes)
  /\ Tree(nodes) /\ Closure(nodes)
  /\ verdict = "path" => found # 0
  /\ SearchOutcome

LEMMA SearchIsShortest == ASSUME SearchInv PROVE Search!PathShortest
<1>1. nodes \in Seq(Nodes) /\ Tree(nodes) /\ start \in Search!Cell
  BY DEF SearchInv, Tree
<1>2. Search!Walkable
  <2>1. CASE verdict = "path"
    BY <1>1, <2>1, WayWalkable DEF SearchInv
  <2>2. CASE verdict # "path"
    BY <2>2 DEF Search!Walkable
  <2> QED BY <2>1, <2>2
<1>3. ASSUME Len(nodes) < MaxNodes, NEW i \in DOMAIN nodes, ~nodes[i].open,
             NEW q \in Search!Cell, Search!Distance(nodes[i].at, q) = 1,
             Search!CanWalkTo(q), Search!Allowed(q)
      PROVE  \E j \in DOMAIN nodes :
               /\ nodes[j].at = q
               /\ nodes[j].f <= nodes[i].f + Search!WalkCost(nodes[i].at, q) + Search!TileCost(q)
  <2>1. Reached(i, nodes, nodes, q)
    BY <1>3 DEF SearchInv, Closure, Beside, Usable
  <2>2. PICK j \in DOMAIN nodes : nodes[j].at = q /\ nodes[j].f <= nodes[i].f + Fare(nodes[i].at, q)
    BY <2>1 DEF Reached
  <2>3. nodes[i].f \in Nat /\ nodes[j].f \in Nat
    BY <1>1, NodeIs
  <2>4. PICK w \in Nat, c \in Nat : w = Search!WalkCost(nodes[i].at, q) /\ c = Search!TileCost(q)
    BY DEF Search!WalkCost, Search!TileCost
  <2>5. nodes[j].f <= nodes[i].f + (w + c)
    BY <2>2, <2>4 DEF Fare
  <2>6. nodes[j].f <= nodes[i].f + w + c
    BY <2>3, <2>5
  <2> QED BY <2>2, <2>4, <2>6
<1>4. Len(nodes) < MaxNodes /\ verdict = "none" /\ Search!MayGoOn =>
        \A i \in DOMAIN nodes : ~Search!Matches(nodes[i].at, 0)
  BY DEF SearchInv, SearchOutcome
<1> DEFINE exact == {i \in DOMAIN nodes : Exact(nodes[i].at)}
<1>5. Len(nodes) < MaxNodes /\ verdict = "path" /\ Search!MayGoOn /\ exact # {} =>
        found \in exact /\ \A i \in exact : nodes[found].f <= nodes[i].f
  BY DEF SearchInv, SearchOutcome
<1>6. exact = {i \in DOMAIN nodes : Search!Matches(nodes[i].at, 0) /\ Search!BestMatch(nodes[i].at, 0) = 0}
  BY DEF Exact
<1> HIDE DEF exact
<1> QED BY <1>2, <1>3, <1>4, <1>5, <1>6, Zenon DEF Search!PathShortest

(* What the search is about stays.                                         *)
LEMMA SearchSame ==
  ASSUME UNCHANGED <<start, goal, request, blocked>>, NEW ns, ns = nodes'
  PROVE  /\ Tree(ns) => Tree(nodes)'
         /\ Closure(ns) => Closure(nodes)'
         /\ Unlike(ns) => Unlike(nodes)'
         /\ NoneExact(ns) => NoneExact(nodes)'
         /\ \A p, b : Search!Matches(p, b)' <=> Search!Matches(p, b)
         /\ \A p : Exact(p)' <=> Exact(p)
<1>1. \A p : Search!CanWalkTo(p)' <=> Search!CanWalkTo(p)
  BY DEF Search!CanWalkTo
<1>2. \A p : Search!IsInRange(p)' <=> Search!IsInRange(p)
  BY DEF Search!IsInRange
<1>3. \A p : Search!Allowed(p)' <=> Search!Allowed(p)
  BY <1>2 DEF Search!Allowed
<1>4. \A p, b : Search!Matches(p, b)' <=> Search!Matches(p, b)
  BY <1>2 DEF Search!Matches
<1>5. \A p, b : Search!BestMatch(p, b)' = Search!BestMatch(p, b)
  BY DEF Search!BestMatch
<1>6. \A p : Exact(p)' <=> Exact(p)
  BY <1>4, <1>5 DEF Exact
<1>7. Tree(ns) => Tree(nodes)'
  BY <1>1 DEF Tree
<1>8. \A p : Usable(p)' <=> Usable(p)
  BY <1>1, <1>3 DEF Usable
<1>9. Closure(ns) => Closure(nodes)'
  BY <1>8 DEF Closure, Reached
<1>10. Unlike(ns) => Unlike(nodes)'
  BY <1>4 DEF Unlike
<1>11. NoneExact(ns) => NoneExact(nodes)'
  BY <1>6 DEF NoneExact
<1> QED BY <1>4, <1>6, <1>7, <1>9, <1>10, <1>11

LEMMA SearchInit == ASSUME Search!Init PROVE SearchInv
<1>1. PICK m : m = [at |-> start, f |-> 0, parent |-> 0, open |-> TRUE]
  OBVIOUS
<1>2. /\ start \in Search!Cell /\ goal \in Search!Cell /\ nodes = <<m>>
      /\ closedNodes = 0 /\ bestMatch = 0 /\ found = 0 /\ verdict = "searching"
  BY <1>1 DEF Search!Init
<1>3. m \in Nodes /\ m.at = start /\ m.f = 0 /\ m.parent = 0 /\ m.open
  BY <1>1, <1>2 DEF Nodes
<1>4. nodes \in Seq(Nodes) /\ DOMAIN nodes = {1} /\ nodes[1] = m
  BY <1>2, <1>3
<1>5. Search!CanWalkTo(start)
  BY DEF Search!CanWalkTo
<1>6. Tree(nodes)
  BY <1>3, <1>4, <1>5 DEF Tree
<1>7. Closure(nodes) /\ Unlike(nodes) /\ NoneExact(nodes)
  BY <1>3, <1>4 DEF Closure, Unlike, NoneExact
<1> QED BY <1>2, <1>6, <1>7 DEF SearchInv, SearchOutcome

LEMMA GiveUpStep == ASSUME SearchInv, Search!GiveUp PROVE SearchInv'
<1>1. PICK ns : ns = nodes
  OBVIOUS
<1>2. /\ UNCHANGED <<start, goal, request, blocked>> /\ ns = nodes'
      /\ closedNodes' = closedNodes /\ bestMatch' = bestMatch /\ found' = found
      /\ verdict' = Search!Ending
      /\ ~Search!MayGoOn \/ Search!BestNode = 0
  BY <1>1 DEF Search!GiveUp
<1>3. Tree(ns) /\ Closure(ns) /\ NoneExact(ns) /\ (found = 0 => Unlike(ns))
  BY <1>1 DEF SearchInv
<1>4. /\ Tree(nodes)' /\ Closure(nodes)' /\ NoneExact(nodes)' /\ (found = 0 => Unlike(nodes)')
      /\ \A p, b : Search!Matches(p, b)' <=> Search!Matches(p, b)
      /\ \A p : Exact(p)' <=> Exact(p)
  BY <1>2, <1>3, SearchSame
<1>5. verdict' = "none" => found = 0
  BY <1>2 DEF Search!Ending
<1>6. verdict' = "path" => found # 0
  BY <1>2 DEF Search!Ending
<1>7. Search!MayGoOn' <=> Search!MayGoOn
  BY <1>2 DEF Search!MayGoOn
<1>8. Search!BestNode = 0 => \A i \in DOMAIN ns : ~ns[i].open
  BY <1>1, BestNodeIs DEF SearchInv
<1>9. SearchOutcome'
  <2> SUFFICES ASSUME Search!MayGoOn PROVE
        /\ verdict' = "none" => \A i \in DOMAIN ns : ~Search!Matches(ns[i].at, 0)
        /\ \A i \in DOMAIN ns : ~Exact(ns[i].at)
    BY <1>2, <1>4, <1>7 DEF SearchOutcome
  <2>1. \A i \in DOMAIN ns : ~ns[i].open
    BY <1>2, <1>8
  <2> QED BY <1>3, <1>5, <2>1 DEF Unlike, NoneExact
<1> QED BY <1>1, <1>2, <1>4, <1>6, <1>9 DEF SearchInv

LEMMA HitStep == ASSUME SearchInv, Search!Hit PROVE SearchInv'
<1>1. PICK ns, n : ns = nodes /\ n = Search!BestNode
  OBVIOUS
<1>2. /\ UNCHANGED <<start, goal, request, blocked>> /\ ns = nodes'
      /\ closedNodes' = closedNodes /\ bestMatch' = 0 /\ found' = n
      /\ verdict' = "path" /\ n # 0
      /\ Search!Matches(ns[n].at, bestMatch) /\ Search!BestMatch(ns[n].at, bestMatch) = 0
  BY <1>1 DEF Search!Hit
<1>3. Tree(ns) /\ Closure(ns) /\ NoneExact(ns)
  BY <1>1 DEF SearchInv
<1>4. /\ Tree(nodes)' /\ Closure(nodes)' /\ NoneExact(nodes)'
      /\ \A p : Exact(p)' <=> Exact(p)
  BY <1>2, <1>3, SearchSame
<1>5. Cheapest(ns, n)
  BY <1>1, <1>2, <1>3, BestNodeIs
<1>6. n \in DOMAIN ns /\ \A j \in DOMAIN ns : ns[j].open => ns[n].f <= ns[j].f
  BY <1>5 DEF Cheapest
<1>7. ns \in Seq(Nodes)
  BY <1>3 DEF Tree
<1>8. ns[n].at \in Search!Cell
  BY <1>6, <1>7, NodeIs
<1>9. Exact(ns[n].at)
  BY <1>2, <1>8, ExactIs DEF SearchInv
<1>10. \A i \in DOMAIN ns : Exact(ns[i].at) => ns[n].f <= ns[i].f
  BY <1>3, <1>6, <1>7, NodeIs DEF NoneExact
<1>11. SearchOutcome'
  BY <1>2, <1>4, <1>9, <1>10 DEF SearchOutcome
<1> QED BY <1>2, <1>4, <1>6, <1>11 DEF SearchInv

LEMMA ExpandStep == ASSUME SearchInv, Search!Expand PROVE SearchInv'
<1>1. PICK ns, n : ns = nodes /\ n = Search!BestNode
  OBVIOUS
<1>2. PICK s : s = Search!Around(n)
  OBVIOUS
<1>3. PICK rs : rs = [s.nodes EXCEPT ![n] = [s.nodes[n] EXCEPT !.open = FALSE]]
  OBVIOUS
<1>4. PICK match : match = Search!Matches(ns[n].at, bestMatch)
  OBVIOUS
<1>5. PICK best : best = Search!BestMatch(ns[n].at, bestMatch)
  OBVIOUS
<1>6. /\ UNCHANGED <<start, goal, request, blocked>> /\ rs = nodes'
      /\ closedNodes' = s.closed + 1 /\ n # 0
      /\ ~(match /\ best = 0)
      /\ found' = IF match THEN n ELSE found
      /\ bestMatch' = IF match THEN best ELSE bestMatch
      /\ verdict' = IF s.full /\ found' = 0 THEN "none" ELSE "searching"
  BY <1>1, <1>2, <1>3, <1>4, <1>5 DEF Search!Expand
<1>7. Tree(ns) /\ Closure(ns) /\ NoneExact(ns) /\ start \in Search!Cell /\ closedNodes \in Int
  BY <1>1 DEF SearchInv
<1>8. Cheapest(ns, n) /\ Shut(n, s.nodes, rs)
  BY <1>1, <1>3, <1>6, <1>7, BestNodeIs DEF Shut
<1>9. PICK K : Looked(n, ns, s, K) /\ Closure(rs)
  BY <1>1, <1>2, <1>7, <1>8, StillClosure
<1>10. /\ Tree(rs) /\ Len(ns) <= Len(rs) /\ Len(rs) = Len(s.nodes)
       /\ \A i \in DOMAIN rs : ~rs[i].open =>
            i \in DOMAIN ns /\ (i = n \/ ~ns[i].open)
              /\ rs[i].at = ns[i].at /\ rs[i].f = ns[i].f
       /\ \A i \in DOMAIN ns : i \in DOMAIN rs /\ rs[i].at = ns[i].at /\ rs[i].f <= ns[i].f
  BY <1>7, <1>8, <1>9, StillTree
<1>11. n \in DOMAIN ns /\ ns \in Seq(Nodes)
  BY <1>7, <1>8 DEF Tree, Cheapest
<1>12. ns[n].at \in Search!Cell
  BY <1>11, NodeIs
<1>13. match \in BOOLEAN /\ s.closed \in Int /\ s.full \in BOOLEAN
       /\ (s.full => Len(s.nodes) = MaxNodes)
  BY <1>4, <1>9 DEF Looked, Search!Matches
<1>14. /\ goal \in Search!Cell /\ bestMatch \in Nat
       /\ request.maxTargetDist = 1 => bestMatch = 0
  BY DEF SearchInv
<1>15. /\ ~Exact(ns[n].at)
       /\ match => best \in Nat /\ (request.maxTargetDist = 1 => best = 0)
  BY <1>4, <1>5, <1>6, <1>12, <1>14, ExactIs
<1>16. NoneExact(rs)
  BY <1>7, <1>10, <1>15 DEF NoneExact
<1>17. ASSUME found' = 0 PROVE bestMatch' = 0 /\ Unlike(rs)
  <2>1. ~match /\ found = 0
    BY <1>6, <1>13, <1>17
  <2>2. bestMatch = 0 /\ Unlike(ns)
    BY <1>1, <2>1 DEF SearchInv
  <2>3. ~Search!Matches(ns[n].at, 0)
    BY <1>4, <2>1, <2>2
  <2>4. Unlike(rs)
    BY <1>10, <2>2, <2>3 DEF Unlike
  <2> QED BY <1>6, <2>1, <2>2, <2>4
<1>18. /\ Tree(nodes)' /\ Closure(nodes)' /\ NoneExact(nodes)' /\ (Unlike(rs) => Unlike(nodes)')
  BY <1>6, <1>9, <1>10, <1>16, SearchSame
<1>19. found' = 0 \/ found' \in DOMAIN rs
  <2>1. found = 0 \/ found \in DOMAIN ns
    BY <1>1 DEF SearchInv
  <2> QED BY <1>6, <1>10, <1>11, <2>1
<1>20. bestMatch' \in Nat /\ (request.maxTargetDist = 1 => bestMatch' = 0)
  BY <1>6, <1>14, <1>15
<1>21. verdict' # "path" /\ (verdict' = "none" => Len(rs) = MaxNodes)
  BY <1>6, <1>10, <1>13
<1>22. SearchOutcome'
  <2>1. rs \in Seq(Nodes)
    BY <1>10 DEF Tree
  <2>2. ~(MaxNodes < MaxNodes)
    BY WorldAssumption
  <2> QED BY <1>6, <1>21, <2>1, <2>2 DEF SearchOutcome
<1>23. start' \in Search!Cell /\ goal' \in Search!Cell /\ closedNodes' \in Int
  BY <1>6, <1>7, <1>13, <1>14
<1> QED
  BY <1>6, <1>17, <1>18, <1>19, <1>20, <1>21, <1>22, <1>23 DEF SearchInv

(* The search of Map::getPathMatching, on a board of any size, for any     *)
(* request, with walls and creatures wherever they are: the way it hands to*)
(* the walk is one that can be walked, at the cost it was found at; and, as*)
(* long as it meets none of its limits, nothing that can be reached is     *)
(* passed over, a search that finds nothing had nothing to find, and one   *)
(* that finds a square at the wanted distance finds the cheapest.          *)
THEOREM PathAlwaysShortest == WorldSpec => []PathShortest
<1> DEFINE Inv == scene = "search" => SearchInv
<1>1. WorldInit => Inv
  BY SearchInit DEF WorldInit
<1>2. Inv /\ [WorldNext]_<<scene, stepsVars, rayVars, areaVars, searchVars, cachedVars>> => Inv'
  <2> SUFFICES ASSUME Inv, scene' = "search",
                      [WorldNext]_<<scene, stepsVars, rayVars, areaVars, searchVars, cachedVars>>
               PROVE  SearchInv'
    OBVIOUS
  <2>1. scene = "search" /\ (Search!Next \/ UNCHANGED searchVars)
    BY DEF WorldNext
  <2>2. CASE Search!Next
    BY <2>1, <2>2, GiveUpStep, HitStep, ExpandStep DEF Search!Next
  <2>3. CASE UNCHANGED searchVars
    <3>1. PICK ns : ns = nodes
      OBVIOUS
    <3>2. /\ UNCHANGED <<start, goal, request, blocked>> /\ ns = nodes'
          /\ closedNodes' = closedNodes /\ bestMatch' = bestMatch /\ found' = found
          /\ verdict' = verdict
      BY <2>3, <3>1 DEF searchVars
    <3>3. SearchInv
      BY <2>1
    <3>4. /\ Tree(nodes)' /\ Closure(nodes)' /\ NoneExact(nodes)'
          /\ (found = 0 => Unlike(nodes)')
      BY <3>1, <3>2, <3>3, SearchSame DEF SearchInv
    <3>5. /\ \A p, b : Search!Matches(p, b)' <=> Search!Matches(p, b)
          /\ \A p : Exact(p)' <=> Exact(p)
      BY <3>2, SearchSame
    <3>6. SearchOutcome'
      BY <3>1, <3>2, <3>3, <3>5 DEF SearchInv, SearchOutcome, Search!MayGoOn
    <3> QED BY <3>1, <3>2, <3>3, <3>4, <3>6 DEF SearchInv
  <2> QED BY <2>1, <2>2, <2>3
<1>3. Inv => PathShortest
  BY SearchIsShortest DEF PathShortest
<1> QED BY <1>1, <1>2, <1>3, PTL DEF WorldSpec
=============================================================================
