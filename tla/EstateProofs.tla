---------------------------- MODULE EstateProofs ----------------------------
(***************************************************************************)
(* Proofs about MCEstate: the house (Houses), for any number of players    *)
(* and of items, and the saves (Persistence, which MCEstate calls Base),   *)
(* for any number of players, of changes and of faults.                    *)
(***************************************************************************)
EXTENDS MCEstate, TLAPS, FiniteSetTheorems, SequenceTheorems

-----------------------------------------------------------------------------
(* The house.                                                              *)

Places == {"offline", "outside", "inside"}
Deeds == [from : Players, to : Players] \cup {NoDeed}

(* An item is in one hand, in one locker or on the tiles, at most once.    *)
PlacedOnce ==
  \A i \in HouseGoods :
    /\ \A p, q \in Players : i \in Held(p) /\ i \in Held(q) => p = q
    /\ \A p, q \in Players : i \in Kept(p) /\ i \in Kept(q) => p = q
    /\ \A p, q \in Players : ~(i \in Held(p) /\ i \in Kept(q))
    /\ i \in onTiles => \A p \in Players : i \notin Held(p) /\ i \notin Kept(p)

(* The locker of a player who has not used a depot holds what its rows do: *)
(* not writing it loses what was added, and brings nothing back.           *)
UnusedDepotKept ==
  \A p \in Players : InGame(p) /\ p \notin depotUsed => rows[p].depot \subseteq locker[p]

HouseInv ==
  /\ TypeOK
  /\ deed \in Deeds
  /\ InvitedInside
  /\ SleepersAgree
  /\ PlacedOnce
  /\ UnusedDepotKept

(* The parts of the invariant that an action can leave alone: whoever is   *)
(* where he was, and the goods.                                            *)
LEMMA HouseholdStays ==
  ASSUME InvitedInside, SleepersAgree,
         UNCHANGED <<owner, guests, subowners, place, sleeper, asleep, kicks>>
  PROVE  InvitedInside' /\ SleepersAgree'
BY DEF InvitedInside, SleepersAgree, AccessLevel, InGame

LEMMA GoodsStay ==
  ASSUME PlacedOnce, UnusedDepotKept,
         UNCHANGED <<onTiles, inv, locker, depotUsed, rows>>,
         \A p \in Players : place'[p] = "offline" <=> place[p] = "offline"
  PROVE  PlacedOnce' /\ UnusedDepotKept'
<1>1. \A p \in Players : /\ InGame(p)' <=> InGame(p)
                        /\ Held(p)' = Held(p) /\ Kept(p)' = Kept(p)
  BY DEF InGame, Held, Kept
<1>2. PlacedOnce'
  BY <1>1 DEF PlacedOnce
<1>3. UnusedDepotKept'
  BY <1>1 DEF UnusedDepotKept
<1> QED
  BY <1>2, <1>3

(* Goods that only disappear are at no new place.                          *)
LEMMA FewerPlaces ==
  ASSUME PlacedOnce, onTiles' \subseteq onTiles,
         \A p \in Players : Held(p)' \subseteq Held(p) /\ Kept(p)' \subseteq Kept(p)
  PROVE  PlacedOnce'
BY DEF PlacedOnce

(* What a player has when he leaves the game is what his rows hold then.   *)
LEMMA LeaveFacts ==
  ASSUME HouseInv, NEW p \in Players, InGame(p), LeaveGame(p), onTiles' = onTiles
  PROVE  /\ place' \in [Players -> Places] /\ place'[p] = "offline"
         /\ \A q \in Players \ {p} : place'[q] = place[q]
         /\ inv' \in [Players -> SUBSET HouseGoods]
         /\ locker' \in [Players -> SUBSET HouseGoods]
         /\ rows' \in [Players -> [inv : SUBSET HouseGoods, depot : SUBSET HouseGoods,
                                   inHouse : BOOLEAN]]
         /\ depotUsed' \subseteq Players /\ lost' \subseteq HouseGoods
         /\ deed' \in Deeds
         /\ PlacedOnce' /\ UnusedDepotKept'
<1>1. /\ TypeOK /\ PlacedOnce /\ UnusedDepotKept /\ deed \in Deeds
  BY DEF HouseInv
<1>2. /\ place' = [place EXCEPT ![p] = "offline"]
      /\ rows' = [rows EXCEPT ![p] = Stored(p)]
      /\ lost' = lost \cup NotWritten(p)
      /\ inv' = [inv EXCEPT ![p] = {}]
      /\ locker' = [locker EXCEPT ![p] = {}]
      /\ depotUsed' = depotUsed \ {p}
      /\ deed' = IF p \in {deed.from, deed.to} THEN NoDeed ELSE deed
  BY DEF LeaveGame
<1>3. /\ Stored(p) \in [inv : SUBSET HouseGoods, depot : SUBSET HouseGoods,
                        inHouse : BOOLEAN]
      /\ Stored(p).inv = inv[p]
      /\ Stored(p).depot = IF p \in depotUsed THEN locker[p] ELSE rows[p].depot
  BY <1>1 DEF TypeOK, Stored
<1>4. /\ place' \in [Players -> Places] /\ place'[p] = "offline"
      /\ \A q \in Players \ {p} : place'[q] = place[q]
      /\ inv' \in [Players -> SUBSET HouseGoods]
      /\ \A q \in Players \ {p} : inv'[q] = inv[q]
      /\ locker' \in [Players -> SUBSET HouseGoods]
      /\ \A q \in Players \ {p} : locker'[q] = locker[q]
      /\ rows' \in [Players -> [inv : SUBSET HouseGoods, depot : SUBSET HouseGoods,
                                inHouse : BOOLEAN]]
      /\ rows'[p] = Stored(p)
      /\ \A q \in Players \ {p} : rows'[q] = rows[q]
  BY <1>1, <1>2, <1>3 DEF TypeOK, Places
<1>5. depotUsed' \subseteq Players /\ lost' \subseteq HouseGoods /\ deed' \in Deeds
  BY <1>1, <1>2 DEF TypeOK, NotWritten, Deeds
<1>6. \A q \in Players : Held(q)' \subseteq Held(q) /\ Kept(q)' \subseteq Kept(q)
  <2> TAKE q \in Players
  <2>1. CASE q = p
    <3>1. ~InGame(q)' /\ InGame(q)
      BY <1>4, <2>1 DEF InGame
    <3>2. Held(q)' = inv[p] /\ Held(q) = inv[p]
      BY <1>3, <1>4, <2>1, <3>1 DEF Held
    <3>3. Kept(q)' = Stored(p).depot /\ Kept(q) = locker[p]
      BY <1>4, <2>1, <3>1 DEF Kept
    <3>4. Stored(p).depot \subseteq locker[p]
      BY <1>1, <1>3, <2>1, <3>1 DEF UnusedDepotKept
    <3> QED BY <3>2, <3>3, <3>4
  <2>2. CASE q # p
    BY <1>4, <2>2 DEF Held, Kept, InGame
  <2> QED BY <2>1, <2>2
<1>7. PlacedOnce'
  BY <1>1, <1>6, FewerPlaces
<1>8. UnusedDepotKept'
  BY <1>1, <1>2, <1>4 DEF UnusedDepotKept, InGame
<1> QED
  BY <1>4, <1>5, <1>7, <1>8

(* Whoever leaves the game is neither inside nor awake in the bed.         *)
LEMMA LeaverGone ==
  ASSUME InvitedInside, SleepersAgree, place \in [Players -> Places],
         NEW p \in Players, place'[p] = "offline",
         \A q \in Players \ {p} : place'[q] = place[q],
         kicks \ {p} \subseteq kicks',
         asleep \subseteq Players,
         UNCHANGED <<owner, guests, subowners, sleeper, asleep>>
  PROVE  InvitedInside' /\ SleepersAgree'
<1>1. \A q \in Players : AccessLevel(q)' = AccessLevel(q)
  BY DEF AccessLevel, Level
<1>2. InvitedInside'
  BY <1>1 DEF InvitedInside
<1>3. SleepersAgree'
  BY DEF SleepersAgree, InGame
<1> QED
  BY <1>2, <1>3

(* House::setOwner, from whoever calls it: nobody is left inside, nobody   *)
(* is left in the bed, and what lay inside is in the locker of one player. *)
LEMMA SetOwnerOK ==
  ASSUME HouseInv, NEW o \in Players \cup {NoPlayer}, SetOwner(o),
         UNCHANGED <<inv, depotUsed, rows>>, deed' \in Deeds,
         kicks' \subseteq Players,
         \A p \in Players : p \in kicks /\ InGame(p) => p \in kicks'
  PROVE  HouseInv'
<1>1. /\ TypeOK /\ InvitedInside /\ SleepersAgree
      /\ PlacedOnce /\ UnusedDepotKept
  BY DEF HouseInv
<1>2. CASE owner = o
  <2>1. UNCHANGED <<owner, guests, subowners, place, sleeper, asleep, onTiles,
                   locker, rentWarnings, lost>>
    BY <1>2 DEF SetOwner
  <2>2. TypeOK'
    BY <1>1, <2>1 DEF TypeOK
  <2>3. InvitedInside' /\ SleepersAgree'
    BY <1>1, <2>1 DEF InvitedInside, SleepersAgree, AccessLevel, InGame, TypeOK
  <2>4. PlacedOnce' /\ UnusedDepotKept'
    BY <1>1, <2>1, GoodsStay
  <2> QED BY <2>2, <2>3, <2>4 DEF HouseInv
<1>3. CASE owner # o /\ owner = NoPlayer
  <2>1. /\ owner' = o /\ rentWarnings' = 0
        /\ UNCHANGED <<guests, subowners, place, sleeper, asleep, onTiles, locker, lost>>
    BY <1>3 DEF SetOwner
  <2>2. TypeOK'
    BY <1>1, <2>1, HousesAssumption DEF TypeOK
  <2>3. \A p \in Players : AccessLevel(p) > 0 => AccessLevel(p)' > 0
    BY <1>3, <2>1, HousesAssumption DEF AccessLevel, Level
  <2>4. InvitedInside' /\ SleepersAgree'
    BY <1>1, <2>1, <2>3 DEF InvitedInside, SleepersAgree, InGame, TypeOK
  <2>5. PlacedOnce' /\ UnusedDepotKept'
    BY <1>1, <2>1, GoodsStay
  <2> QED BY <2>2, <2>4, <2>5 DEF HouseInv
<1>4. CASE owner # o /\ owner # NoPlayer
  <2>1. /\ owner' = o /\ rentWarnings' = 0
        /\ onTiles' = {} /\ AddToLocker(owner, onTiles)
        /\ KickUninvited(NoPlayer, {}, {})
        /\ sleeper' = NoPlayer /\ asleep' = asleep \ {sleeper}
        /\ subowners' = {} /\ guests' = {}
        /\ owner \in Players
    BY <1>1, <1>4 DEF SetOwner, TypeOK
  <2>2. /\ place' \in [Players -> Places]
        /\ \A p \in Players : /\ place'[p] # "inside"
                              /\ place'[p] = "offline" <=> place[p] = "offline"
    BY <1>1, <2>1, HousesAssumption DEF KickUninvited, Level, TypeOK, Places
  <2>3. /\ locker' \in [Players -> SUBSET HouseGoods] /\ lost' \subseteq HouseGoods
        /\ \A p \in Players : locker'[p] = IF p = owner /\ InGame(p)
                                           THEN locker[p] \cup onTiles ELSE locker[p]
    <3>1. locker \in [Players -> SUBSET HouseGoods] /\ onTiles \subseteq HouseGoods /\ lost \subseteq HouseGoods
      BY <1>1 DEF TypeOK
    <3>2. CASE InGame(owner)
      <4>1. locker' = [locker EXCEPT ![owner] = @ \cup onTiles] /\ lost' = lost
        BY <2>1, <3>2 DEF AddToLocker
      <4> QED BY <2>1, <3>1, <3>2, <4>1
    <3>3. CASE ~InGame(owner)
      <4>1. locker' = locker /\ lost' = lost \cup onTiles
        BY <2>1, <3>3 DEF AddToLocker
      <4> QED BY <3>1, <3>3, <4>1
    <3> QED BY <3>2, <3>3
  <2>4. TypeOK'
    BY <1>1, <2>1, <2>2, <2>3, HousesAssumption DEF TypeOK, Places
  <2>5. InvitedInside' /\ SleepersAgree'
    BY <1>1, <2>1, <2>2 DEF InvitedInside, SleepersAgree
  <2>6. \A p \in Players :
          /\ InGame(p)' <=> InGame(p)
          /\ Held(p)' = Held(p)
          /\ Kept(p)' = IF p = owner /\ InGame(p) THEN Kept(p) \cup onTiles ELSE Kept(p)
    BY <2>2, <2>3 DEF InGame, Held, Kept
  <2>7. PlacedOnce'
    BY <1>1, <2>1, <2>6 DEF PlacedOnce
  <2>8. UnusedDepotKept'
    BY <1>1, <2>3, <2>6 DEF UnusedDepotKept
  <2> QED BY <2>4, <2>5, <2>7, <2>8 DEF HouseInv
<1> QED
  BY <1>2, <1>3, <1>4

(* One step per action.                                                    *)
LEMMA HouseStepOK ==
  ASSUME HouseInv, [Next]_houseVars
  PROVE  HouseInv'
<1>0. /\ TypeOK /\ InvitedInside /\ SleepersAgree /\ deed \in Deeds
      /\ PlacedOnce /\ UnusedDepotKept
  BY DEF HouseInv
<1>1. ASSUME NEW p \in Players, Walk(p) PROVE HouseInv'
  <2>1. /\ InGame(p)
        /\ \/ place[p] = "outside" /\ AccessLevel(p) > 0
              /\ place' = [place EXCEPT ![p] = "inside"]
           \/ place[p] = "inside" /\ place' = [place EXCEPT ![p] = "outside"]
        /\ UNCHANGED <<owner, guests, subowners, sleeper, asleep, kicks, onTiles, inv,
                       locker, depotUsed, rows, deed, rentWarnings, lost>>
    BY <1>1 DEF Walk
  <2>2. TypeOK' /\ \A q \in Players : place'[q] = "offline" <=> place[q] = "offline"
    BY <1>0, <2>1 DEF TypeOK, InGame
  <2>3. InvitedInside' /\ SleepersAgree'
    BY <1>0, <2>1, <2>2 DEF InvitedInside, SleepersAgree, AccessLevel, InGame, TypeOK
  <2>4. PlacedOnce' /\ UnusedDepotKept'
    BY <1>0, <2>1, <2>2, GoodsStay
  <2> QED BY <1>0, <2>1, <2>2, <2>3, <2>4 DEF HouseInv
<1>2. ASSUME NEW p \in Players, Login(p) PROVE HouseInv'
  <2>1. /\ place[p] = "offline"
        /\ place' = [place EXCEPT ![p] = IF rows[p].inHouse /\ AccessLevel(p) > 0
                                         THEN "inside" ELSE "outside"]
        /\ inv' = [inv EXCEPT ![p] = rows[p].inv]
        /\ locker' = [locker EXCEPT ![p] = rows[p].depot]
        /\ sleeper' = IF p \in asleep THEN NoPlayer ELSE sleeper
        /\ asleep' = asleep \ {p}
        /\ UNCHANGED <<owner, guests, subowners, kicks, onTiles, depotUsed, rows, deed,
                       rentWarnings, lost>>
    BY <1>2 DEF Login, InGame, WakeUp
  <2>2. TypeOK'
    BY <1>0, <2>1 DEF TypeOK
  <2>3. InvitedInside'
    BY <1>0, <2>1 DEF InvitedInside, AccessLevel, TypeOK
  <2>4. SleepersAgree'
    BY <1>0, <2>1, HousesAssumption DEF SleepersAgree, InGame, TypeOK
  <2>5. \A q \in Players : Held(q)' = Held(q) /\ Kept(q)' = Kept(q)
    BY <1>0, <2>1 DEF Held, Kept, InGame, TypeOK
  <2>6. PlacedOnce'
    BY <1>0, <2>1, <2>5, FewerPlaces
  <2>7. UnusedDepotKept'
    BY <1>0, <2>1 DEF UnusedDepotKept, InGame, TypeOK
  <2> QED BY <1>0, <2>1, <2>2, <2>3, <2>4, <2>6, <2>7 DEF HouseInv
<1>3. ASSUME NEW p \in Players, Logout(p) PROVE HouseInv'
  <2>1. /\ InGame(p) /\ LeaveGame(p)
        /\ UNCHANGED <<owner, guests, subowners, sleeper, asleep, kicks, onTiles,
                       rentWarnings>>
    BY <1>3 DEF Logout
  <2>2. /\ place' \in [Players -> Places] /\ place'[p] = "offline"
        /\ \A q \in Players \ {p} : place'[q] = place[q]
        /\ inv' \in [Players -> SUBSET HouseGoods]
        /\ locker' \in [Players -> SUBSET HouseGoods]
        /\ rows' \in [Players -> [inv : SUBSET HouseGoods, depot : SUBSET HouseGoods,
                                  inHouse : BOOLEAN]]
        /\ depotUsed' \subseteq Players /\ lost' \subseteq HouseGoods
        /\ deed' \in Deeds /\ PlacedOnce' /\ UnusedDepotKept'
    BY <2>1, LeaveFacts
  <2>3. TypeOK'
    BY <1>0, <2>1, <2>2 DEF TypeOK, Places
  <2>4. InvitedInside' /\ SleepersAgree'
    BY <1>0, <2>1, <2>2, LeaverGone DEF TypeOK, Places
  <2> QED BY <2>2, <2>3, <2>4 DEF HouseInv
<1>4. ASSUME NEW p \in Players, Sleep(p) PROVE HouseInv'
  <2>1. /\ InGame(p) /\ sleeper = NoPlayer
        /\ sleeper' = p /\ asleep' = asleep \cup {p}
        /\ place' = [place EXCEPT ![p] = "inside"] /\ kicks' = kicks \cup {p}
        /\ UNCHANGED <<owner, guests, subowners, onTiles, inv, locker, depotUsed, rows,
                       deed, rentWarnings, lost>>
    BY <1>4 DEF Sleep
  <2>2. TypeOK' /\ \A q \in Players : place'[q] = "offline" <=> place[q] = "offline"
    BY <1>0, <2>1 DEF TypeOK, InGame
  <2>3. InvitedInside' /\ SleepersAgree'
    BY <1>0, <2>1, HousesAssumption
       DEF InvitedInside, SleepersAgree, AccessLevel, InGame, TypeOK
  <2>4. PlacedOnce' /\ UnusedDepotKept'
    BY <1>0, <2>1, <2>2, GoodsStay
  <2> QED BY <1>0, <2>1, <2>2, <2>3, <2>4 DEF HouseInv
<1>5. ASSUME NEW p \in Players, KickSleeper(p) PROVE HouseInv'
  <2>1. /\ p \in kicks /\ kicks' = kicks \ {p}
        /\ UNCHANGED <<owner, guests, subowners, sleeper, asleep, onTiles, rentWarnings>>
    BY <1>5 DEF KickSleeper
  <2>2. CASE InGame(p)
    <3>1. /\ place' \in [Players -> Places] /\ place'[p] = "offline"
          /\ \A q \in Players \ {p} : place'[q] = place[q]
          /\ inv' \in [Players -> SUBSET HouseGoods]
          /\ locker' \in [Players -> SUBSET HouseGoods]
          /\ rows' \in [Players -> [inv : SUBSET HouseGoods, depot : SUBSET HouseGoods,
                                    inHouse : BOOLEAN]]
          /\ depotUsed' \subseteq Players /\ lost' \subseteq HouseGoods
          /\ deed' \in Deeds /\ PlacedOnce' /\ UnusedDepotKept'
      <4>1. LeaveGame(p)
        BY <1>5, <2>2 DEF KickSleeper
      <4> QED BY <2>1, <2>2, <4>1, LeaveFacts
    <3>2. TypeOK'
      BY <1>0, <2>1, <3>1 DEF TypeOK, Places
    <3>3. InvitedInside' /\ SleepersAgree'
      BY <1>0, <2>1, <3>1, LeaverGone DEF TypeOK, Places
    <3> QED BY <3>1, <3>2, <3>3 DEF HouseInv
  <2>3. CASE ~InGame(p)
    <3>1. UNCHANGED <<place, rows, lost, inv, locker, depotUsed, deed>>
      BY <1>5, <2>3 DEF KickSleeper
    <3>2. TypeOK'
      BY <1>0, <2>1, <3>1 DEF TypeOK
    <3>3. InvitedInside' /\ SleepersAgree'
      BY <1>0, <2>1, <2>3, <3>1 DEF InvitedInside, SleepersAgree, AccessLevel, InGame
    <3>4. PlacedOnce' /\ UnusedDepotKept'
      BY <1>0, <2>1, <3>1, GoodsStay
    <3> QED BY <1>0, <3>1, <3>2, <3>3, <3>4 DEF HouseInv
  <2> QED BY <2>2, <2>3
<1>6. ASSUME NEW p \in Players, WakeSleeper(p) PROVE HouseInv'
  <2>1. /\ sleeper # NoPlayer
        /\ sleeper' = IF sleeper \in asleep THEN NoPlayer ELSE sleeper
        /\ asleep' = asleep \ {sleeper}
        /\ UNCHANGED <<owner, guests, subowners, place, kicks, onTiles, inv, locker,
                       depotUsed, rows, deed, rentWarnings, lost>>
    BY <1>6 DEF WakeSleeper, WakeUp
  <2>2. TypeOK'
    BY <1>0, <2>1 DEF TypeOK
  <2>3. InvitedInside' /\ SleepersAgree'
    BY <1>0, <2>1 DEF InvitedInside, SleepersAgree, AccessLevel, InGame
  <2>4. PlacedOnce' /\ UnusedDepotKept'
    BY <1>0, <2>1, GoodsStay
  <2> QED BY <1>0, <2>1, <2>2, <2>3, <2>4 DEF HouseInv
<1>7. ASSUME NEW p \in Players, BuyOrLeave(p) PROVE HouseInv'
  <2>1. /\ SetOwner(p) \/ SetOwner(NoPlayer)
        /\ UNCHANGED <<kicks, inv, depotUsed, rows, deed>>
    BY <1>7 DEF BuyOrLeave
  <2>2. kicks' \subseteq Players /\ deed' \in Deeds
    BY <1>0, <2>1 DEF TypeOK
  <2> QED BY <2>1, <2>2, SetOwnerOK
<1>8. ASSUME NEW gs \in SUBSET Players, NEW subs \in SUBSET Players,
             guests' = gs, subowners' = subs, KickUninvited(owner, subs, gs),
             UNCHANGED <<owner, sleeper, asleep, kicks, onTiles, inv, locker,
                         depotUsed, rows, deed, rentWarnings, lost>>
      PROVE  HouseInv'
  <2>1. place' = [q \in Players |->
                    IF place[q] = "inside" /\ Level(q, owner, subs, gs) = 0
                    THEN "outside" ELSE place[q]]
    BY <1>8 DEF KickUninvited
  <2>2. TypeOK' /\ \A q \in Players : place'[q] = "offline" <=> place[q] = "offline"
    BY <1>0, <1>8, <2>1 DEF TypeOK
  <2>3. \A q \in Players : AccessLevel(q)' = Level(q, owner, subs, gs)
    BY <1>8 DEF AccessLevel, Level
  <2>4. \A q \in Players : Level(q, owner, subs, gs) > 0 \/ Level(q, owner, subs, gs) = 0
    BY DEF Level
  <2>5. InvitedInside' /\ SleepersAgree'
    <3>1. InvitedInside'
      BY <2>1, <2>3, <2>4 DEF InvitedInside
    <3>2. SleepersAgree'
      BY <1>0, <1>8, <2>2 DEF SleepersAgree, InGame, TypeOK
    <3> QED BY <3>1, <3>2
  <2>6. PlacedOnce' /\ UnusedDepotKept'
    BY <1>0, <1>8, <2>2, GoodsStay
  <2> QED BY <1>0, <1>8, <2>2, <2>5, <2>6 DEF HouseInv
<1>9. CASE EditGuests
  <2>1. PICK S \in SUBSET Players : guests' = S /\ KickUninvited(owner, subowners, S)
    BY <1>9 DEF EditGuests
  <2>2. subowners' = subowners /\ subowners \in SUBSET Players
    BY <1>0, <1>9 DEF EditGuests, TypeOK
  <2>3. UNCHANGED <<owner, sleeper, asleep, kicks, onTiles, inv, locker,
                    depotUsed, rows, deed, rentWarnings, lost>>
    BY <1>9 DEF EditGuests
  <2> QED BY <1>8, <2>1, <2>2, <2>3
<1>9a. CASE EditSubowners
  <2>1. PICK S \in SUBSET Players : subowners' = S /\ KickUninvited(owner, S, guests)
    BY <1>9a DEF EditSubowners
  <2>2. guests' = guests /\ guests \in SUBSET Players
    BY <1>0, <1>9a DEF EditSubowners, TypeOK
  <2>3. UNCHANGED <<owner, sleeper, asleep, kicks, onTiles, inv, locker,
                    depotUsed, rows, deed, rentWarnings, lost>>
    BY <1>9a DEF EditSubowners
  <2> QED BY <1>8, <2>1, <2>2, <2>3
<1>10. ASSUME NEW p \in Players, NEW q \in Players, KickPlayer(p, q) PROVE HouseInv'
  <2>1. /\ place[q] = "inside" /\ place' = [place EXCEPT ![q] = "outside"]
        /\ UNCHANGED <<owner, guests, subowners, sleeper, asleep, kicks, onTiles, inv,
                       locker, depotUsed, rows, deed, rentWarnings, lost>>
    BY <1>10 DEF KickPlayer
  <2>2. TypeOK' /\ \A r \in Players : place'[r] = "offline" <=> place[r] = "offline"
    BY <1>0, <2>1 DEF TypeOK
  <2>3. InvitedInside' /\ SleepersAgree'
    BY <1>0, <2>1, <2>2 DEF InvitedInside, SleepersAgree, AccessLevel, InGame, TypeOK
  <2>4. PlacedOnce' /\ UnusedDepotKept'
    BY <1>0, <2>1, <2>2, GoodsStay
  <2> QED BY <1>0, <2>1, <2>2, <2>3, <2>4 DEF HouseInv
<1>11. ASSUME NEW p \in Players, NEW q \in Players, StartTrade(p, q) PROVE HouseInv'
  <2>1. /\ deed' = [from |-> p, to |-> q]
        /\ UNCHANGED <<owner, guests, subowners, place, sleeper, asleep, kicks, onTiles,
                       inv, locker, depotUsed, rows, rentWarnings, lost>>
    BY <1>11 DEF StartTrade
  <2>2. TypeOK' /\ deed' \in Deeds
    BY <1>0, <2>1 DEF TypeOK, Deeds
  <2>3. InvitedInside' /\ SleepersAgree'
    BY <1>0, <2>1, HouseholdStays
  <2>4. PlacedOnce' /\ UnusedDepotKept'
    BY <1>0, <2>1, GoodsStay
  <2> QED BY <2>2, <2>3, <2>4 DEF HouseInv
<1>12. ASSUME NEW p \in Players, NEW i \in HouseGoods,
              DropInHouse(p, i) \/ TakeFromHouse(p, i)
       PROVE  HouseInv'
  <2>1. /\ InGame(p)
        /\ \/ /\ i \in inv[p] /\ inv' = [inv EXCEPT ![p] = inv[p] \ {i}]
              /\ onTiles' = onTiles \cup {i}
           \/ /\ i \in onTiles /\ inv' = [inv EXCEPT ![p] = inv[p] \cup {i}]
              /\ onTiles' = onTiles \ {i}
        /\ UNCHANGED <<owner, guests, subowners, place, sleeper, asleep, kicks, locker,
                       depotUsed, rows, deed, rentWarnings, lost>>
    BY <1>12 DEF DropInHouse, TakeFromHouse, InGame
  <2>2. TypeOK'
    BY <1>0, <2>1 DEF TypeOK
  <2>3. InvitedInside' /\ SleepersAgree'
    BY <1>0, <2>1, HouseholdStays
  <2>4. \A q \in Players :
          /\ Kept(q)' = Kept(q)
          /\ q # p => Held(q)' = Held(q)
    BY <1>0, <2>1 DEF Held, Kept, InGame, TypeOK
  <2>5. \/ /\ i \in Held(p) /\ Held(p)' = Held(p) \ {i} /\ onTiles' = onTiles \cup {i}
        \/ /\ i \in onTiles /\ Held(p)' = Held(p) \cup {i} /\ onTiles' = onTiles \ {i}
    BY <1>0, <2>1 DEF Held, InGame, TypeOK
  <2>6. PlacedOnce'
    BY <1>0, <2>4, <2>5 DEF PlacedOnce
  <2>7. UnusedDepotKept'
    BY <1>0, <2>1 DEF UnusedDepotKept, InGame
  <2> QED BY <1>0, <2>1, <2>2, <2>3, <2>6, <2>7 DEF HouseInv
<1>13. ASSUME NEW p \in Players, NEW i \in HouseGoods, UseDepot(p, i) PROVE HouseInv'
  <2>1. /\ InGame(p) /\ depotUsed' = depotUsed \cup {p}
        /\ \/ /\ i \in inv[p] /\ inv' = [inv EXCEPT ![p] = inv[p] \ {i}]
              /\ locker' = [locker EXCEPT ![p] = locker[p] \cup {i}]
           \/ /\ i \in locker[p] /\ inv' = [inv EXCEPT ![p] = inv[p] \cup {i}]
              /\ locker' = [locker EXCEPT ![p] = locker[p] \ {i}]
        /\ UNCHANGED <<owner, guests, subowners, place, sleeper, asleep, kicks, onTiles,
                       rows, deed, rentWarnings, lost>>
    BY <1>13 DEF UseDepot, InGame
  <2>2. TypeOK'
    <3>1. inv \in [Players -> SUBSET HouseGoods] /\ locker \in [Players -> SUBSET HouseGoods]
      BY <1>0 DEF TypeOK
    <3>2. /\ inv' \in [Players -> SUBSET HouseGoods]
          /\ locker' \in [Players -> SUBSET HouseGoods]
      <4>1. CASE /\ inv' = [inv EXCEPT ![p] = inv[p] \ {i}]
                 /\ locker' = [locker EXCEPT ![p] = locker[p] \cup {i}]
        BY <3>1, <4>1
      <4>2. CASE /\ inv' = [inv EXCEPT ![p] = inv[p] \cup {i}]
                 /\ locker' = [locker EXCEPT ![p] = locker[p] \ {i}]
        BY <3>1, <4>2
      <4> QED BY <2>1, <4>1, <4>2
    <3> QED BY <1>0, <2>1, <3>2 DEF TypeOK
  <2>3. InvitedInside' /\ SleepersAgree'
    BY <1>0, <2>1, HouseholdStays
  <2>4. \A q \in Players : q # p => Held(q)' = Held(q) /\ Kept(q)' = Kept(q)
    BY <1>0, <2>1 DEF Held, Kept, InGame, TypeOK
  <2>5. \/ i \in Held(p) /\ Held(p)' = Held(p) \ {i} /\ Kept(p)' = Kept(p) \cup {i}
        \/ i \in Kept(p) /\ Held(p)' = Held(p) \cup {i} /\ Kept(p)' = Kept(p) \ {i}
    BY <1>0, <2>1 DEF Held, Kept, InGame, TypeOK
  <2>6. PlacedOnce'
    BY <1>0, <2>1, <2>4, <2>5 DEF PlacedOnce
  <2>7. UnusedDepotKept'
    BY <1>0, <2>1 DEF UnusedDepotKept, InGame, TypeOK
  <2> QED BY <1>0, <2>1, <2>2, <2>3, <2>6, <2>7 DEF HouseInv
<1>14. ASSUME NEW p \in Players, NEW q \in Players, NEW i \in HouseGoods, SendMail(p, q, i)
       PROVE  HouseInv'
  <2>1. /\ InGame(p) /\ i \in inv[p]
        /\ inv' = [inv EXCEPT ![p] = inv[p] \ {i}]
        /\ IF InGame(q) THEN locker' = [locker EXCEPT ![q] = locker[q] \cup {i}] /\ lost' = lost
                        ELSE locker' = locker /\ lost' = lost \cup {i}
        /\ UNCHANGED <<owner, guests, subowners, place, sleeper, asleep, kicks, onTiles,
                       depotUsed, rows, deed, rentWarnings>>
    BY <1>14 DEF SendMail, AddToLocker
  <2>2. TypeOK'
    BY <1>0, <2>1 DEF TypeOK
  <2>3. InvitedInside' /\ SleepersAgree'
    BY <1>0, <2>1, HouseholdStays
  <2>4. /\ i \in Held(p) /\ Held(p)' = Held(p) \ {i}
        /\ \A r \in Players : r # p => Held(r)' = Held(r)
        /\ \A r \in Players : Kept(r) \subseteq Kept(r)'
        /\ \A r \in Players : r # q => Kept(r)' = Kept(r)
        /\ Kept(q)' \subseteq Kept(q) \cup {i}
    BY <1>0, <2>1 DEF Held, Kept, InGame, TypeOK
  <2>5. PlacedOnce'
    BY <1>0, <2>1, <2>4 DEF PlacedOnce
  <2>6. UnusedDepotKept'
    BY <1>0, <2>1 DEF UnusedDepotKept, InGame, TypeOK
  <2> QED BY <1>0, <2>1, <2>2, <2>3, <2>5, <2>6 DEF HouseInv
<1>15. CASE EndTrade
  <2>1. /\ deed # NoDeed /\ deed' = NoDeed
        /\ UNCHANGED <<kicks, inv, depotUsed, rows>>
    BY <1>15 DEF EndTrade
  <2>2. deed.to \in Players /\ deed' \in Deeds /\ kicks' \subseteq Players
    BY <1>0, <2>1 DEF Deeds, TypeOK
  <2>3. CASE SetOwner(deed.to)
    BY <2>1, <2>2, <2>3, SetOwnerOK
  <2>4. CASE UNCHANGED <<owner, guests, subowners, place, sleeper, asleep, onTiles,
                         locker, rentWarnings, lost>>
    <3>1. SetOwner(owner) /\ owner \in Players \cup {NoPlayer}
      BY <1>0, <2>4 DEF SetOwner, TypeOK
    <3> QED BY <2>1, <2>2, <3>1, SetOwnerOK
  <2> QED BY <1>15, <2>3, <2>4 DEF EndTrade
<1>16. CASE Restart
  <2>1. /\ \A p \in Players : ~InGame(p)
        /\ kicks' = {} /\ deed' \in Deeds
        /\ UNCHANGED <<inv, depotUsed, rows>>
    BY <1>0, <1>16 DEF Restart
  <2>2. CASE SetOwner(NoPlayer)
    BY <2>1, <2>2, SetOwnerOK
  <2>3. CASE /\ rentWarnings < MaxWarnings /\ rentWarnings' = rentWarnings + 1
             /\ UNCHANGED <<owner, guests, subowners, place, sleeper, asleep, onTiles,
                            locker, lost>>
    <3>1. TypeOK'
      BY <1>0, <2>1, <2>3, HousesAssumption DEF TypeOK
    <3>2. InvitedInside' /\ SleepersAgree'
      BY <1>0, <2>1, <2>3 DEF InvitedInside, SleepersAgree, InGame, TypeOK
    <3>3. PlacedOnce' /\ UnusedDepotKept'
      BY <1>0, <2>1, <2>3, GoodsStay
    <3> QED BY <2>1, <3>1, <3>2, <3>3 DEF HouseInv
  <2> QED BY <1>16, <2>2, <2>3 DEF Restart
<1>17. CASE UNCHANGED houseVars
  <2>1. TypeOK' /\ deed' \in Deeds
    BY <1>0, <1>17 DEF houseVars, TypeOK
  <2>2. InvitedInside' /\ SleepersAgree'
    BY <1>0, <1>17, HouseholdStays DEF houseVars
  <2>3. PlacedOnce' /\ UnusedDepotKept'
    BY <1>0, <1>17, GoodsStay DEF houseVars
  <2> QED BY <2>1, <2>2, <2>3 DEF HouseInv
<1> QED
  BY <1>1, <1>2, <1>3, <1>4, <1>5, <1>6, <1>7, <1>9, <1>9a, <1>10, <1>11, <1>12, <1>13,
     <1>14, <1>15, <1>16, <1>17 DEF Next

LEMMA HouseInitOK == Init => HouseInv
<1> SUFFICES ASSUME Init PROVE HouseInv
  OBVIOUS
<1>1. TypeOK /\ deed \in Deeds
  BY HousesAssumption DEF Init, TypeOK, Deeds
<1>2. InvitedInside /\ SleepersAgree
  BY DEF Init, InvitedInside, SleepersAgree
<1>3. \A p \in Players : Held(p) = {} /\ Kept(p) = {}
  BY DEF Init, Held, Kept, InGame
<1>4. PlacedOnce /\ UnusedDepotKept
  BY <1>3 DEF PlacedOnce, UnusedDepotKept, Init, InGame
<1> QED
  BY <1>1, <1>2, <1>4 DEF HouseInv

(* The count of the places of an item is the number of them.               *)
LEMMA PlacedOnceCounts == PlacedOnce => NoDuplicates
<1> SUFFICES ASSUME PlacedOnce, NEW i \in HouseGoods
             PROVE  Cardinality({p \in Players : i \in Held(p)})
                      + Cardinality({p \in Players : i \in Kept(p)})
                      + (IF i \in onTiles THEN 1 ELSE 0) <= 1
  BY DEF NoDuplicates
<1> DEFINE H == {p \in Players : i \in Held(p)}
           K == {p \in Players : i \in Kept(p)}
<1>1. \A S : (\A p, q \in S : p = q)
               => S = {} \/ \E p \in S : S = {p}
  OBVIOUS
<1>2. (\A p, q \in H : p = q) /\ (\A p, q \in K : p = q)
  BY DEF PlacedOnce
<1>3. /\ H = {} \/ \E p \in H : H = {p}
      /\ K = {} \/ \E p \in K : K = {p}
  BY <1>1, <1>2
<1>4. /\ H = {} \/ K = {}
      /\ i \in onTiles => H = {} /\ K = {}
  BY DEF PlacedOnce
<1> HIDE DEF H, K
<1>5. /\ Cardinality({}) = 0
      /\ \A p : Cardinality({p}) = 1
  BY FS_EmptySet, FS_Singleton
<1>6. Cardinality(H) + Cardinality(K) + (IF i \in onTiles THEN 1 ELSE 0) <= 1
  <2>1. /\ Cardinality(H) = 0 \/ Cardinality(H) = 1
        /\ Cardinality(K) = 0 \/ Cardinality(K) = 1
    BY <1>3, <1>5
  <2>2. Cardinality(H) = 0 \/ Cardinality(K) = 0
    BY <1>4, <1>5
  <2>3. i \in onTiles => Cardinality(H) = 0 /\ Cardinality(K) = 0
    BY <1>4, <1>5
  <2> QED BY <2>1, <2>2, <2>3
<1> QED
  BY <1>6 DEF H, K

(* Whoever stands in the house is invited or about to be kicked, and the   *)
(* bed, bedSleepersMap and the players in the game agree about who sleeps  *)
(* (House::setAccessList, setOwner, kickPlayer; BedItem::sleep, wakeUp).   *)
THEOREM HouseholdKept == Spec => []HouseholdAgrees
<1>1. HouseInv => HouseholdAgrees
  BY DEF HouseInv, HouseholdAgrees
<1> QED
  BY <1>1, HouseInitOK, HouseStepOK, PTL DEF Spec

(* No item of the house is at two places, although the depot is written    *)
(* only when it was used and is read back at every login                   *)
(* (House::transferToDepot, IOLoginData::savePlayer).                      *)
THEOREM GoodsNeverDoubled == Spec => []NoDuplicates
<1>1. HouseInv => NoDuplicates
  BY PlacedOnceCounts DEF HouseInv
<1> QED
  BY <1>1, HouseInitOK, HouseStepOK, PTL DEF Spec

-----------------------------------------------------------------------------
(* The saves.  The argument follows one save through its statements: until *)
(* COMMIT, the shared connection differs from what is stored in the rows   *)
(* of that save only, and there, table by table, it holds what the last    *)
(* statement on the table left.  At COMMIT no table is behind, and what is *)
(* stored is what the save meant to leave.                                 *)

Row == UNION {[Base!Tables(k) -> SUBSET Base!Versions] : k \in Base!Keys}

Jobs == [pc : {"check", "begin", "lock", "write", "commit"}, key : Base!Keys,
         kind : {"logout", "save"}, tries : 1 .. Base!MaxTries, step : Nat \ {0},
         over : BOOLEAN]

(* f holds, for every key, sets of versions for the tables of the key.     *)
Tabled(f) ==
  /\ f \in [Base!Keys -> Row]
  /\ \A k \in Base!Keys : f[k] \in [Base!Tables(k) -> SUBSET Base!Versions]

(* TypeOK, with the domains of the tables and the shape of a job.          *)
WellFormed ==
  /\ Tabled(mem) /\ Tabled(store) /\ Tabled(staged) /\ Tabled(saved)
  /\ online \subseteq Savers /\ opened \subseteq Savers
  /\ clock \in Base!Versions /\ faults \in 0 .. MaxFaults
  /\ inTxn \in BOOLEAN /\ lock \in {"free", "game"}
  /\ passed \subseteq Base!Keys /\ unsaved \subseteq Savers
  /\ job \in Jobs \cup {Base!NoJob}
  /\ todo \subseteq Base!Keys

Writing == job.pc \in {"write", "commit"}

(* A save is under way for players in the game only, and a logout is not   *)
(* part of saveGameState.                                                  *)
JobsOfPlayers ==
  /\ todo \cap Savers \subseteq online
  /\ job.pc # "none" /\ job.key \in Savers => job.key \in online
  /\ job.pc # "none" /\ job.kind = "logout" => job.key \in Savers /\ todo = {}

(* The lock and the transaction, place by place.                           *)
LockMatchesPc ==
  /\ lock = "game" <=> Writing
  /\ job.pc \in {"lock", "write", "commit"} /\ ~inTxn => job.over
  /\ job.pc # "none" /\ job.over => Writing /\ job.key \in passed
  /\ job.pc # "none" /\ ~Writing => job.step = 1
  /\ Writing => job.step \in 1 .. Len(Base!Statements(job.key))
  /\ ~inTxn => staged = store

(* What is not committed is the work of the save in progress.              *)
OnlyJobStaged ==
  \A k \in Base!Keys : staged[k] = store[k] \/ (Writing /\ k = job.key)

(* The statements of the save that were executed.                          *)
Sent == IF job.pc = "commit" THEN Len(Base!Statements(job.key)) ELSE job.step - 1

Untouched(t) ==
  \A i \in 1 .. Sent : Base!Statements(job.key)[i].table # t

(* The i-th statement is the last one that was executed on table t.        *)
Latest(i, t) ==
  /\ i \in 1 .. Sent
  /\ Base!Statements(job.key)[i].table = t
  /\ \A j \in i + 1 .. Sent : Base!Statements(job.key)[j].table # t

(* Table by table, the connection is where the save is.                    *)
ProgressTracked ==
  Writing /\ ~job.over => \A t \in Base!Tables(job.key) :
    /\ Untouched(t) => staged[job.key][t] = store[job.key][t]
    /\ \A i \in Nat : Latest(i, t) =>
         staged[job.key][t] =
           IF Base!Statements(job.key)[i].op = "delete" THEN {} ELSE mem[job.key][t]

TransactionInv ==
  /\ WellFormed
  /\ JobsOfPlayers
  /\ LockMatchesPc
  /\ OnlyJobStaged
  /\ ProgressTracked
  /\ Base!SaveIsAtomic
  /\ Base!LogoutDurable

-----------------------------------------------------------------------------
(* The statements of a save.                                               *)

TableNames == Base!PlayerTables \cup {"houses", "lists", "tiles"}
Ops == [op : {"update", "delete", "insert"}, table : TableNames]

LEMMA OpsAre ==
  ASSUME NEW t \in TableNames
  PROVE  /\ Base!Update(t) \in Ops /\ Base!Update(t).op = "update" /\ Base!Update(t).table = t
         /\ Base!Delete(t) \in Ops /\ Base!Delete(t).op = "delete" /\ Base!Delete(t).table = t
         /\ Base!Insert(t) \in Ops /\ Base!Insert(t).op = "insert" /\ Base!Insert(t).table = t
BY DEF Ops, Base!Update, Base!Delete, Base!Insert

(* Replace adds its two statements and leaves the others in their places.  *)
LEMMA AddReplace ==
  ASSUME NEW s \in Seq(Ops), NEW t \in TableNames
  PROVE  /\ s \o Base!Replace(t) \in Seq(Ops)
         /\ Len(s \o Base!Replace(t)) = Len(s) + 2
         /\ \A i \in 1 .. Len(s) : (s \o Base!Replace(t))[i] = s[i]
         /\ (s \o Base!Replace(t))[Len(s) + 1] = Base!Delete(t)
         /\ (s \o Base!Replace(t))[Len(s) + 2] = Base!Insert(t)
<1>1. Base!Delete(t) \in Ops /\ Base!Insert(t) \in Ops
  BY OpsAre
<1> QED
  BY <1>1 DEF Base!Replace

(* savePlayer, statement by statement; the depot only if it was opened.    *)
LEMMA SavePlayerListed ==
  ASSUME NEW p
  PROVE  LET s == Base!SavePlayer(p) IN
         /\ s \in Seq(Ops)
         /\ s[1] = Base!Update("players")
         /\ s[2] = Base!Delete("spells") /\ s[3] = Base!Insert("spells")
         /\ s[4] = Base!Delete("items") /\ s[5] = Base!Insert("items")
         /\ p \in opened =>
              /\ Len(s) = 9
              /\ s[6] = Base!Delete("depot") /\ s[7] = Base!Insert("depot")
              /\ s[8] = Base!Delete("storage") /\ s[9] = Base!Insert("storage")
         /\ p \notin opened =>
              /\ Len(s) = 7
              /\ s[6] = Base!Delete("storage") /\ s[7] = Base!Insert("storage")
<1> DEFINE a == <<Base!Update("players")>>
           b == a \o Base!Replace("spells")
           c == b \o Base!Replace("items")
           d == IF p \in opened THEN c \o Base!Replace("depot") ELSE c
           e == d \o Base!Replace("storage")
<1>1. a \in Seq(Ops) /\ Len(a) = 1 /\ a[1] = Base!Update("players")
  BY OpsAre DEF TableNames, Base!PlayerTables
<1>2. /\ b \in Seq(Ops) /\ Len(b) = 3 /\ b[1] = a[1]
      /\ b[2] = Base!Delete("spells") /\ b[3] = Base!Insert("spells")
  <2> HIDE DEF a
  <2>1. "spells" \in TableNames
    BY DEF TableNames, Base!PlayerTables
  <2>2. /\ b \in Seq(Ops)
        /\ Len(b) = Len(a) + 2
        /\ \A i \in 1 .. Len(a) : b[i] = a[i]
        /\ b[Len(a) + 1] = Base!Delete("spells")
        /\ b[Len(a) + 2] = Base!Insert("spells")
    BY <1>1, <2>1, AddReplace
  <2> HIDE DEF b
  <2> QED BY <1>1, <2>2
<1>3. /\ c \in Seq(Ops) /\ Len(c) = 5
      /\ c[1] = b[1] /\ c[2] = b[2] /\ c[3] = b[3]
      /\ c[4] = Base!Delete("items") /\ c[5] = Base!Insert("items")
  <2> HIDE DEF b
  <2>1. "items" \in TableNames
    BY DEF TableNames, Base!PlayerTables
  <2>2. /\ c \in Seq(Ops)
        /\ Len(c) = Len(b) + 2
        /\ \A i \in 1 .. Len(b) : c[i] = b[i]
        /\ c[Len(b) + 1] = Base!Delete("items")
        /\ c[Len(b) + 2] = Base!Insert("items")
    BY <1>2, <2>1, AddReplace
  <2> HIDE DEF c
  <2> QED BY <1>2, <2>2
<1>4. /\ d \in Seq(Ops)
      /\ d[1] = c[1] /\ d[2] = c[2] /\ d[3] = c[3] /\ d[4] = c[4] /\ d[5] = c[5]
      /\ p \in opened =>
           Len(d) = 7 /\ d[6] = Base!Delete("depot") /\ d[7] = Base!Insert("depot")
      /\ p \notin opened => Len(d) = 5
  <2> DEFINE f == c \o Base!Replace("depot")
  <2>1. "depot" \in TableNames
    BY DEF TableNames, Base!PlayerTables
  <2> HIDE DEF c
  <2>2. /\ f \in Seq(Ops)
        /\ Len(f) = Len(c) + 2
        /\ \A i \in 1 .. Len(c) : f[i] = c[i]
        /\ f[Len(c) + 1] = Base!Delete("depot")
        /\ f[Len(c) + 2] = Base!Insert("depot")
    BY <1>3, <2>1, AddReplace
  <2>3. d = IF p \in opened THEN f ELSE c
    OBVIOUS
  <2> HIDE DEF f, d
  <2>4. CASE p \in opened
    <3>1. d = f /\ Len(d) = 7 /\ \A i \in 1 .. 5 : d[i] = c[i]
      BY <1>3, <2>2, <2>3, <2>4
    <3>2. d[6] = Base!Delete("depot") /\ d[7] = Base!Insert("depot")
      BY <1>3, <2>2, <3>1
    <3>3. d[1] = c[1] /\ d[2] = c[2] /\ d[3] = c[3] /\ d[4] = c[4] /\ d[5] = c[5]
      BY <3>1
    <3> QED BY <2>2, <2>4, <3>1, <3>2, <3>3
  <2> QED BY <1>3, <2>3, <2>4
<1>5. /\ e \in Seq(Ops)
      /\ e[1] = d[1] /\ e[2] = d[2] /\ e[3] = d[3] /\ e[4] = d[4] /\ e[5] = d[5]
      /\ p \in opened => /\ Len(e) = 9 /\ e[6] = d[6] /\ e[7] = d[7]
                          /\ e[8] = Base!Delete("storage") /\ e[9] = Base!Insert("storage")
      /\ p \notin opened => /\ Len(e) = 7
                             /\ e[6] = Base!Delete("storage") /\ e[7] = Base!Insert("storage")
  <2> HIDE DEF d
  <2>1. "storage" \in TableNames
    BY DEF TableNames, Base!PlayerTables
  <2>2. /\ e \in Seq(Ops)
        /\ Len(e) = Len(d) + 2
        /\ \A i \in 1 .. Len(d) : e[i] = d[i]
        /\ e[Len(d) + 1] = Base!Delete("storage")
        /\ e[Len(d) + 2] = Base!Insert("storage")
    BY <1>4, <2>1, AddReplace
  <2> HIDE DEF e
  <2>3. \A i \in 1 .. 5 : e[i] = d[i]
    <3>1. Len(d) \in {5, 7}
      BY <1>4
    <3> QED BY <2>2, <3>1
  <2>4. p \in opened => /\ Len(e) = 9 /\ e[6] = d[6] /\ e[7] = d[7]
                        /\ e[8] = Base!Delete("storage") /\ e[9] = Base!Insert("storage")
    <3> SUFFICES ASSUME p \in opened
                 PROVE  /\ Len(e) = 9 /\ e[6] = d[6] /\ e[7] = d[7]
                        /\ e[8] = Base!Delete("storage") /\ e[9] = Base!Insert("storage")
      OBVIOUS
    <3>1. Len(d) = 7
      BY <1>4
    <3>2. e[8] = Base!Delete("storage") /\ e[9] = Base!Insert("storage") /\ Len(e) = 9
      BY <2>2, <3>1
    <3>3. \A i \in 1 .. 7 : e[i] = d[i]
      BY <2>2, <3>1
    <3> QED BY <3>2, <3>3
  <2>5. p \notin opened => /\ Len(e) = 7
                           /\ e[6] = Base!Delete("storage") /\ e[7] = Base!Insert("storage")
    <3> SUFFICES ASSUME p \notin opened
                 PROVE  /\ Len(e) = 7
                        /\ e[6] = Base!Delete("storage") /\ e[7] = Base!Insert("storage")
      OBVIOUS
    <3>1. Len(d) = 5
      BY <1>4
    <3> QED BY <2>2, <3>1
  <2>6. e[1] = d[1] /\ e[2] = d[2] /\ e[3] = d[3] /\ e[4] = d[4] /\ e[5] = d[5]
    BY <2>3
  <2> QED BY <2>2, <2>4, <2>5, <2>6
<1>6. Base!SavePlayer(p) = e
  <2>1. c \in Seq(Ops) /\ c \o <<>> = c
    BY <1>3, ConcatEmptySeq
  <2>2. Base!SavePlayer(p) = (c \o (IF p \in opened THEN Base!Replace("depot") ELSE <<>>))
                          \o Base!Replace("storage")
    BY DEF Base!SavePlayer
  <2> HIDE DEF c
  <2> QED BY <2>1, <2>2
<1> HIDE DEF a, b, c, d, e
<1> QED
  BY <1>1, <1>2, <1>3, <1>4, <1>5, <1>6

(* What all saves have in common, and what their atomicity rests on: an    *)
(* INSERT follows the DELETE of its table, nothing else writes the table   *)
(* in between, and every DELETE has its INSERT.  Each table of the key has *)
(* a last statement, but for the depot that was not opened.                *)
Follows(s, i, j) ==
  /\ i \in 1 .. Len(s) /\ j \in 1 .. Len(s) /\ i < j
  /\ s[i].op = "delete" /\ s[j].op = "insert" /\ s[i].table = s[j].table
  /\ \A m \in i + 1 .. j - 1 : s[m].table # s[j].table

LastOn(s, i, t) ==
  /\ i \in 1 .. Len(s) /\ s[i].table = t
  /\ \A j \in i + 1 .. Len(s) : s[j].table # t

LEMMA StatementFacts ==
  ASSUME NEW k \in Base!Keys
  PROVE  LET s == Base!Statements(k) IN
         /\ s \in Seq(Ops) /\ Len(s) \in Nat \ {0}
         /\ \A i \in 1 .. Len(s) :
              /\ s[i].table \in Base!Tables(k)
              /\ s[i].op \in {"update", "delete", "insert"}
              /\ s[i].op = "insert" => \E j \in 1 .. Len(s) : Follows(s, j, i)
              /\ s[i].op = "delete" => \E j \in 1 .. Len(s) : Follows(s, i, j)
              /\ s[i].table = "depot" => k \in opened
         /\ \A t \in Base!Tables(k) :
              \/ \E i \in 1 .. Len(s) : LastOn(s, i, t)
              \/ t = "depot" /\ k \in Savers \ opened
<1> DEFINE s == Base!Statements(k)
<1>1. CASE k \in Savers /\ k \in opened
  <2>1. s = Base!SavePlayer(k) /\ Base!Tables(k) = Base!PlayerTables
    BY <1>1 DEF Base!Statements, Base!Tables
  <2> HIDE DEF s
  <2>2. /\ s \in Seq(Ops) /\ Len(s) = 9
        /\ s[1] = Base!Update("players")
        /\ s[2] = Base!Delete("spells") /\ s[3] = Base!Insert("spells")
        /\ s[4] = Base!Delete("items") /\ s[5] = Base!Insert("items")
        /\ s[6] = Base!Delete("depot") /\ s[7] = Base!Insert("depot")
        /\ s[8] = Base!Delete("storage") /\ s[9] = Base!Insert("storage")
    BY <1>1, <2>1, SavePlayerListed
  <2>3. \A i \in 1 .. Len(s) : i \in {1, 2, 3, 4, 5, 6, 7, 8, 9}
    BY <2>2
  <2>4. Follows(s, 2, 3) /\ Follows(s, 4, 5) /\ Follows(s, 6, 7) /\ Follows(s, 8, 9)
    BY <2>2, OpsAre DEF Follows, TableNames, Base!PlayerTables
  <2>5. \A i \in 1 .. Len(s) :
         /\ s[i].table \in Base!Tables(k)
         /\ s[i].op \in {"update", "delete", "insert"}
         /\ s[i].table = "depot" => k \in opened
    BY <1>1, <2>1, <2>2, <2>3, OpsAre DEF TableNames, Base!PlayerTables
  <2>6. \A i \in 1 .. Len(s) :
         /\ s[i].op = "insert" => i \in {3, 5, 7, 9}
         /\ s[i].op = "delete" => i \in {2, 4, 6, 8}
    BY <2>2, <2>3, OpsAre DEF TableNames, Base!PlayerTables
  <2>7. /\ LastOn(s, 1, "players") /\ LastOn(s, 3, "spells") /\ LastOn(s, 5, "items")
        /\ LastOn(s, 7, "depot") /\ LastOn(s, 9, "storage")
    BY <2>2, <2>3, OpsAre DEF LastOn, TableNames, Base!PlayerTables
  <2>8. \A t \in Base!Tables(k) : \E i \in 1 .. Len(s) : LastOn(s, i, t)
    BY <2>1, <2>2, <2>7 DEF Base!PlayerTables
  <2> QED
    BY <2>2, <2>4, <2>5, <2>6, <2>8 DEF s
<1>2. CASE k \in Savers /\ k \notin opened
  <2>1. s = Base!SavePlayer(k) /\ Base!Tables(k) = Base!PlayerTables
    BY <1>2 DEF Base!Statements, Base!Tables
  <2> HIDE DEF s
  <2>2. /\ s \in Seq(Ops) /\ Len(s) = 7
        /\ s[1] = Base!Update("players")
        /\ s[2] = Base!Delete("spells") /\ s[3] = Base!Insert("spells")
        /\ s[4] = Base!Delete("items") /\ s[5] = Base!Insert("items")
        /\ s[6] = Base!Delete("storage") /\ s[7] = Base!Insert("storage")
    BY <1>2, <2>1, SavePlayerListed
  <2>3. \A i \in 1 .. Len(s) : i \in {1, 2, 3, 4, 5, 6, 7}
    BY <2>2
  <2>4. Follows(s, 2, 3) /\ Follows(s, 4, 5) /\ Follows(s, 6, 7)
    BY <2>2, OpsAre DEF Follows, TableNames, Base!PlayerTables
  <2>5. \A i \in 1 .. Len(s) :
         /\ s[i].table \in Base!Tables(k)
         /\ s[i].op \in {"update", "delete", "insert"}
         /\ s[i].table # "depot"
    BY <1>2, <2>1, <2>2, <2>3, OpsAre DEF TableNames, Base!PlayerTables
  <2>6. \A i \in 1 .. Len(s) :
         /\ s[i].op = "insert" => i \in {3, 5, 7}
         /\ s[i].op = "delete" => i \in {2, 4, 6}
    BY <2>2, <2>3, OpsAre DEF TableNames, Base!PlayerTables
  <2>7. /\ LastOn(s, 1, "players") /\ LastOn(s, 3, "spells") /\ LastOn(s, 5, "items")
        /\ LastOn(s, 7, "storage")
    BY <2>2, <2>3, OpsAre DEF LastOn, TableNames, Base!PlayerTables
  <2>8. \A t \in Base!Tables(k) : t = "depot" \/ \E i \in 1 .. Len(s) : LastOn(s, i, t)
    BY <2>1, <2>2, <2>7 DEF Base!PlayerTables
  <2> QED
    BY <1>2, <2>2, <2>4, <2>5, <2>6, <2>8 DEF s
<1>3. CASE k \notin Savers /\ k = Base!HouseInfo
  <2>1. s = <<Base!Delete("lists"), Base!Update("houses"), Base!Insert("lists")>>
        /\ Base!Tables(k) = {"houses", "lists"}
    BY <1>3 DEF Base!Statements, Base!SaveHouseInfo, Base!Tables
  <2>2. s \in Seq(Ops) /\ Len(s) = 3
        /\ s[1] = Base!Delete("lists") /\ s[2] = Base!Update("houses")
        /\ s[3] = Base!Insert("lists")
    BY <2>1, OpsAre DEF TableNames
  <2> HIDE DEF s
  <2>3. \A i \in 1 .. Len(s) : i \in {1, 2, 3}
    BY <2>2
  <2>4. Follows(s, 1, 3)
    BY <2>2, OpsAre DEF Follows, TableNames, Base!PlayerTables
  <2>5. \A i \in 1 .. Len(s) :
         /\ s[i].table \in Base!Tables(k)
         /\ s[i].op \in {"update", "delete", "insert"}
         /\ s[i].table # "depot"
         /\ s[i].op = "insert" => i = 3
         /\ s[i].op = "delete" => i = 1
    BY <2>1, <2>2, <2>3, OpsAre DEF TableNames, Base!PlayerTables
  <2>6. LastOn(s, 2, "houses") /\ LastOn(s, 3, "lists")
    BY <2>2, <2>3, OpsAre DEF LastOn, TableNames, Base!PlayerTables
  <2>7. \A t \in Base!Tables(k) : \E i \in 1 .. Len(s) : LastOn(s, i, t)
    BY <2>1, <2>2, <2>6
  <2> QED
    BY <2>2, <2>4, <2>5, <2>7 DEF s
<1>4. CASE k \notin Savers /\ k # Base!HouseInfo
  <2>1. s = Base!Replace("tiles") /\ Base!Tables(k) = {"tiles"}
    BY <1>4 DEF Base!Statements, Base!SaveHouseItems, Base!Tables
  <2>2. s \in Seq(Ops) /\ Len(s) = 2 /\ s[1] = Base!Delete("tiles") /\ s[2] = Base!Insert("tiles")
    BY <2>1, OpsAre DEF TableNames, Base!Replace
  <2> HIDE DEF s
  <2>3. \A i \in 1 .. Len(s) : i \in {1, 2}
    BY <2>2
  <2>4. Follows(s, 1, 2)
    BY <2>2, OpsAre DEF Follows, TableNames, Base!PlayerTables
  <2>5. \A i \in 1 .. Len(s) :
         /\ s[i].table \in Base!Tables(k)
         /\ s[i].op \in {"update", "delete", "insert"}
         /\ s[i].table # "depot"
         /\ s[i].op = "insert" => i = 2
         /\ s[i].op = "delete" => i = 1
    BY <2>1, <2>2, <2>3, OpsAre DEF TableNames, Base!PlayerTables
  <2>6. LastOn(s, 2, "tiles")
    BY <2>2, <2>3, OpsAre DEF LastOn, TableNames, Base!PlayerTables
  <2>7. \A t \in Base!Tables(k) : \E i \in 1 .. Len(s) : LastOn(s, i, t)
    BY <2>1, <2>2, <2>6
  <2> QED
    BY <2>2, <2>4, <2>5, <2>7 DEF s
<1> QED
  BY <1>1, <1>2, <1>3, <1>4

-----------------------------------------------------------------------------
(* One statement, and the end of a save.                                   *)

(* A statement changes one table of one key.                               *)
LEMMA WrittenFacts ==
  ASSUME WellFormed, NEW table, Tabled(table), NEW k \in Base!Keys,
         NEW s \in Ops, s.table \in Base!Tables(k)
  PROVE  LET w == Base!Written(s, k, table) IN
         /\ Tabled(w)
         /\ \A l \in Base!Keys \ {k} : w[l] = table[l]
         /\ \A t \in Base!Tables(k) \ {s.table} : w[k][t] = table[k][t]
         /\ s.op = "update" => w[k][s.table] = mem[k][s.table]
         /\ s.op = "delete" => w[k][s.table] = {}
         /\ s.op = "insert" => w[k][s.table] = table[k][s.table] \cup mem[k][s.table]
<1> DEFINE t == s.table
           v == CASE s.op = "update" -> mem[k][t]
                  [] s.op = "delete" -> {}
                  [] s.op = "insert" -> table[k][t] \cup mem[k][t]
           r == [table[k] EXCEPT ![t] = v]
           w == Base!Written(s, k, table)
<1>1. w = [table EXCEPT ![k] = r]
  BY DEF Base!Written
<1>2. s.op \in {"update", "delete", "insert"}
  BY DEF Ops
<1>3. /\ table[k] \in [Base!Tables(k) -> SUBSET Base!Versions]
      /\ mem[k] \in [Base!Tables(k) -> SUBSET Base!Versions]
  BY DEF Tabled, WellFormed
<1>4. /\ v \in SUBSET Base!Versions
      /\ s.op = "update" => v = mem[k][t]
      /\ s.op = "delete" => v = {}
      /\ s.op = "insert" => v = table[k][t] \cup mem[k][t]
  BY <1>2, <1>3
<1> HIDE DEF v
<1>5. /\ r \in [Base!Tables(k) -> SUBSET Base!Versions]
      /\ r[t] = v
      /\ \A u \in Base!Tables(k) \ {t} : r[u] = table[k][u]
  BY <1>3, <1>4
<1> HIDE DEF r, w
<1>6. r \in Row
  BY <1>5 DEF Row
<1>7. /\ w \in [Base!Keys -> Row]
      /\ w[k] = r
      /\ \A l \in Base!Keys \ {k} : w[l] = table[l]
  BY <1>1, <1>6 DEF Tabled
<1>8. Tabled(w)
  BY <1>5, <1>7 DEF Tabled
<1> QED
  BY <1>4, <1>5, <1>7, <1>8 DEF w

(* Ended begins the next try or ends the save; a player who has left the   *)
(* game by it is reported unless the save returned ok.                     *)
LEMMA EndedFacts ==
  ASSUME WellFormed, JobsOfPlayers, job # Base!NoJob, NEW ok \in BOOLEAN, Base!Ended(ok)
  PROVE  /\ job' \in Jobs \cup {Base!NoJob}
         /\ job'.pc \in {"none", "check"}
         /\ job'.pc # "none" => job'.step = 1 /\ ~job'.over
         /\ todo' \subseteq Base!Keys /\ online' \subseteq Savers
         /\ unsaved' \subseteq Savers
         /\ JobsOfPlayers'
         /\ online' \subseteq online
         /\ \A p \in Savers \ (online' \cup unsaved') :
              /\ p \notin unsaved
              /\ p \in online => ok /\ p = job.key
<1>1. /\ job \in Jobs /\ job.pc # "none" /\ job.key \in Base!Keys
      /\ job.kind \in {"logout", "save"} /\ job.tries \in 1 .. Base!MaxTries
      /\ Base!MaxTries = 3
  BY DEF WellFormed, Jobs, Base!NoJob, Base!MaxTries
<1>2. CASE ~ok /\ job.tries > 1
  <2>1. /\ job' = [pc |-> "check", key |-> job.key, kind |-> job.kind,
                   tries |-> job.tries - 1, step |-> 1, over |-> FALSE]
        /\ UNCHANGED <<online, todo, unsaved>>
    BY <1>2 DEF Base!Ended, Base!StartJob
  <2>2. job' \in Jobs
    BY <1>1, <1>2, <2>1 DEF Jobs
  <2>3. /\ job'.pc = "check" /\ job'.key = job.key /\ job'.kind = job.kind
        /\ job'.step = 1 /\ job'.over = FALSE
    BY <2>1
  <2> QED
    BY <1>1, <1>2, <2>1, <2>2, <2>3 DEF WellFormed, JobsOfPlayers
<1>3. CASE ~(~ok /\ job.tries > 1)
  <2>1. /\ job' = Base!NoJob
        /\ todo' \subseteq todo
        /\ IF job.kind = "logout"
           THEN /\ online' = online \ {job.key}
                /\ unsaved' = IF ok THEN unsaved ELSE unsaved \cup {job.key}
           ELSE UNCHANGED <<online, unsaved>>
    BY <1>3 DEF Base!Ended
  <2>2. job'.pc = "none"
    BY <2>1 DEF Base!NoJob
  <2>3. CASE job.kind = "logout"
    <3>1. job.key \in Savers /\ todo = {}
      BY <1>1, <2>3 DEF JobsOfPlayers
    <3> QED
      BY <2>1, <2>2, <2>3, <3>1 DEF WellFormed, JobsOfPlayers
  <2>4. CASE job.kind # "logout"
    BY <2>1, <2>2, <2>4 DEF WellFormed, JobsOfPlayers
  <2> QED
    BY <2>3, <2>4
<1> QED
  BY <1>2, <1>3

(* A whole save leaves what it was to leave.                               *)
LEMMA CommitIsWhole ==
  ASSUME TransactionInv, job.pc = "commit", ~job.over
  PROVE  staged[job.key] = Base!Intended(job.key)
<1> DEFINE k == job.key
           s == Base!Statements(k)
           n == Len(s)
<1>1. job \in Jobs /\ k \in Base!Keys
  BY DEF TransactionInv, WellFormed, Jobs, Base!NoJob
<1>2. /\ s \in Seq(Ops) /\ n \in Nat \ {0}
      /\ \A i \in 1 .. n :
           /\ s[i].op \in {"update", "delete", "insert"}
           /\ s[i].op = "delete" => \E j \in 1 .. n : Follows(s, i, j)
           /\ s[i].table = "depot" => k \in opened
      /\ \A t \in Base!Tables(k) :
           \/ \E i \in 1 .. n : LastOn(s, i, t)
           \/ t = "depot" /\ k \in Savers \ opened
  BY <1>1, StatementFacts
<1>3. Sent = n
  BY DEF Sent
<1> HIDE DEF s, n
<1>4. /\ staged[k] \in [Base!Tables(k) -> SUBSET Base!Versions]
      /\ store[k] \in [Base!Tables(k) -> SUBSET Base!Versions]
      /\ mem[k] \in [Base!Tables(k) -> SUBSET Base!Versions]
  BY <1>1 DEF TransactionInv, WellFormed, Tabled
<1>5. \A t \in Base!Tables(k) :
        staged[k][t] = IF t = "depot" /\ k \notin opened THEN store[k][t] ELSE mem[k][t]
  <2> TAKE t \in Base!Tables(k)
  <2>1. CASE t = "depot" /\ k \notin opened
    <3>1. Untouched(t)
      BY <1>2, <1>3, <2>1 DEF Untouched, s
    <3>2. staged[k][t] = store[k][t]
      BY <3>1 DEF TransactionInv, ProgressTracked, Writing
    <3> QED
      BY <2>1, <3>2
  <2>2. CASE ~(t = "depot" /\ k \notin opened)
    <3>1. PICK i \in 1 .. n : LastOn(s, i, t)
      BY <1>2, <2>2
    <3>2. Latest(i, t) /\ i \in Nat
      BY <1>2, <1>3, <3>1 DEF Latest, LastOn, s, n
    <3>3. s[i].op # "delete"
      BY <1>2, <3>1 DEF LastOn, Follows, n
    <3>4. staged[k][t] = mem[k][t]
      BY <3>2, <3>3 DEF TransactionInv, ProgressTracked, Writing, s
    <3> QED
      BY <2>2, <3>4
  <2> QED
    BY <2>1, <2>2
<1> QED
  BY <1>4, <1>5 DEF Base!Intended

-----------------------------------------------------------------------------
(* The steps of a save.                                                    *)

(* A place outside the transaction: nothing of the save is staged, and the *)
(* invariant is about what is stored.                                      *)
LEMMA QuietPlace ==
  ASSUME WellFormed', JobsOfPlayers',
         job'.pc \in {"none", "check"},
         job'.pc # "none" => job'.step = 1 /\ ~job'.over,
         lock' = "free", staged' = store',
         Base!SaveIsAtomic', Base!LogoutDurable'
  PROVE  TransactionInv'
<1>1. ~Writing'
  BY DEF Writing
<1>2. LockMatchesPc'
  BY <1>1 DEF LockMatchesPc
<1>3. OnlyJobStaged' /\ ProgressTracked'
  BY <1>1 DEF OnlyJobStaged, ProgressTracked
<1> QED
  BY <1>2, <1>3 DEF TransactionInv

LEMMA SavesInitOK ==
  ASSUME Base!ConstantsFit, Base!Init
  PROVE  TransactionInv
<1>1. Tabled(Base!Rows(0))
  <2>1. \A k \in Base!Keys : [t \in Base!Tables(k) |-> {0}] \in [Base!Tables(k) -> SUBSET Base!Versions]
    BY DEF Base!Versions, Base!ConstantsFit
  <2> QED
    BY <2>1 DEF Tabled, Base!Rows, Row
<1>2. job.pc = "none" /\ ~Writing
  BY DEF Base!Init, Base!NoJob, Writing
<1>3. WellFormed
  <2>1. Tabled(mem) /\ Tabled(store) /\ Tabled(staged) /\ Tabled(saved)
    BY <1>1 DEF Base!Init
  <2>2. clock \in Base!Versions /\ faults \in 0 .. MaxFaults
    BY DEF Base!Init, Base!Versions, Base!ConstantsFit
  <2>3. inTxn \in BOOLEAN /\ lock \in {"free", "game"} /\ job \in Jobs \cup {Base!NoJob}
    BY DEF Base!Init
  <2> QED BY <2>1, <2>2, <2>3 DEF Base!Init, WellFormed
<1>4. JobsOfPlayers /\ LockMatchesPc /\ OnlyJobStaged /\ ProgressTracked
  <2>1. JobsOfPlayers
    BY <1>2 DEF Base!Init, JobsOfPlayers
  <2>2. LockMatchesPc
    BY <1>2 DEF Base!Init, LockMatchesPc
  <2>3. OnlyJobStaged
    BY DEF Base!Init, OnlyJobStaged
  <2>4. ProgressTracked
    BY <1>2 DEF ProgressTracked
  <2> QED BY <2>1, <2>2, <2>3, <2>4
<1>5. Base!SaveIsAtomic /\ Base!LogoutDurable
  <2>1. \A p \in Savers : p \in Base!Keys /\ Base!Tables(p) = Base!PlayerTables
    BY DEF Base!Keys, Base!Tables
  <2> QED BY <2>1 DEF Base!Init, Base!SaveIsAtomic, Base!LogoutDurable
<1> QED
  BY <1>3, <1>4, <1>5 DEF TransactionInv

(* The end of a try that stored nothing, or found nothing to store.        *)
LEMMA EndWithoutStoring ==
  ASSUME TransactionInv, job # Base!NoJob, NEW ok \in BOOLEAN, Base!Ended(ok),
         ok => job.key \in NotSaved,
         lock' = "free", inTxn' \in BOOLEAN, staged' = store',
         UNCHANGED <<mem, opened, clock, store, saved, passed>>,
         faults' \in 0 .. MaxFaults
  PROVE  TransactionInv'
<1>1. WellFormed /\ JobsOfPlayers /\ Base!SaveIsAtomic /\ Base!LogoutDurable
  BY DEF TransactionInv
<1>2. /\ job' \in Jobs \cup {Base!NoJob}
      /\ job'.pc \in {"none", "check"}
      /\ job'.pc # "none" => job'.step = 1 /\ ~job'.over
      /\ todo' \subseteq Base!Keys /\ online' \subseteq Savers
      /\ unsaved' \subseteq Savers
      /\ JobsOfPlayers'
      /\ online' \subseteq online
      /\ \A p \in Savers \ (online' \cup unsaved') :
           p \notin unsaved /\ (p \in online => ok /\ p = job.key)
  BY <1>1, EndedFacts
<1>3. WellFormed'
  BY <1>1, <1>2 DEF WellFormed, Tabled
<1>4. Base!SaveIsAtomic'
  BY <1>1 DEF Base!SaveIsAtomic
<1>5. Base!LogoutDurable'
  BY <1>1, <1>2 DEF Base!LogoutDurable
<1> QED
  BY <1>2, <1>3, <1>4, <1>5, QuietPlace

(* The end of a try whose COMMIT was carried out.                          *)
LEMMA EndStored ==
  ASSUME TransactionInv, job.pc = "commit", NEW ok \in BOOLEAN, Base!Ended(ok),
         Base!Committed, store' = staged, staged' = staged,
         inTxn' \in BOOLEAN, lock' = "free",
         UNCHANGED <<mem, opened, clock>>, faults' \in 0 .. MaxFaults
  PROVE  TransactionInv'
<1> DEFINE k == job.key
<1>1. WellFormed /\ JobsOfPlayers /\ Base!SaveIsAtomic /\ Base!LogoutDurable
  BY DEF TransactionInv
<1>2. job # Base!NoJob /\ job \in Jobs /\ k \in Base!Keys /\ Writing /\ job.pc # "none"
  BY <1>1 DEF WellFormed, Jobs, Base!NoJob, Writing
<1>3. /\ job' \in Jobs \cup {Base!NoJob}
      /\ job'.pc \in {"none", "check"}
      /\ job'.pc # "none" => job'.step = 1 /\ ~job'.over
      /\ todo' \subseteq Base!Keys /\ online' \subseteq Savers
      /\ unsaved' \subseteq Savers
      /\ JobsOfPlayers'
      /\ online' \subseteq online
      /\ \A p \in Savers \ (online' \cup unsaved') :
           p \notin unsaved /\ (p \in online => ok /\ p = job.key)
  BY <1>1, <1>2, EndedFacts
<1>4. Base!Intended(k) \in [Base!Tables(k) -> SUBSET Base!Versions]
  BY <1>1, <1>2 DEF WellFormed, Tabled, Base!Intended
<1>5. saved' = [saved EXCEPT ![k] = Base!Intended(k)]
  BY DEF Base!Committed
<1>6. Tabled(saved)'
  <2>1. Base!Intended(k) \in Row
    BY <1>2, <1>4 DEF Row
  <2> HIDE DEF k
  <2> QED
    BY <1>1, <1>2, <1>4, <1>5, <2>1 DEF WellFormed, Tabled
<1>7. WellFormed'
  <2>1. passed' \subseteq Base!Keys
    BY <1>1 DEF Base!Committed, WellFormed
  <2>2. Tabled(mem)' /\ Tabled(store)' /\ Tabled(staged)'
    BY <1>1 DEF WellFormed, Tabled
  <2> QED
    BY <1>1, <1>3, <1>6, <2>1, <2>2 DEF WellFormed
<1>8. \A l \in Base!Keys \ {k} : staged[l] = store[l]
  BY DEF TransactionInv, OnlyJobStaged
<1>9. ~job.over => staged[k] = Base!Intended(k)
  BY CommitIsWhole
<1>10. /\ passed' = IF job.over THEN passed ELSE passed \ {k}
       /\ job.over => k \in passed
  BY <1>2 DEF Base!Committed, TransactionInv, LockMatchesPc
<1>11. Base!SaveIsAtomic'
  <2> SUFFICES ASSUME NEW l \in Base!Keys, l \notin passed'
               PROVE  store'[l] = saved'[l]
    BY DEF Base!SaveIsAtomic
  <2> HIDE DEF k
  <2>1. CASE l = k
    BY <1>1, <1>2, <1>5, <1>9, <1>10, <2>1 DEF WellFormed, Tabled
  <2>2. CASE l # k
    BY <1>1, <1>2, <1>5, <1>8, <1>10, <2>2 DEF WellFormed, Tabled, Base!SaveIsAtomic
  <2> QED BY <2>1, <2>2
<1>12. Base!LogoutDurable'
  <2> SUFFICES ASSUME NEW p \in Savers, p \notin online', p \notin unsaved',
                      p \notin passed', p \notin NotSaved,
                      NEW t \in Base!PlayerTables
               PROVE  store'[p][t] = mem'[p][t] \/ (t = "depot" /\ p \notin opened')
    BY DEF Base!LogoutDurable
  <2>1. /\ p \notin unsaved /\ (p \in online => p = k)
        /\ p \in Base!Keys /\ t \in Base!Tables(p)
    BY <1>3 DEF Base!Keys, Base!Tables
  <2>2. CASE p = k
    <3>1. staged[p] = Base!Intended(p)
      BY <1>9, <1>10, <2>2
    <3>2. Base!Intended(p)[t] = IF t = "depot" /\ p \notin opened THEN store[p][t]
                                ELSE mem[p][t]
      BY <2>1 DEF Base!Intended
    <3> QED BY <3>1, <3>2
  <2>3. CASE p # k
    <3>1. p \notin online /\ p \notin passed
      BY <1>10, <2>1, <2>3
    <3>2. store[p][t] = mem[p][t] \/ (t = "depot" /\ p \notin opened)
      BY <1>1, <2>1, <3>1 DEF Base!LogoutDurable
    <3> QED BY <1>8, <2>1, <2>3, <3>2
  <2> QED BY <2>2, <2>3
<1> QED
  BY <1>3, <1>7, <1>11, <1>12, QuietPlace

(* What the actions of a save begin from.                                  *)
LEMMA JobFacts ==
  ASSUME WellFormed, job.pc # "none"
  PROVE  /\ job \in Jobs /\ job # Base!NoJob /\ job.key \in Base!Keys
         /\ job.kind \in {"logout", "save"} /\ job.over \in BOOLEAN
BY DEF WellFormed, Jobs, Base!NoJob

(* The statements do not change under a save: a depot is opened between *)
(* saves only.                                                             *)
LEMMA SameStatements ==
  ASSUME UNCHANGED opened, job'.key = job.key
  PROVE  Base!Statements(job.key)' = Base!Statements(job.key)
BY DEF Base!Statements, Base!SavePlayer, Base!SaveHouseInfo, Base!SaveHouseItems

(* A new place in the same save, with nothing written.                     *)
LEMMA SamePlace ==
  ASSUME TransactionInv, job' \in Jobs, job'.key = job.key, job'.kind = job.kind,
         job.pc \in {"check", "begin", "lock"}, ~job'.over,
         job'.step = 1,
         job'.pc \in {"begin", "lock", "write"},
         lock' = IF job'.pc = "write" THEN "game" ELSE "free",
         inTxn' \in BOOLEAN, job'.pc \in {"lock", "write"} => inTxn',
         UNCHANGED <<Base!dataVars, store, staged, todo, faults, saved, passed>>
  PROVE  TransactionInv'
<1>1. job.pc # "none" /\ ~Writing /\ WellFormed
  BY DEF Writing, TransactionInv
<1>2. job.key \in Base!Keys
  BY <1>1, JobFacts
<1>3. UNCHANGED <<mem, online, opened, clock, unsaved>>
  BY DEF Base!dataVars
<1>4. WellFormed'
  BY <1>1, <1>3 DEF WellFormed, Tabled
<1>5. JobsOfPlayers'
  BY <1>1, <1>3 DEF TransactionInv, JobsOfPlayers, Jobs
<1>6. staged' = store'
  <2>1. \A k \in Base!Keys : staged[k] = store[k]
    BY <1>1 DEF TransactionInv, OnlyJobStaged
  <2> QED BY <1>1, <2>1 DEF WellFormed, Tabled
<1>7. Base!Statements(job.key)' = Base!Statements(job.key)
  BY <1>3, SameStatements
<1>8. Len(Base!Statements(job.key)) \in Nat \ {0}
  BY <1>2, StatementFacts
<1>9. LockMatchesPc'
  BY <1>1, <1>6, <1>7, <1>8 DEF LockMatchesPc, Writing
<1>10. OnlyJobStaged'
  BY <1>6 DEF OnlyJobStaged
<1>11. ProgressTracked'
  <2> SUFFICES ASSUME Writing', NEW t \in Base!Tables(job'.key)
               PROVE  \A i \in Nat : ~Latest(i, t)'
    BY <1>6 DEF ProgressTracked, Base!Tables
  <2>1. Sent' = 0
    BY DEF Sent, Writing
  <2> QED BY <2>1 DEF Latest
<1>12. Base!SaveIsAtomic' /\ Base!LogoutDurable'
  BY <1>3 DEF TransactionInv, Base!SaveIsAtomic, Base!LogoutDurable
<1> QED
  BY <1>4, <1>5, <1>9, <1>10, <1>11, <1>12 DEF TransactionInv

(* The place after a statement.                                            *)
LEMMA NextStepFacts ==
  ASSUME WellFormed, job.pc = "write", job.step \in 1 .. Len(Base!Statements(job.key))
  PROVE  /\ Base!NextStep \in Jobs /\ Base!NextStep.pc \in {"write", "commit"}
         /\ Base!NextStep.key = job.key /\ Base!NextStep.kind = job.kind
         /\ Base!NextStep.over = job.over /\ Base!NextStep.tries = job.tries
         /\ Base!NextStep.pc = "commit" =>
              job.step = Len(Base!Statements(job.key)) /\ Base!NextStep.step = job.step
         /\ Base!NextStep.pc = "write" => Base!NextStep.step = job.step + 1
         /\ Base!NextStep.step \in 1 .. Len(Base!Statements(job.key))
<1>1. job \in Jobs /\ job.key \in Base!Keys
  BY JobFacts
<1>2. Len(Base!Statements(job.key)) \in Nat
  BY <1>1, StatementFacts
<1>3. CASE job.step = Len(Base!Statements(job.key))
  <2>1. Base!NextStep = [job EXCEPT !.pc = "commit"]
    BY <1>3 DEF Base!NextStep
  <2> QED BY <1>1, <1>2, <1>3, <2>1 DEF Jobs
<1>4. CASE job.step # Len(Base!Statements(job.key))
  <2>1. Base!NextStep = [job EXCEPT !.step = job.step + 1]
    BY <1>4 DEF Base!NextStep
  <2> QED BY <1>1, <1>2, <1>4, <2>1 DEF Jobs
<1> QED
  BY <1>3, <1>4

(* One statement is executed.                                              *)
LEMMA ExecuteOK ==
  ASSUME TransactionInv, Base!Execute
  PROVE  TransactionInv'
<1> DEFINE k == job.key
           s == Base!Statements(k)
           n == Len(s)
           i == job.step
           t0 == s[i].table
<1>1. /\ WellFormed /\ JobsOfPlayers /\ LockMatchesPc /\ OnlyJobStaged
      /\ ProgressTracked /\ Base!SaveIsAtomic /\ Base!LogoutDurable
  BY DEF TransactionInv
<1>2. /\ job.pc = "write" /\ job.pc # "none" /\ Writing
      /\ staged' = Base!Written(s[i], k, staged)
      /\ store' = IF inTxn THEN store ELSE staged'
      /\ job' = Base!NextStep
      /\ UNCHANGED <<mem, online, opened, clock, unsaved>>
      /\ UNCHANGED <<inTxn, lock, todo, faults, saved, passed>>
  BY DEF Base!Execute, Base!Statement, Writing, Base!dataVars
<1>3. /\ job \in Jobs /\ k \in Base!Keys /\ job.over \in BOOLEAN
      /\ i \in 1 .. n
  BY <1>1, <1>2, JobFacts DEF LockMatchesPc
<1>4. /\ s \in Seq(Ops) /\ n \in Nat \ {0}
      /\ \A j \in 1 .. n :
           /\ s[j].table \in Base!Tables(k)
           /\ s[j].op \in {"update", "delete", "insert"}
           /\ s[j].op = "insert" => \E m \in 1 .. n : Follows(s, m, j)
           /\ s[j].table = "depot" => k \in opened
  BY <1>3, StatementFacts
<1>5. /\ job' \in Jobs /\ job'.pc \in {"write", "commit"}
      /\ job'.key = k /\ job'.kind = job.kind /\ job'.over = job.over
      /\ job'.pc = "commit" => i = n /\ job'.step = i
      /\ job'.pc = "write" => job'.step = i + 1
      /\ job'.step \in 1 .. n
  BY <1>1, <1>2, <1>3, NextStepFacts
<1>6. Base!Statements(job.key)' = s
  BY <1>2, <1>5, SameStatements
<1>7. s[i] \in Ops /\ t0 \in Base!Tables(k)
  BY <1>3, <1>4
<1>8. /\ Tabled(staged')
      /\ \A l \in Base!Keys \ {k} : staged'[l] = staged[l]
      /\ \A t \in Base!Tables(k) \ {t0} : staged'[k][t] = staged[k][t]
      /\ s[i].op = "update" => staged'[k][t0] = mem[k][t0]
      /\ s[i].op = "delete" => staged'[k][t0] = {}
      /\ s[i].op = "insert" => staged'[k][t0] = staged[k][t0] \cup mem[k][t0]
  <2> DEFINE w == Base!Written(s[i], k, staged)
  <2>1. Tabled(staged)
    BY <1>1 DEF WellFormed
  <2> HIDE DEF s, i, k
  <2>2. /\ Tabled(w)
        /\ \A l \in Base!Keys \ {k} : w[l] = staged[l]
        /\ \A t \in Base!Tables(k) \ {t0} : w[k][t] = staged[k][t]
        /\ s[i].op = "update" => w[k][t0] = mem[k][t0]
        /\ s[i].op = "delete" => w[k][t0] = {}
        /\ s[i].op = "insert" => w[k][t0] = staged[k][t0] \cup mem[k][t0]
    BY <1>1, <1>3, <1>7, <2>1, WrittenFacts
  <2>3. staged' = w
    BY <1>2
  <2> HIDE DEF w
  <2> QED
    BY <2>2, <2>3
<1>9. Writing' /\ job'.pc # "none"
  BY <1>5 DEF Writing
<1> HIDE DEF s, n, i, t0
<1>10. WellFormed'
  <2>1. Tabled(mem') /\ Tabled(store') /\ Tabled(saved')
    BY <1>1, <1>2, <1>8 DEF WellFormed
  <2> QED
    BY <1>1, <1>2, <1>5, <1>8, <2>1 DEF WellFormed, Tabled
<1>11. JobsOfPlayers'
  BY <1>1, <1>2, <1>5 DEF JobsOfPlayers
<1>12. LockMatchesPc'
  <2>1. job'.step \in 1 .. Len(Base!Statements(job.key)')
    BY <1>5, <1>6 DEF n
  <2>2. ~inTxn' => staged' = store'
    BY <1>2
  <2>3. lock' = "game"
    BY <1>1, <1>2 DEF LockMatchesPc
  <2>4. ~inTxn' => job'.over
    BY <1>1, <1>2, <1>5 DEF LockMatchesPc
  <2>5. job'.over => job'.key \in passed'
    BY <1>1, <1>2, <1>5 DEF LockMatchesPc
  <2> QED
    BY <1>9, <2>1, <2>2, <2>3, <2>4, <2>5 DEF LockMatchesPc
<1>13. \A l \in Base!Keys \ {k} : store'[l] = store[l] /\ staged'[l] = store'[l]
  BY <1>1, <1>2, <1>8 DEF OnlyJobStaged
<1>14. OnlyJobStaged'
  BY <1>5, <1>9, <1>13 DEF OnlyJobStaged
<1>15. ProgressTracked'
  <2> SUFFICES ASSUME ~job.over, NEW t \in Base!Tables(k)
               PROVE  /\ Untouched(t)' => staged'[k][t] = store'[k][t]
                      /\ \A j \in Nat : Latest(j, t)' =>
                           staged'[k][t] = IF s[j].op = "delete" THEN {} ELSE mem[k][t]
    BY <1>2, <1>5, <1>6 DEF ProgressTracked
  <2>1. Sent = i - 1 /\ Sent' = i
    BY <1>2, <1>3, <1>4, <1>5, <1>6 DEF Sent, n, i
  <2>2. /\ Untouched(t)' <=> \A j \in 1 .. i : s[j].table # t
        /\ Untouched(t) <=> \A j \in 1 .. i - 1 : s[j].table # t
    BY <1>6, <2>1 DEF Untouched, s
  <2>3. \A j \in Nat :
          /\ Latest(j, t)' <=> /\ j \in 1 .. i /\ s[j].table = t
                              /\ \A m \in j + 1 .. i : s[m].table # t
          /\ Latest(j, t) <=> /\ j \in 1 .. i - 1 /\ s[j].table = t
                             /\ \A m \in j + 1 .. i - 1 : s[m].table # t
    BY <1>6, <2>1 DEF Latest, s
  <2>4. /\ Untouched(t) => staged[k][t] = store[k][t]
        /\ \A j \in Nat : Latest(j, t) =>
             staged[k][t] = IF s[j].op = "delete" THEN {} ELSE mem[k][t]
    BY <1>1, <1>2 DEF ProgressTracked, s
  <2>5. store' = store
    BY <1>1, <1>2, <1>3 DEF LockMatchesPc
  <2>6. i \in Nat \ {0}
    BY <1>3, <1>4
  <2>7. CASE t # t0
    <3>1. staged'[k][t] = staged[k][t]
      BY <1>8, <2>7
    <3>2. Untouched(t)' => Untouched(t)
      BY <2>2, <2>6
    <3>3. \A j \in Nat : Latest(j, t)' => Latest(j, t)
      BY <2>3, <2>6, <2>7 DEF t0
    <3> QED
      BY <2>4, <2>5, <3>1, <3>2, <3>3
  <2>8. CASE t = t0
    <3>1. ~Untouched(t)'
      BY <2>2, <2>6, <2>8 DEF t0
    <3>2. \A j \in Nat : Latest(j, t)' => j = i
      BY <2>3, <2>6, <2>8 DEF t0
    <3>3. s[i].op = "insert" => staged[k][t] = {}
      <4> SUFFICES ASSUME s[i].op = "insert" PROVE staged[k][t] = {}
        OBVIOUS
      <4>1. PICK m \in 1 .. n : Follows(s, m, i)
        BY <1>3, <1>4
      <4>2. m \in Nat /\ Latest(m, t) /\ s[m].op = "delete"
        BY <1>4, <2>3, <2>6, <2>8, <4>1 DEF Follows, t0
      <4> QED BY <2>4, <4>2
    <3>4. staged'[k][t] = IF s[i].op = "delete" THEN {} ELSE mem[k][t]
      BY <1>3, <1>4, <1>8, <2>8, <3>3
    <3> QED BY <3>1, <3>2, <3>4
  <2> QED BY <2>7, <2>8
<1>16. Base!SaveIsAtomic' /\ Base!LogoutDurable'
  <2>1. store' = store \/ k \in passed
    BY <1>1, <1>2 DEF LockMatchesPc
  <2>2. Base!SaveIsAtomic'
    BY <1>1, <1>2, <1>13, <2>1 DEF Base!SaveIsAtomic
  <2>3. Base!LogoutDurable'
    BY <1>1, <1>2, <1>13, <2>1 DEF Base!LogoutDurable, Base!Keys
  <2> QED BY <2>2, <2>3
<1> QED
  BY <1>10, <1>11, <1>12, <1>14, <1>15, <1>16 DEF TransactionInv

(* The save goes on over a failure: its key is no longer spoken for.       *)
LEMMA PassOverOK ==
  ASSUME TransactionInv, job.pc = "write", NEW j \in {job, Base!NextStep},
         Base!PassOver(j),
         UNCHANGED <<staged, inTxn>> \/ (staged' = store /\ inTxn' = FALSE),
         UNCHANGED <<Base!dataVars, store, lock, todo, saved>>, faults' \in 0 .. MaxFaults
  PROVE  TransactionInv'
<1>1. /\ WellFormed /\ JobsOfPlayers /\ LockMatchesPc /\ OnlyJobStaged
      /\ Base!SaveIsAtomic /\ Base!LogoutDurable
  BY DEF TransactionInv
<1>2. UNCHANGED <<mem, online, opened, clock, unsaved>>
  BY DEF Base!dataVars
<1>3. /\ Writing /\ job.pc # "none" /\ job \in Jobs /\ job.key \in Base!Keys
      /\ job.step \in 1 .. Len(Base!Statements(job.key))
  BY <1>1, JobFacts DEF Writing, LockMatchesPc
<1>4. /\ j \in Jobs /\ j.key = job.key /\ j.kind = job.kind
      /\ j.pc \in {"write", "commit"}
      /\ j.step \in 1 .. Len(Base!Statements(job.key))
  BY <1>1, <1>3, NextStepFacts
<1>5. /\ job' \in Jobs /\ job'.key = job.key /\ job'.kind = job.kind
      /\ job'.pc = j.pc /\ job'.step = j.step /\ job'.over = TRUE
      /\ passed' = passed \cup {job.key}
  BY <1>4 DEF Base!PassOver, Jobs
<1>6. Writing' /\ job'.pc # "none"
  BY <1>4, <1>5 DEF Writing
<1>7. Base!Statements(job.key)' = Base!Statements(job.key)
  BY <1>2, <1>5, SameStatements
<1>8. WellFormed'
  BY <1>1, <1>2, <1>3, <1>5 DEF WellFormed, Tabled
<1>9. JobsOfPlayers'
  BY <1>1, <1>2, <1>3, <1>5 DEF JobsOfPlayers
<1>10. LockMatchesPc'
  BY <1>1, <1>3, <1>4, <1>5, <1>6, <1>7 DEF LockMatchesPc
<1>11. OnlyJobStaged'
  BY <1>1, <1>5, <1>6 DEF OnlyJobStaged
<1>12. ProgressTracked'
  BY <1>5 DEF ProgressTracked
<1>13. Base!SaveIsAtomic' /\ Base!LogoutDurable'
  BY <1>1, <1>2, <1>5 DEF Base!SaveIsAtomic, Base!LogoutDurable
<1> QED
  BY <1>8, <1>9, <1>10, <1>11, <1>12, <1>13 DEF TransactionInv

(* Between saves the lock is free and nothing is staged.                   *)
LEMMA NothingStaged ==
  ASSUME TransactionInv, ~Writing
  PROVE  staged = store /\ lock = "free"
<1>1. \A k \in Base!Keys : staged[k] = store[k]
  BY DEF TransactionInv, OnlyJobStaged
<1> QED
  BY <1>1 DEF TransactionInv, WellFormed, Tabled, LockMatchesPc

(* What the players and the administrators do between saves.               *)
LEMMA BetweenSaves ==
  ASSUME Base!ConstantsFit, TransactionInv, job = Base!NoJob,
         UNCHANGED <<store, staged, inTxn, lock, saved, passed, faults>>,
         \/ \E p \in Savers : \/ Base!Login(p) \/ Base!Play(p) \/ Base!ReceiveItems(p)
                             \/ Base!OpenDepot(p) \/ Base!Logout(p)
         \/ \E k \in Base!Keys : Base!FurnishHouse(k) \/ Base!SaveNext(k)
         \/ Base!SaveGameState
  PROVE  TransactionInv'
<1>1. /\ WellFormed /\ JobsOfPlayers /\ LockMatchesPc
      /\ Base!SaveIsAtomic /\ Base!LogoutDurable /\ job.pc = "none"
  BY DEF TransactionInv, Base!NoJob
<1>2. staged = store /\ lock = "free" /\ staged' = store' /\ lock' = "free"
  BY <1>1, NothingStaged DEF Writing
<1>3. /\ Tabled(store)' /\ Tabled(staged)' /\ Tabled(saved)'
      /\ inTxn' \in BOOLEAN /\ faults' \in 0 .. MaxFaults /\ passed' \subseteq Base!Keys
      /\ Base!SaveIsAtomic'
  BY <1>1 DEF WellFormed, Tabled, Base!SaveIsAtomic
<1>4. ASSUME NEW k \in Base!Keys, NEW kind \in {"logout", "save"}, NEW tries \in 1 .. Base!MaxTries,
             Base!StartJob(k, kind, tries)
      PROVE  /\ job' \in Jobs /\ job'.pc = "check" /\ job'.step = 1 /\ ~job'.over
             /\ job'.key = k /\ job'.kind = kind
  BY <1>4 DEF Base!StartJob, Jobs
<1>5. ASSUME NEW p \in Savers, Base!Login(p) PROVE TransactionInv'
  <2>1. /\ p \notin online /\ p \in Base!Keys /\ todo = {}
        /\ online' = online \cup {p}
        /\ mem' = [mem EXCEPT ![p] = store[p]]
        /\ unsaved' = unsaved \ {p} /\ opened' = opened \ {p}
        /\ UNCHANGED <<clock, job, todo>>
    BY <1>2, <1>5 DEF Base!Login, Base!Keys, Base!Idle
  <2>2. /\ mem'[p] = store[p] /\ \A l \in Base!Keys \ {p} : mem'[l] = mem[l]
        /\ Tabled(mem)'
    BY <1>1, <2>1 DEF WellFormed, Tabled
  <2>3. WellFormed' /\ JobsOfPlayers'
    BY <1>1, <1>2, <1>3, <2>1, <2>2 DEF WellFormed, JobsOfPlayers
  <2>4. Base!LogoutDurable'
    BY <1>1, <2>1, <2>2 DEF Base!LogoutDurable, Base!Keys
  <2> QED
    BY <1>1, <1>2, <1>3, <2>1, <2>3, <2>4, QuietPlace
<1>6. ASSUME NEW k \in Base!Keys, NEW ts, Base!Idle, Base!Changed(k, ts),
             k \in Savers => k \in online,
             UNCHANGED <<online, opened, job, todo, unsaved>>
      PROVE  TransactionInv'
  <2> DEFINE r == [t \in Base!Tables(k) |-> IF t \in ts THEN {clock + 1} ELSE mem[k][t]]
  <2>1. clock < MaxVersion /\ clock' = clock + 1 /\ mem' = [mem EXCEPT ![k] = r]
    BY <1>6 DEF Base!Changed
  <2>2. clock' \in Base!Versions
    BY <1>1, <2>1 DEF WellFormed, Base!Versions, Base!ConstantsFit
  <2>3. r \in [Base!Tables(k) -> SUBSET Base!Versions]
    BY <1>1, <2>1, <2>2 DEF WellFormed, Tabled
  <2> HIDE DEF r
  <2>4. /\ mem'[k] = r /\ \A l \in Base!Keys \ {k} : mem'[l] = mem[l]
        /\ Tabled(mem)'
    <3>1. r \in Row
      BY <2>3 DEF Row
    <3> QED
      BY <1>1, <2>1, <2>3, <3>1 DEF WellFormed, Tabled
  <2>5. WellFormed' /\ JobsOfPlayers'
    BY <1>1, <1>2, <1>3, <1>6, <2>2, <2>4 DEF WellFormed, JobsOfPlayers
  <2>6. Base!LogoutDurable'
    BY <1>1, <1>6, <2>4 DEF Base!LogoutDurable, Base!Keys
  <2> QED
    BY <1>1, <1>2, <1>3, <1>6, <2>5, <2>6, QuietPlace
<1>7. ASSUME NEW p \in Savers, Base!Play(p) \/ Base!ReceiveItems(p) PROVE TransactionInv'
  <2>1. PICK ts : Base!Plays(p, ts)
    BY <1>7 DEF Base!Play, Base!ReceiveItems
  <2> QED BY <1>6, <2>1 DEF Base!Plays, Base!Keys, Base!Idle
<1>8. ASSUME NEW k \in Base!Keys, Base!FurnishHouse(k) PROVE TransactionInv'
  BY <1>6, <1>8 DEF Base!FurnishHouse, Base!ConstantsFit
<1>9. ASSUME NEW p \in Savers, Base!OpenDepot(p) PROVE TransactionInv'
  <2>1. /\ p \in online /\ opened' = opened \cup {p} /\ todo = {}
        /\ UNCHANGED <<mem, online, clock, job, todo, unsaved>>
    BY <1>9 DEF Base!OpenDepot, Base!Idle
  <2>2. WellFormed' /\ JobsOfPlayers'
    BY <1>1, <1>2, <1>3, <2>1 DEF WellFormed, JobsOfPlayers, Tabled
  <2>3. Base!LogoutDurable'
    BY <1>1, <2>1 DEF Base!LogoutDurable
  <2> QED
    BY <1>1, <1>2, <1>3, <2>1, <2>2, <2>3, QuietPlace
<1>10. ASSUME NEW p \in Savers, Base!Logout(p) PROVE TransactionInv'
  <2>1. /\ p \in online /\ p \in Base!Keys /\ todo = {}
        /\ Base!StartJob(p, "logout", 3)
        /\ UNCHANGED <<mem, online, opened, clock, todo, unsaved>>
    BY <1>10 DEF Base!Logout, Base!Idle, Base!dataVars, Base!MaxTries, Base!Keys
  <2>2. /\ job' \in Jobs /\ job'.pc = "check" /\ job'.step = 1 /\ ~job'.over
        /\ job'.key = p
    BY <1>4, <2>1 DEF Base!MaxTries
  <2>3. WellFormed' /\ JobsOfPlayers'
    BY <1>1, <1>2, <1>3, <2>1, <2>2 DEF WellFormed, JobsOfPlayers, Tabled
  <2>4. Base!LogoutDurable'
    BY <1>1, <2>1 DEF Base!LogoutDurable
  <2> QED
    BY <1>2, <1>3, <2>2, <2>3, <2>4, QuietPlace
<1>11. CASE Base!SaveGameState
  <2>1. /\ todo' = online \cup {Base!HouseInfo, Base!HouseItems}
        /\ UNCHANGED <<mem, online, opened, clock, job, unsaved>>
    BY <1>11 DEF Base!SaveGameState, Base!dataVars
  <2>2. WellFormed' /\ JobsOfPlayers'
    BY <1>1, <1>2, <1>3, <2>1 DEF WellFormed, JobsOfPlayers, Tabled, Base!Keys, Base!ConstantsFit
  <2>3. Base!LogoutDurable'
    BY <1>1, <2>1 DEF Base!LogoutDurable
  <2> QED
    BY <1>1, <1>2, <1>3, <2>1, <2>2, <2>3, QuietPlace
<1>12. ASSUME NEW k \in Base!Keys, Base!SaveNext(k) PROVE TransactionInv'
  <2>1. /\ k \in todo /\ todo' = todo \ {k}
        /\ Base!StartJob(k, "save", IF k \in Savers THEN 1 ELSE Base!MaxTries)
        /\ UNCHANGED <<mem, online, opened, clock, unsaved>>
    BY <1>12 DEF Base!SaveNext, Base!dataVars
  <2>2. /\ job' \in Jobs /\ job'.pc = "check" /\ job'.step = 1 /\ ~job'.over
        /\ job'.key = k /\ job'.kind = "save"
    <3>1. (IF k \in Savers THEN 1 ELSE Base!MaxTries) \in 1 .. Base!MaxTries
      BY DEF Base!MaxTries
    <3> QED BY <1>4, <2>1, <3>1
  <2>3. WellFormed' /\ JobsOfPlayers'
    BY <1>1, <1>2, <1>3, <2>1, <2>2 DEF WellFormed, JobsOfPlayers, Tabled
  <2>4. Base!LogoutDurable'
    BY <1>1, <2>1 DEF Base!LogoutDurable
  <2> QED
    BY <1>2, <1>3, <2>2, <2>3, <2>4, QuietPlace
<1> QED
  BY <1>5, <1>7, <1>8, <1>9, <1>10, <1>11, <1>12

(* The process dies: whoever was in the game is reported, and the houses   *)
(* are read back.                                                          *)
LEMMA CrashOK ==
  ASSUME Base!ConstantsFit, TransactionInv, Base!Crash
  PROVE  TransactionInv'
<1>1. WellFormed /\ Base!SaveIsAtomic /\ Base!LogoutDurable
  BY DEF TransactionInv
<1>2. /\ faults' \in 0 .. MaxFaults
      /\ online' = {} /\ todo' = {}
      /\ job' = Base!NoJob /\ job'.pc = "none"
      /\ staged' = store /\ inTxn' = FALSE /\ lock' = "free"
      /\ mem' = [k \in Base!Keys |-> IF k \in Savers THEN mem[k] ELSE store[k]]
      /\ unsaved' = unsaved \cup online
      /\ UNCHANGED <<opened, clock, store, saved, passed>>
  BY <1>1 DEF Base!Crash, Base!Fault, WellFormed, Base!NoJob, Base!ConstantsFit
<1>3. Tabled(mem)' /\ Tabled(store)' /\ Tabled(staged)' /\ Tabled(saved)'
  BY <1>1, <1>2 DEF WellFormed, Tabled
<1>4. inTxn' \in BOOLEAN
  BY <1>2
<1>5. WellFormed'
  BY <1>1, <1>2, <1>3, <1>4 DEF WellFormed
<1>6. JobsOfPlayers'
  BY <1>2 DEF JobsOfPlayers
<1>7. Base!SaveIsAtomic' /\ Base!LogoutDurable'
  BY <1>1, <1>2 DEF Base!SaveIsAtomic, Base!LogoutDurable, Base!Keys
<1> QED
  BY <1>2, <1>5, <1>6, <1>7, QuietPlace

(* One step per action.                                                    *)
LEMMA SavesStepOK ==
  ASSUME Base!ConstantsFit, TransactionInv, [Base!Next]_Base!vars
  PROVE  TransactionInv'
<1>1. WellFormed /\ JobsOfPlayers /\ LockMatchesPc
  BY DEF TransactionInv
<1>2. faults \in 0 .. MaxFaults /\ inTxn \in BOOLEAN /\ Base!NoJob.pc = "none"
      /\ (Base!Fault => faults' \in 0 .. MaxFaults)
  BY <1>1 DEF WellFormed, Base!Fault, Base!NoJob, Base!ConstantsFit
<1>3. ~Writing => staged = store /\ lock = "free"
  BY NothingStaged
<1>4. job.pc # "none" => job \in Jobs /\ job # Base!NoJob
  BY <1>1, JobFacts
<1>5. CASE Base!CheckSave
  <2>1. CASE job.key \in NotSaved /\ Base!Ended(TRUE) /\ UNCHANGED faults
    <3>1. /\ Base!Ended(TRUE) /\ job # Base!NoJob /\ staged = store /\ lock = "free"
          /\ UNCHANGED <<mem, opened, clock, store, staged, inTxn, lock, faults, saved, passed>>
      BY <1>3, <1>4, <1>5, <2>1 DEF Base!CheckSave, Writing
    <3> QED
      BY <1>2, <2>1, <3>1, EndWithoutStoring
  <2>2. CASE /\ job' = [job EXCEPT !.pc = "begin"]
             /\ UNCHANGED <<online, todo, unsaved, faults>>
    <3>1. /\ job.pc = "check" /\ job' = [job EXCEPT !.pc = "begin"]
          /\ job.step = 1 /\ ~job.over /\ lock = "free"
          /\ UNCHANGED <<online, opened, todo, unsaved>>
          /\ UNCHANGED <<mem, clock, store, staged, inTxn, lock, faults, saved, passed>>
      BY <1>1, <1>3, <1>5, <2>2 DEF Base!CheckSave, Writing, LockMatchesPc
    <3>2. /\ job' \in Jobs /\ job'.key = job.key /\ job'.kind = job.kind
          /\ job'.pc = "begin" /\ job'.step = 1 /\ ~job'.over
      BY <1>4, <3>1 DEF Jobs
    <3> QED
      BY <1>2, <3>1, <3>2, SamePlace DEF Base!dataVars
  <2>3. CASE Base!Fault /\ Base!Ended(FALSE)
    <3>1. /\ job # Base!NoJob /\ staged = store /\ lock = "free"
          /\ faults' \in 0 .. MaxFaults
          /\ UNCHANGED <<mem, opened, clock, store, staged, inTxn, lock, saved, passed>>
      BY <1>2, <1>3, <1>4, <1>5, <2>3 DEF Base!CheckSave, Writing
    <3> QED
      BY <1>2, <2>3, <3>1, EndWithoutStoring
  <2> QED
    BY <1>5, <2>1, <2>2, <2>3 DEF Base!CheckSave
<1>6. CASE Base!SendBegin
  <2>1. /\ job.pc = "begin" /\ job' = [job EXCEPT !.pc = "lock"]
        /\ job.step = 1 /\ ~job.over /\ lock = "free" /\ staged = store
        /\ store' = store /\ inTxn'
        /\ UNCHANGED <<Base!dataVars, staged, lock, todo, faults, saved, passed>>
    BY <1>1, <1>3, <1>6 DEF Base!SendBegin, Writing, LockMatchesPc
  <2>2. /\ job' \in Jobs /\ job'.key = job.key /\ job'.kind = job.kind
        /\ job'.pc = "lock" /\ job'.step = 1 /\ ~job'.over
    BY <1>4, <2>1 DEF Jobs
  <2>3. inTxn' \in BOOLEAN
    BY <1>6 DEF Base!SendBegin
  <2> QED
    BY <2>1, <2>2, <2>3, SamePlace
<1>7. CASE Base!TakeLock
  <2>1. /\ job.pc = "lock" /\ job' = [job EXCEPT !.pc = "write"]
        /\ job.step = 1 /\ ~job.over /\ lock' = "game"
        /\ inTxn /\ inTxn' = inTxn
        /\ UNCHANGED <<Base!dataVars, store, staged, todo, faults, saved, passed>>
    BY <1>1, <1>7 DEF Base!TakeLock, Writing, LockMatchesPc
  <2>2. /\ job' \in Jobs /\ job'.key = job.key /\ job'.kind = job.kind
        /\ job'.pc = "write" /\ job'.step = 1 /\ ~job'.over
    BY <1>4, <2>1 DEF Jobs
  <2> QED
    BY <1>2, <2>1, <2>2, SamePlace
<1>8. CASE Base!Execute
  BY <1>8, ExecuteOK
<1>9. CASE Base!StatementFails
  <2>1. job.pc = "write" /\ job # Base!NoJob /\ faults' \in 0 .. MaxFaults
        /\ UNCHANGED <<mem, opened, clock, saved>>
    BY <1>2, <1>4, <1>9 DEF Base!StatementFails
  <2>2. CASE Base!ErrorIgnored(Base!Statement)
    <3>1. /\ Base!PassOver(Base!NextStep)
          /\ UNCHANGED <<online, unsaved, store, staged, inTxn, lock, todo>>
      BY <1>9, <2>2 DEF Base!StatementFails
    <3>2. UNCHANGED <<Base!dataVars, store, lock, todo, saved>>
      BY <2>1, <3>1 DEF Base!dataVars
    <3>3. UNCHANGED <<staged, inTxn>>
      BY <3>1
    <3> QED
      BY <2>1, <3>1, <3>2, <3>3, PassOverOK
  <2>3. CASE ~Base!ErrorIgnored(Base!Statement)
    <3>1. Base!Ended(FALSE) /\ Base!Rollback /\ UNCHANGED passed
      BY <1>9, <2>3 DEF Base!StatementFails
    <3>2. /\ lock' = "free" /\ inTxn' \in BOOLEAN /\ staged' = store'
          /\ UNCHANGED store
      BY <3>1 DEF Base!Rollback
    <3> QED
      BY <2>1, <3>1, <3>2, EndWithoutStoring
  <2> QED
    BY <2>2, <2>3
<1>10. CASE Base!ConnectionLost
  <2>1. /\ job.pc = "write" /\ Base!PassOver(job) /\ staged' = store /\ inTxn' = FALSE
        /\ UNCHANGED <<Base!dataVars, store, lock, todo, saved>> /\ faults' \in 0 .. MaxFaults
    BY <1>2, <1>10 DEF Base!ConnectionLost
  <2> QED
    BY <2>1, PassOverOK
<1>11. CASE Base!BeginFails
  <2>1. /\ job # Base!NoJob /\ Base!Ended(FALSE) /\ Base!Rollback /\ faults' \in 0 .. MaxFaults
        /\ UNCHANGED <<mem, opened, clock, saved, passed>>
    BY <1>2, <1>4, <1>11 DEF Base!BeginFails
  <2>2. /\ lock' = "free" /\ inTxn' \in BOOLEAN /\ staged' = store'
        /\ UNCHANGED store
    BY <2>1 DEF Base!Rollback
  <2> QED
    BY <2>1, <2>2, EndWithoutStoring
<1>12. CASE Base!Commit
  <2>1. /\ job.pc = "commit" /\ Base!Ended(TRUE) /\ Base!Committed
        /\ store' = staged /\ staged' = staged /\ lock' = "free"
        /\ UNCHANGED <<mem, opened, clock>> /\ faults' \in 0 .. MaxFaults
    BY <1>2, <1>12 DEF Base!Commit
  <2>2. inTxn' \in BOOLEAN
    BY <1>12 DEF Base!Commit
  <2> QED
    BY <2>1, <2>2, EndStored
<1>13. CASE Base!CommitFails
  <2>1. /\ job.pc = "commit" /\ job # Base!NoJob /\ Base!Ended(FALSE) /\ lock' = "free"
        /\ UNCHANGED <<mem, opened, clock>> /\ faults' \in 0 .. MaxFaults
        /\ \/ staged' = store /\ UNCHANGED <<store, saved, passed>>
           \/ store' = staged /\ Base!Committed /\ UNCHANGED staged
    BY <1>2, <1>4, <1>13 DEF Base!CommitFails
  <2>2. inTxn' \in BOOLEAN
    BY <1>13 DEF Base!CommitFails
  <2>3. CASE staged' = store /\ UNCHANGED <<store, saved, passed>>
    BY <2>1, <2>2, <2>3, EndWithoutStoring
  <2>4. CASE store' = staged /\ Base!Committed /\ UNCHANGED staged
    BY <2>1, <2>2, <2>4, EndStored
  <2> QED
    BY <2>1, <2>3, <2>4
<1>14. CASE Base!Crash
  BY <1>14, CrashOK
<1>15. ASSUME \/ \E p \in Savers : \/ Base!Login(p) \/ Base!Play(p) \/ Base!ReceiveItems(p)
                                  \/ Base!OpenDepot(p) \/ Base!Logout(p)
              \/ \E k \in Base!Keys : Base!FurnishHouse(k) \/ Base!SaveNext(k)
              \/ Base!SaveGameState
       PROVE  TransactionInv'
  <2>1. /\ job = Base!NoJob
        /\ UNCHANGED <<store, staged, inTxn, lock, saved, passed, faults>>
    BY <1>15 DEF Base!Login, Base!Play, Base!ReceiveItems, Base!Plays, Base!OpenDepot, Base!Logout, Base!FurnishHouse, Base!SaveNext,
                 Base!SaveGameState, Base!Idle
  <2> QED
    BY <1>15, <2>1, BetweenSaves
<1>16. CASE UNCHANGED Base!vars
  <2>1. Base!Statements(job.key)' = Base!Statements(job.key)
    BY <1>16, SameStatements DEF Base!vars
  <2>2. /\ WellFormed' /\ JobsOfPlayers'
        /\ Base!SaveIsAtomic' /\ Base!LogoutDurable'
    BY <1>1, <1>16 DEF Base!vars, TransactionInv, WellFormed, Tabled, JobsOfPlayers,
                       Base!SaveIsAtomic, Base!LogoutDurable
  <2>3. LockMatchesPc' /\ OnlyJobStaged'
    BY <1>1, <1>16, <2>1 DEF Base!vars, TransactionInv, LockMatchesPc, OnlyJobStaged, Writing
  <2>4. ProgressTracked'
    BY <1>16, <2>1 DEF Base!vars, TransactionInv, ProgressTracked, Writing, Untouched, Latest, Sent
  <2> QED
    BY <2>2, <2>3, <2>4 DEF TransactionInv
<1> QED
  BY <1>5, <1>6, <1>7, <1>8, <1>9, <1>10, <1>11, <1>12, <1>13, <1>14, <1>15, <1>16
     DEF Base!Next

(* What the runs check follows.                                            *)
LEMMA InvariantImplies ==
  ASSUME TransactionInv
  PROVE  Base!SavesIsolated /\ Base!LogoutDurable
<1>1. Base!NoDirtyRead
  BY DEF Base!NoDirtyRead, Base!NetworkCanRead, TransactionInv, LockMatchesPc, OnlyJobStaged, WellFormed, Tabled
<1> QED
  BY <1>1 DEF TransactionInv, Base!SavesIsolated

-----------------------------------------------------------------------------
(* The saves, as a part of the sum.                                        *)

(* The followed component keeps its invariant, and stays the followed one. *)
SavesInv ==
  /\ part \in {"houses", "saves"}
  /\ part = "saves" => TransactionInv

LEMMA SavesInvInit == AnyInit => SavesInv
BY SaversAssumption, SavesInitOK DEF AnyInit, SavesInv

LEMMA SavesInvStep ==
  ASSUME SavesInv, [AnyNext]_<<houseVars, part, savesVars>>
  PROVE  SavesInv'
<1>1. CASE part = "houses" /\ part' = part
  BY <1>1 DEF SavesInv
<1>2. CASE part = "saves" /\ part' = part /\ Base!Next
  <2>1. TransactionInv'
    BY <1>2, SaversAssumption, SavesStepOK DEF SavesInv
  <2> QED BY <1>2, <2>1 DEF SavesInv
<1>3. CASE UNCHANGED <<part, savesVars>>
  <2>1. UNCHANGED Base!vars
    BY <1>3 DEF savesVars, Base!vars
  <2>2. CASE part = "saves"
    <3>1. TransactionInv'
      BY <2>1, <2>2, SaversAssumption, SavesStepOK DEF SavesInv
    <3> QED BY <1>3, <2>2, <3>1 DEF SavesInv
  <2> QED BY <1>3, <2>2 DEF SavesInv
<1> QED
  BY <1>1, <1>2, <1>3 DEF AnyNext, SavesInv

(* Whatever fails or dies, and at which statement, a save of a player or   *)
(* of the houses is stored whole or not at all (DBTransaction,             *)
(* savePlayer, saveHouseInfo, saveHouseItems), and a network thread that   *)
(* gets the lock never sees an unfinished one.                             *)
THEOREM TransactionsIsolated == AnySpec => []SavesIsolated
<1>1. SavesInv => SavesIsolated
  BY InvariantImplies DEF SavesInv, SavesIsolated
<1> QED
  BY <1>1, SavesInvInit, SavesInvStep, PTL DEF AnySpec

(* What a player had when he left the game is in the database, unless the  *)
(* three tries of Player::onRemoveCreature failed, the process died, or a  *)
(* try went on over a failure; the depot only if he opened one             *)
(* (lastDepotId in IOLoginData::savePlayer), whatever came by mail.        *)
THEOREM LogoutsDurable == AnySpec => []LogoutDurable
<1>1. SavesInv => LogoutDurable
  BY InvariantImplies DEF SavesInv, LogoutDurable
<1> QED
  BY <1>1, SavesInvInit, SavesInvStep, PTL DEF AnySpec

=============================================================================
