------------------------------- MODULE Houses -------------------------------
(***************************************************************************)
(* A house (house.cpp, housetile.cpp, bed.cpp): who owns it, who may be in *)
(* it, the bed, the items on its tiles and what becomes of them when the   *)
(* owner changes, and the transfer of the house by a trade.  Players are   *)
(* in the game or not; a player who is not exists as rows only, and is     *)
(* edited by loading a copy, changing it and saving it.                    *)
(***************************************************************************)
EXTENDS Naturals, FiniteSets

CONSTANTS
  Players,
  HouseGoods,   \* pickupable items that can be carried, stored or left inside
  NoPlayer,
  MaxWarnings   \* 7 in the code

ASSUME HousesAssumption == NoPlayer \notin Players /\ MaxWarnings \in Nat

VARIABLES
  owner, guests, subowners,  \* House::owner, guestList, subOwnerList
  place,      \* place[p]: "offline", "outside" or "inside"
  sleeper,    \* BedItem::sleeperGUID, of both halves
  asleep,     \* Game::bedSleepersMap: players whose bed this is
  kicks,      \* scheduled kickPlayer events of players that went to bed
  onTiles,    \* items on the house tiles
  inv, locker,\* what a player in the game carries and has in his locker
  depotUsed,  \* players with lastDepotId # -1
  rows,       \* rows[p]: what is stored of p
  deed,       \* House::transferItem: seller and buyer of the trade
  rentWarnings,
  lost        \* history: items that are nowhere any more

houseVars == <<owner, guests, subowners, place, sleeper, asleep, kicks, onTiles,
               inv, locker, depotUsed, rows, deed, rentWarnings, lost>>

NoDeed == [from |-> NoPlayer, to |-> NoPlayer]
InGame(p) == place[p] # "offline"

TypeOK ==
  /\ owner \in Players \cup {NoPlayer} /\ sleeper \in Players \cup {NoPlayer}
  /\ guests \subseteq Players /\ subowners \subseteq Players
  /\ place \in [Players -> {"offline", "outside", "inside"}]
  /\ asleep \subseteq Players /\ kicks \subseteq Players
  /\ onTiles \subseteq HouseGoods /\ lost \subseteq HouseGoods
  /\ inv \in [Players -> SUBSET HouseGoods]
  /\ locker \in [Players -> SUBSET HouseGoods]
  /\ depotUsed \subseteq Players
  /\ rows \in [Players -> [inv : SUBSET HouseGoods, depot : SUBSET HouseGoods,
                           inHouse : BOOLEAN]]
  /\ rentWarnings \in 0..MaxWarnings

\* The first owner has everything at home; nobody is in the game.
Init ==
  /\ owner \in Players /\ guests = {} /\ subowners = {}
  /\ place = [p \in Players |-> "offline"]
  /\ sleeper = NoPlayer /\ asleep = {} /\ kicks = {}
  /\ onTiles = HouseGoods
  /\ inv = [p \in Players |-> {}] /\ locker = [p \in Players |-> {}]
  /\ depotUsed = {}
  /\ rows = [p \in Players |-> [inv |-> {}, depot |-> {}, inHouse |-> FALSE]]
  /\ deed = NoDeed /\ rentWarnings = 0 /\ lost = {}

-----------------------------------------------------------------------------
(* Access.                                                                 *)

\* getHouseAccessLevel: owner 3, subowner 2, guest 1, not invited 0.
Level(p, o, subs, gs) ==
  IF p = o THEN 3 ELSE IF p \in subs THEN 2 ELSE IF p \in gs THEN 1 ELSE 0

AccessLevel(p) == Level(p, owner, subowners, guests)

\* Mutant: the new list applies to those who come in, not to those inside.
NobodyKicked(o, subs, gs) == place' = place

\* setAccessList: whoever is inside and not invited any more is kicked.
KickUninvited(o, subs, gs) ==
  place' = [p \in Players |->
              IF place[p] = "inside" /\ Level(p, o, subs, gs) = 0
              THEN "outside" ELSE place[p]]

\* canEditAccessList; the answer to the edit window is checked again.  Whoever
\* edits a list does the same to it.
Editors(level) == {p \in Players : InGame(p) /\ AccessLevel(p) >= level}

EditGuests ==
  /\ Editors(2) # {}
  /\ UNCHANGED <<owner, subowners, sleeper, asleep, kicks, onTiles, inv, locker,
                 depotUsed, rows, deed, rentWarnings, lost>>
  /\ \E S \in SUBSET Players :
       guests' = S /\ KickUninvited(owner, subowners, S)

EditSubowners ==
  /\ Editors(3) # {}
  /\ UNCHANGED <<owner, guests, sleeper, asleep, kicks, onTiles, inv, locker,
                 depotUsed, rows, deed, rentWarnings, lost>>
  /\ \E S \in SUBSET Players :
       subowners' = S /\ KickUninvited(owner, S, guests)

KickPlayer(p, q) ==
  /\ InGame(p) /\ place[q] = "inside"
  /\ AccessLevel(p) >= AccessLevel(q)
  /\ place' = [place EXCEPT ![q] = "outside"]
  /\ UNCHANGED <<owner, guests, subowners, sleeper, asleep, kicks, onTiles, inv,
                 locker, depotUsed, rows, deed, rentWarnings, lost>>

\* HouseTile::queryAdd.
Walk(p) ==
  /\ InGame(p)
  /\ \/ place[p] = "outside" /\ AccessLevel(p) > 0
        /\ place' = [place EXCEPT ![p] = "inside"]
     \/ place[p] = "inside" /\ place' = [place EXCEPT ![p] = "outside"]
  /\ UNCHANGED <<owner, guests, subowners, sleeper, asleep, kicks, onTiles, inv,
                 locker, depotUsed, rows, deed, rentWarnings, lost>>

-----------------------------------------------------------------------------
(* Loading and saving a player.                                            *)

\* Mutant: the rows of the depot are added to, not replaced.
StoredOnTop(p) ==
  [inv |-> inv[p],
   depot |-> rows[p].depot \cup locker[p],
   inHouse |-> place[p] = "inside"]

\* savePlayer of a player in the game: lockers and chests are written only
\* when the player has used a depot (lastDepotId).
Stored(p) ==
  [inv |-> inv[p],
   depot |-> IF p \in depotUsed THEN locker[p] ELSE rows[p].depot,
   inHouse |-> place[p] = "inside"]

\* What of the locker's contents savePlayer does not write.
NotWritten(p) == IF p \in depotUsed THEN {} ELSE locker[p] \ rows[p].depot

\* getDepotLocker(p) is given items: that of the player in the game, or that
\* of a copy, which is saved at once and whose lastDepotId is -1.
AddToLocker(p, items) ==
  IF InGame(p) THEN locker' = [locker EXCEPT ![p] = @ \cup items]
                    /\ lost' = lost
  ELSE locker' = locker /\ lost' = lost \cup items

LeaveGame(p) ==
  /\ place' = [place EXCEPT ![p] = "offline"]
  /\ rows' = [rows EXCEPT ![p] = Stored(p)]
  /\ lost' = lost \cup NotWritten(p)
  /\ inv' = [inv EXCEPT ![p] = {}]
  /\ locker' = [locker EXCEPT ![p] = {}]
  /\ depotUsed' = depotUsed \ {p}
  /\ deed' = IF p \in {deed.from, deed.to} THEN NoDeed ELSE deed

Logout(p) ==
  /\ InGame(p)
  /\ LeaveGame(p)
  /\ UNCHANGED <<owner, guests, subowners, sleeper, asleep, kicks, onTiles,
                 rentWarnings>>

\* wakeUp, called with the player.
WakeUp(p) ==
  /\ sleeper' = IF p \in asleep THEN NoPlayer ELSE sleeper
  /\ asleep' = asleep \ {p}

\* Placed at the login position; HouseTile::queryDestination sends whoever is
\* not invited to the entry.
Login(p) ==
  /\ ~InGame(p)
  /\ place' = [place EXCEPT ![p] = IF rows[p].inHouse /\ AccessLevel(p) > 0
                                   THEN "inside" ELSE "outside"]
  /\ inv' = [inv EXCEPT ![p] = rows[p].inv]
  /\ locker' = [locker EXCEPT ![p] = rows[p].depot]
  /\ WakeUp(p)
  /\ UNCHANGED <<owner, guests, subowners, kicks, onTiles, depotUsed, rows, deed,
                 rentWarnings, lost>>

-----------------------------------------------------------------------------
(* Items.                                                                  *)

DropInHouse(p, i) ==
  /\ place[p] = "inside" /\ i \in inv[p]
  /\ inv' = [inv EXCEPT ![p] = @ \ {i}]
  /\ onTiles' = onTiles \cup {i}
  /\ UNCHANGED <<owner, guests, subowners, place, sleeper, asleep, kicks, locker,
                 depotUsed, rows, deed, rentWarnings, lost>>

TakeFromHouse(p, i) ==
  /\ place[p] = "inside" /\ i \in onTiles
  /\ inv' = [inv EXCEPT ![p] = @ \cup {i}]
  /\ onTiles' = onTiles \ {i}
  /\ UNCHANGED <<owner, guests, subowners, place, sleeper, asleep, kicks, locker,
                 depotUsed, rows, deed, rentWarnings, lost>>

\* Using a depot sets lastDepotId; then items go in and out.
UseDepot(p, i) ==
  /\ place[p] = "outside"
  /\ depotUsed' = depotUsed \cup {p}
  /\ \/ /\ i \in inv[p]
        /\ inv' = [inv EXCEPT ![p] = @ \ {i}]
        /\ locker' = [locker EXCEPT ![p] = @ \cup {i}]
     \/ /\ i \in locker[p]
        /\ inv' = [inv EXCEPT ![p] = @ \cup {i}]
        /\ locker' = [locker EXCEPT ![p] = @ \ {i}]
  /\ UNCHANGED <<owner, guests, subowners, place, sleeper, asleep, kicks, onTiles,
                 rows, deed, rentWarnings, lost>>

\* Mailbox::sendItem.
SendMail(p, q, i) ==
  /\ InGame(p) /\ i \in inv[p]
  /\ inv' = [inv EXCEPT ![p] = @ \ {i}]
  /\ AddToLocker(q, {i})
  /\ UNCHANGED <<owner, guests, subowners, place, sleeper, asleep, kicks, onTiles,
                 depotUsed, rows, deed, rentWarnings>>

-----------------------------------------------------------------------------
(* The bed.                                                                *)

\* canUse, trySleep and sleep on a free bed: the player is put onto the bed
\* even if he is not invited, and is kicked by a scheduled event.  A second
\* use has to wait longer than that event.
Sleep(p) ==
  /\ InGame(p) /\ sleeper = NoPlayer /\ p \notin kicks
  /\ sleeper' = p
  /\ asleep' = asleep \cup {p}
  /\ place' = [place EXCEPT ![p] = "inside"]
  /\ kicks' = kicks \cup {p}
  /\ UNCHANGED <<owner, guests, subowners, onTiles, inv, locker, depotUsed, rows,
                 deed, rentWarnings, lost>>

\* The event finds the player by id, also if he has logged in again since.
KickSleeper(p) ==
  /\ p \in kicks
  /\ kicks' = kicks \ {p}
  /\ IF InGame(p) THEN LeaveGame(p)
     ELSE UNCHANGED <<place, rows, lost, inv, locker, depotUsed, deed>>
  /\ UNCHANGED <<owner, guests, subowners, sleeper, asleep, onTiles, rentWarnings>>

\* trySleep of the owner on a bed in use.
WakeSleeper(p) ==
  /\ InGame(p) /\ p = owner /\ sleeper # NoPlayer
  /\ WakeUp(sleeper)
  /\ UNCHANGED <<owner, guests, subowners, place, kicks, onTiles, inv, locker,
                 depotUsed, rows, deed, rentWarnings, lost>>

-----------------------------------------------------------------------------
(* Ownership.                                                              *)

\* House::setOwner.  When there was an owner his items go to his depot,
\* everyone is kicked, the bed is left and the access lists are cleared.
SetOwner(p) ==
  IF owner = p
  THEN UNCHANGED <<owner, guests, subowners, place, sleeper, asleep, onTiles,
                   locker, rentWarnings, lost>>
  ELSE /\ owner' = p
       /\ rentWarnings' = 0
       /\ IF owner = NoPlayer
          THEN UNCHANGED <<guests, subowners, place, sleeper, asleep, onTiles,
                           locker, lost>>
          ELSE /\ onTiles' = {}
               /\ AddToLocker(owner, onTiles)
               /\ KickUninvited(NoPlayer, {}, {})
               /\ sleeper' = NoPlayer
               /\ asleep' = asleep \ {sleeper}
               /\ subowners' = {} /\ guests' = {}

\* luaHouseSetOwnerGuid, for a player who buys the house and for the owner
\* who leaves it.
BuyOrLeave(p) ==
  /\ InGame(p)
  /\ \/ owner = NoPlayer /\ SetOwner(p)
     \/ owner = p /\ place[p] = "inside" /\ SetOwner(NoPlayer)
  /\ UNCHANGED <<kicks, inv, depotUsed, rows, deed>>

\* luaHouseStartTrade: the deed is created once.
StartTrade(p, q) ==
  /\ InGame(p) /\ InGame(q) /\ p # q
  /\ owner = p /\ deed = NoDeed
  /\ deed' = [from |-> p, to |-> q]
  /\ UNCHANGED <<owner, guests, subowners, place, sleeper, asleep, kicks, onTiles,
                 inv, locker, depotUsed, rows, rentWarnings, lost>>

\* onTradeEvent: executeTransfer, or resetTransferItem.
EndTrade ==
  /\ deed # NoDeed
  /\ \/ SetOwner(deed.to)
     \/ UNCHANGED <<owner, guests, subowners, place, sleeper, asleep, onTiles,
                    locker, rentWarnings, lost>>
  /\ deed' = NoDeed
  /\ UNCHANGED <<kicks, inv, depotUsed, rows>>

\* The server is started again after a shutdown that saved everything:
\* payHouses collects the rent, warns, or takes the house back.
Restart ==
  /\ \A p \in Players : ~InGame(p)
  /\ owner # NoPlayer
  /\ kicks' = {}
  /\ \/ /\ rentWarnings < MaxWarnings
        /\ rentWarnings' = rentWarnings + 1
        /\ UNCHANGED <<owner, guests, subowners, place, sleeper, asleep, onTiles,
                       locker, lost>>
     \/ rentWarnings = MaxWarnings /\ SetOwner(NoPlayer)
  /\ UNCHANGED <<inv, depotUsed, rows, deed>>

Next ==
  \/ \E p \in Players :
       \/ Walk(p) \/ Login(p) \/ Logout(p)
       \/ Sleep(p) \/ KickSleeper(p) \/ WakeSleeper(p) \/ BuyOrLeave(p)
       \/ \E q \in Players : KickPlayer(p, q) \/ StartTrade(p, q)
       \/ \E i \in HouseGoods :
            \/ DropInHouse(p, i) \/ TakeFromHouse(p, i) \/ UseDepot(p, i)
            \/ \E q \in Players : SendMail(p, q, i)
  \/ EditGuests \/ EditSubowners \/ EndTrade \/ Restart

Spec == Init /\ [][Next]_houseVars

-----------------------------------------------------------------------------
\* Whoever stands in the house is invited: no order of list edits, sales,
\* transfers, logins and kicks leaves someone behind.  The one exception is a
\* player who has just gone to bed (canUse does not ask for an invitation) and
\* is about to be kicked.
InvitedInside ==
  \A p \in Players : place[p] = "inside" => AccessLevel(p) > 0 \/ p \in kicks

\* The bed and bedSleepersMap agree, and whoever is in bed is out of the game
\* or about to be kicked: a player in the game is never also asleep, however
\* the kick, a logout, the owner and a change of owner follow each other.
SleepersAgree ==
  /\ asleep = {sleeper} \ {NoPlayer}
  /\ \A p \in asleep : ~InGame(p) \/ p \in kicks

Held(p) == IF InGame(p) THEN inv[p] ELSE rows[p].inv
Kept(p) == IF InGame(p) THEN locker[p] ELSE rows[p].depot

\* No item is at two places: although the depot is written only when it was
\* used, what comes back at the next login is not also somewhere else.
NoDuplicates ==
  \A i \in HouseGoods :
    Cardinality({p \in Players : i \in Held(p)})
      + Cardinality({p \in Players : i \in Kept(p)})
      + (IF i \in onTiles THEN 1 ELSE 0) <= 1

\* "send items to depot" (house.cpp:58): what lies in a house when its owner
\* changes is in his depot afterwards.
ItemsReachDepot ==
  [][(owner # NoPlayer /\ owner' # owner) =>
       onTiles \subseteq (IF InGame(owner) THEN locker'[owner]
                          ELSE rows'[owner].depot)]_houseVars


\* Who may be in a house is in it or was put out, and who sleeps there is known
\* to the bed and to the player.
HouseholdAgrees == InvitedInside /\ SleepersAgree
=============================================================================
