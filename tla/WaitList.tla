------------------------------ MODULE WaitList ------------------------------
(***************************************************************************)
(* The login queue (waitlist.cpp, and its use in ProtocolGame::login).     *)
(* When the server is full a player gets a place in one of two lists, is   *)
(* told to try again later, and is let in when the seats that are left     *)
(* reach down to that place.  Everything runs on the dispatcher's thread.  *)
(*                                                                         *)
(* Times are in units of five seconds: getTime() and the 15 seconds of     *)
(* grace are multiples of it.  Two times equal in these units need not be  *)
(* equal in the code's milliseconds.                                       *)
(***************************************************************************)
EXTENDS Integers, Sequences, FiniteSets, SequencesExt

CONSTANTS
  Players,
  Premium,        \* players with a premium account
  AlwaysLogin,    \* game masters and players with PlayerFlag_CanAlwaysLogin
  MaxPlayers,     \* config MAX_PLAYERS, 0 for no limit
  MaxTime,        \* bound on the clock
  SizeModulus     \* 2^64 in the code: std::size_t

ASSUME WaitListAssumption ==
  /\ Premium \subseteq Players
  /\ AlwaysLogin \subseteq Players
  /\ MaxPlayers \in Nat
  /\ MaxTime \in Nat
  /\ SizeModulus \in Nat \ {0}

VARIABLES
  priorityWaitList, \* WaitListInfo::priorityWaitList
  waitList,         \* WaitListInfo::waitList
  prioritySize,     \* what priorityWaitList.size() returns
  waitSize,         \* what waitList.size() returns
  online,           \* Game::players
  now               \* OTSYS_TIME()

vars == <<priorityWaitList, waitList, prioritySize, waitSize, online, now>>

Wait == [timeout : Nat, playerGUID : Players]
Size == 0 .. SizeModulus - 1

TypeOK ==
  /\ priorityWaitList \in Seq(Wait)
  /\ waitList \in Seq(Wait)
  /\ prioritySize \in Size
  /\ waitSize \in Size
  /\ online \subseteq Players
  /\ now \in Nat

Init ==
  /\ priorityWaitList = <<>>
  /\ waitList = <<>>
  /\ prioritySize = 0
  /\ waitSize = 0
  /\ online = {}
  /\ now = 0

-----------------------------------------------------------------------------
(* WaitingList::getTime and getTimeout, in units of five seconds.          *)
getTime(slot) ==
  IF slot < 5 THEN 1
  ELSE IF slot < 10 THEN 2
  ELSE IF slot < 20 THEN 4
  ELSE IF slot < 50 THEN 12
  ELSE 24

getTimeout(slot) == getTime(slot) + 3

(* cleanupList.  timeout is unsigned and time is converted to unsigned, so *)
(* timeout - time <= 0 holds only when the two are equal: an entry that is *)
(* past its time is kept.                                                  *)
Expires(w) == w.timeout = now

(* What cleanupList may keep of a list, in order: all that do not expire;  *)
(* those that expire in this very unit are erased if the milliseconds agree*)
(* too.                                                                    *)
Remaining(list) ==
  {f \in UNION {[1 .. n -> DOMAIN list] : n \in 0 .. Len(list)} :
     /\ \A i, j \in DOMAIN f : i < j => f[i] < f[j]
     /\ {i \in DOMAIN list : ~Expires(list[i])} \subseteq {f[i] : i \in DOMAIN f}}

(* Without an entry that expires, just the list.                           *)
Cleaned(list) ==
  IF \A i \in DOMAIN list : ~Expires(list[i]) THEN {list}
  ELSE {[i \in DOMAIN f |-> list[f[i]]] : f \in Remaining(list)}

(* WaitListInfo::findClient on the two lists: the slot, or 0.              *)
FindClient(p, prio, wait) ==
  LET all == prio \o wait
      places == {i \in DOMAIN all : all[i].playerGUID = p}
  IN  IF places = {} THEN 0 ELSE CHOOSE i \in places : \A j \in places : i <= j

\* Mutant: a renewed entry goes to the end of its list.
RenewedAtEnd(list, i, t) ==
  Append(RemoveAt(list, i), [list[i] EXCEPT !.timeout = t])

(* The list with the timeout of its i-th entry renewed.                    *)
Renewed(list, i, t) == [list EXCEPT ![i].timeout = t]

Minus(size, n) == (size - n) % SizeModulus
Plus(size, n) == (size + n) % SizeModulus

NewEntry(p, slot) == [timeout |-> now + getTimeout(slot), playerGUID |-> p]

(* waitList.erase(it) also when it points into priorityWaitList: the node  *)
(* leaves the list it is in, and the size of waitList is decremented.      *)
EraseAt(slot, prio, wait, wsize) ==
  /\ IF slot <= Len(prio)
     THEN priorityWaitList' = RemoveAt(prio, slot) /\ waitList' = wait
     ELSE priorityWaitList' = prio /\ waitList' = RemoveAt(wait, slot - Len(prio))
  /\ waitSize' = Minus(wsize, 1)

Full == Cardinality(online) >= MaxPlayers

Unlimited(p) ==
  \/ p \in AlwaysLogin
  \/ MaxPlayers = 0
  \/ priorityWaitList = <<>> /\ waitList = <<>> /\ ~Full

(* clientLogin returns true: loadPlayerById and placeCreature follow, and  *)
(* either may fail.                                                        *)
Admitted(p) == online' = online \cup {p} \/ online' = online

(* clientLogin when the player is let in without looking at the lists.     *)
LoginUnlimited(p) ==
  /\ p \notin online
  /\ Unlimited(p)
  /\ Admitted(p)
  /\ UNCHANGED <<priorityWaitList, waitList, prioritySize, waitSize, now>>

(* clientLogin otherwise, after the two cleanups have left prio and wait.  *)
LoginQueued(p, prio, wait) ==
  LET psize == Minus(prioritySize, Len(priorityWaitList) - Len(prio))
      wsize == Minus(waitSize, Len(waitList) - Len(wait))
      slot == FindClient(p, prio, wait)
      renewed == now + getTimeout(slot)
  IN  \/ /\ slot # 0
         /\ Cardinality(online) + slot <= MaxPlayers
         /\ EraseAt(slot, prio, wait, wsize)
         /\ prioritySize' = psize
         /\ Admitted(p)
      \/ /\ slot # 0
         /\ Cardinality(online) + slot > MaxPlayers
         /\ IF slot <= Len(prio)
            THEN /\ priorityWaitList' = Renewed(prio, slot, renewed)
                 /\ waitList' = wait
            ELSE /\ priorityWaitList' = prio
                 /\ waitList' = Renewed(wait, slot - Len(prio), renewed)
         /\ prioritySize' = psize
         /\ waitSize' = wsize
         /\ UNCHANGED online
      \/ /\ slot = 0
         /\ IF p \in Premium
            THEN /\ priorityWaitList' = Append(prio, NewEntry(p, Plus(psize, 1)))
                 /\ waitList' = wait
                 /\ prioritySize' = Plus(psize, 1)
                 /\ waitSize' = wsize
            ELSE /\ priorityWaitList' = prio
                 /\ waitList' =
                      Append(wait, NewEntry(p, Plus(Plus(psize, wsize), 1)))
                 /\ prioritySize' = psize
                 /\ waitSize' = Plus(wsize, 1)
         /\ UNCHANGED online

ClientLogin(p) ==
  /\ p \notin online
  /\ ~Unlimited(p)
  /\ \E prio \in Cleaned(priorityWaitList), wait \in Cleaned(waitList) :
       LoginQueued(p, prio, wait)
  /\ UNCHANGED now

Logout(p) ==
  /\ p \in online
  /\ online' = online \ {p}
  /\ UNCHANGED <<priorityWaitList, waitList, prioritySize, waitSize, now>>

Tick ==
  /\ now < MaxTime
  /\ now' = now + 1
  /\ UNCHANGED <<priorityWaitList, waitList, prioritySize, waitSize, online>>

Next ==
  \/ \E p \in Players : LoginUnlimited(p) \/ ClientLogin(p) \/ Logout(p)
  \/ Tick

Spec == Init /\ [][Next]_vars

-----------------------------------------------------------------------------
Slot(p) == FindClient(p, priorityWaitList, waitList)

(* A player waits at one place only, however often the client retries and  *)
(* whatever cleanups happen between, and never while being online.         *)
OnePlacePerPlayer ==
  LET all == priorityWaitList \o waitList
  IN  /\ \A i, j \in DOMAIN all :
           all[i].playerGUID = all[j].playerGUID => i = j
      /\ \A i \in DOMAIN all : all[i].playerGUID \notin online \cup AlwaysLogin

(* Whoever comes in from the queue leaves seats for everybody ahead, and   *)
(* a newcomer comes in directly only if nobody waits: no player overtakes  *)
(* another into the last seat.                                             *)
NobodyOvertakes ==
  [][\A p \in Players \ AlwaysLogin :
       (MaxPlayers # 0 /\ p \in online' \ online) =>
         /\ Cardinality(online') <= MaxPlayers
         /\ \A q \in Players :
              (Slot(q) # 0 /\ (Slot(p) = 0 \/ Slot(q) < Slot(p)) /\ Slot(q)' # 0)
                => Cardinality(online') + Slot(q)' <= MaxPlayers]_vars

(* A premium player's place is never pushed back while the entry lasts:    *)
(* later arrivals, retries and logins only move it forward.                *)
EntryExpires(p) ==
  \E i \in DOMAIN priorityWaitList :
    priorityWaitList[i].playerGUID = p /\ Expires(priorityWaitList[i])

PremiumPlaceKept ==
  [][\A p \in Premium :
       (Slot(p) # 0 /\ Slot(p)' # 0 /\ ~EntryExpires(p))
         => Slot(p)' <= Slot(p)]_vars

(* What the comment in getTimeout says the timeout is for ("15 seconds     *)
(* longer than expected retry attempt"): a client that has not retried by  *)
(* then has lost its place when clientLogin has cleaned up the lists.      *)
NoStaleEntries ==
  [][(\E p \in Players : ClientLogin(p)) =>
       /\ \A i \in DOMAIN priorityWaitList' : priorityWaitList'[i].timeout >= now
       /\ \A i \in DOMAIN waitList' : waitList'[i].timeout >= now]_vars

(* Places in the queue: one for each player, in order, and kept.           *)
PlacesKept == []TypeOK /\ []OnePlacePerPlayer /\ NobodyOvertakes /\ PremiumPlaceKept
=============================================================================
