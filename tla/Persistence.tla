----------------------------- MODULE Persistence -----------------------------
(***************************************************************************)
(* Saving and loading (iologindata.cpp, iomapserialize.cpp, database.cpp). *)
(* The game thread writes a player, the house data or the house items as   *)
(* one transaction of many statements over a connection it shares with the *)
(* network threads.  A statement may fail, the connection may be lost (the *)
(* client library reconnects and executeQuery repeats the statement), and  *)
(* the process may die at any point.                                       *)
(*                                                                         *)
(* The contents of a table are the set of memory versions its rows come    *)
(* from: a DELETE leaves none, an INSERT adds that of memory, an UPDATE    *)
(* replaces.  A whole save leaves one version in every table.              *)
(***************************************************************************)
EXTENDS Naturals, Sequences, FiniteSets

CONSTANTS
  Players,
  NotSaved,    \* players whose column `save` is 0
  MaxVersion,  \* bound: how often the data in memory changes
  MaxFaults    \* bound: failed statements, lost connections and crashes

HouseInfo == "house info"
HouseItems == "house items"
Keys == Players \cup {HouseInfo, HouseItems}
Versions == 0..MaxVersion

\* What the proofs need of the constants.
ConstantsFit ==
  /\ Players \cap {HouseInfo, HouseItems} = {}
  /\ MaxVersion \in Nat
  /\ MaxFaults \in Nat

MaxTries == 3  \* of a logout and of Map::save

PlayerTables == {"players", "spells", "items", "depot", "storage"}
Tables(k) == IF k \in Players THEN PlayerTables
             ELSE IF k = HouseInfo THEN {"houses", "lists"} ELSE {"tiles"}

VARIABLES
  mem,      \* mem[k]: what the game holds of k, per table
  online,   \* players in the game
  opened,   \* players with lastDepotId # -1; of one who left: when he left
  clock,    \* the number of changes so far
  store,    \* store[k]: the committed rows of k
  staged,   \* what the shared connection sees
  inTxn,    \* the shared connection is in a transaction
  lock,     \* databaseLock: "free" or "game"
  job,      \* the save in progress
  todo,     \* keys saveGameState has still to save
  faults,
  saved,    \* history: what the last committed save of k was to leave
  passed,   \* history: keys whose last save passed over a failure
  unsaved   \* history: players that logged out without being saved

vars == <<mem, online, opened, clock, store, staged, inTxn, lock, job, todo,
          faults, saved, passed, unsaved>>
dataVars == <<mem, online, opened, clock, unsaved>>

NoJob == [pc |-> "none"]
Rows(v) == [k \in Keys |-> [t \in Tables(k) |-> {v}]]

TypeOK ==
  /\ online \subseteq Players /\ opened \subseteq Players
  /\ clock \in Versions /\ faults \in 0..MaxFaults
  /\ inTxn \in BOOLEAN /\ lock \in {"free", "game"}
  /\ \A k \in Keys, f \in {mem, store, staged, saved} :
       f[k] \in [Tables(k) -> SUBSET Versions]
  /\ passed \subseteq Keys /\ unsaved \subseteq Players
  /\ job.pc \in {"none", "check", "begin", "lock", "write", "commit"}
  /\ job.pc # "none" => job.key \in Keys /\ job.tries \in 1..MaxTries
  /\ todo \subseteq Keys

Init ==
  /\ mem = Rows(0) /\ store = Rows(0) /\ staged = Rows(0) /\ saved = Rows(0)
  /\ online = {} /\ opened = {} /\ clock = 0
  /\ inTxn = FALSE /\ lock = "free" /\ job = NoJob /\ todo = {}
  /\ faults = 0 /\ passed = {} /\ unsaved = {}

-----------------------------------------------------------------------------
(* What a save sends between BEGIN and COMMIT.                             *)

Update(t) == [op |-> "update", table |-> t]
Delete(t) == [op |-> "delete", table |-> t]
Insert(t) == [op |-> "insert", table |-> t]
Replace(t) == <<Delete(t), Insert(t)>>

SavePlayer(p) ==
  <<Update("players")>> \o Replace("spells") \o Replace("items")
    \o (IF p \in opened THEN Replace("depot") ELSE <<>>)
    \o Replace("storage")

SaveHouseInfo == <<Delete("lists"), Update("houses"), Insert("lists")>>
SaveHouseItems == Replace("tiles")

Statements(k) == IF k \in Players THEN SavePlayer(k)
                 ELSE IF k = HouseInfo THEN SaveHouseInfo ELSE SaveHouseItems

\* saveHouseInfo does not look at the result of its UPDATEs.
ErrorIgnored(s) == s = Update("houses")

Written(s, k, rows) ==
  [rows EXCEPT ![k][s.table] =
     CASE s.op = "update" -> mem[k][s.table]
       [] s.op = "delete" -> {}
       [] s.op = "insert" -> @ \cup mem[k][s.table]]

\* The rows a complete save of k leaves, given what is stored.
Intended(k) ==
  [t \in Tables(k) |-> IF t = "depot" /\ k \notin opened
                       THEN store[k][t] ELSE mem[k][t]]

-----------------------------------------------------------------------------
(* The transaction.                                                        *)

StartJob(k, kind, tries) ==
  job' = [pc |-> "check", key |-> k, kind |-> kind, tries |-> tries,
          step |-> 1, over |-> FALSE]

\* Mutant: a logout tries once, and takes the player for saved.
AfterOneTry(ok) ==
  IF job.kind = "logout" THEN /\ job' = NoJob
                              /\ online' = online \ {job.key}
                              /\ UNCHANGED <<todo, unsaved>>
  ELSE /\ job' = NoJob
       /\ todo' = IF job.key = HouseInfo /\ ~ok THEN {} ELSE todo
       /\ UNCHANGED <<online, unsaved>>

\* savePlayer, saveHouseInfo or saveHouseItems returned ok.  A logout and
\* Map::save try three times; saveGameState ignores what savePlayer returns;
\* without its house info Map::save does not save the house items.
Ended(ok) ==
  IF ~ok /\ job.tries > 1
  THEN /\ StartJob(job.key, job.kind, job.tries - 1)
       /\ UNCHANGED <<online, todo, unsaved>>
  ELSE /\ job' = NoJob
       /\ todo' = IF job.key = HouseInfo /\ ~ok THEN {} ELSE todo
       /\ IF job.kind = "logout"
          THEN /\ online' = online \ {job.key}
               /\ unsaved' = IF ok THEN unsaved ELSE unsaved \cup {job.key}
          ELSE UNCHANGED <<online, unsaved>>

Fault == faults < MaxFaults /\ faults' = faults + 1

\* SELECT `save`, for a player: 0 means that nothing but the login time is written.
\* Either statement may fail.
CheckSave ==
  /\ job.pc = "check"
  /\ \/ job.key \in NotSaved /\ Ended(TRUE) /\ UNCHANGED faults
     \/ /\ job.key \notin NotSaved
        /\ job' = [job EXCEPT !.pc = "begin"]
        /\ UNCHANGED <<online, todo, unsaved, faults>>
     \/ job.key \in Players /\ Fault /\ Ended(FALSE)
  /\ UNCHANGED <<mem, opened, clock, store, staged, inTxn, lock, saved, passed>>

\* BEGIN is sent under the lock, which is then given back: the lock that is
\* held for the transaction is taken afterwards.  (BEGIN commits what an open
\* transaction holds.)
SendBegin ==
  /\ job.pc = "begin" /\ lock = "free"
  /\ store' = staged
  /\ inTxn' = TRUE
  /\ job' = [job EXCEPT !.pc = "lock"]
  /\ UNCHANGED <<dataVars, staged, lock, todo, faults, saved, passed>>

TakeLock ==
  /\ job.pc = "lock" /\ lock = "free"
  /\ lock' = "game"
  /\ job' = [job EXCEPT !.pc = "write"]
  /\ UNCHANGED <<dataVars, store, staged, inTxn, todo, faults, saved, passed>>

NextStep == IF job.step = Len(Statements(job.key))
            THEN [job EXCEPT !.pc = "commit"]
            ELSE [job EXCEPT !.step = @ + 1]

Statement == Statements(job.key)[job.step]

\* The statement is executed: outside a transaction, after a reconnect, it is
\* committed at once.
Execute ==
  /\ job.pc = "write"
  /\ staged' = Written(Statement, job.key, staged)
  /\ store' = IF inTxn THEN store ELSE staged'
  /\ job' = NextStep
  /\ UNCHANGED <<dataVars, inTxn, lock, todo, faults, saved, passed>>

\* Mutant: the transaction of a save that failed stays open.
LeaveOpen ==
  /\ lock' = "free"
  /\ UNCHANGED <<staged, inTxn, store>>

\* ~DBTransaction.
Rollback ==
  /\ staged' = store
  /\ inTxn' = FALSE
  /\ lock' = "free"
  /\ UNCHANGED store

\* The save goes on as if nothing had happened.
PassOver(j) ==
  /\ job' = [j EXCEPT !.over = TRUE]
  /\ passed' = passed \cup {job.key}

\* An error other than a lost connection.
StatementFails ==
  /\ job.pc = "write" /\ Fault
  /\ \/ /\ ErrorIgnored(Statement)
        /\ PassOver(NextStep)
        /\ UNCHANGED <<online, unsaved, store, staged, inTxn, lock, todo>>
     \/ /\ ~ErrorIgnored(Statement)
        /\ Rollback
        /\ Ended(FALSE)
        /\ UNCHANGED passed
  /\ UNCHANGED <<mem, opened, clock, saved>>

\* The server drops the transaction; executeQuery repeats the statement until
\* the client library has connected again.
ConnectionLost ==
  /\ job.pc = "write" /\ Fault
  /\ staged' = store
  /\ inTxn' = FALSE
  /\ PassOver(job)
  /\ UNCHANGED <<dataVars, store, lock, todo, saved>>

\* BEGIN fails: ~DBTransaction rolls back, and gives back a lock that it does
\* not hold, which the mutex refuses.
BeginFails ==
  /\ job.pc = "begin" /\ lock = "free" /\ Fault
  /\ Rollback
  /\ Ended(FALSE)
  /\ UNCHANGED <<mem, opened, clock, saved, passed>>

Committed ==
  /\ saved' = [saved EXCEPT ![job.key] = Intended(job.key)]
  /\ passed' = IF job.over THEN passed ELSE passed \ {job.key}

Commit ==
  /\ job.pc = "commit"
  /\ store' = staged
  /\ inTxn' = FALSE
  /\ lock' = "free"
  /\ Committed
  /\ Ended(TRUE)
  /\ UNCHANGED <<mem, opened, clock, staged, faults>>

\* COMMIT fails; the server may have carried it out before the answer was lost.
CommitFails ==
  /\ job.pc = "commit" /\ Fault
  /\ \/ staged' = store /\ UNCHANGED <<store, saved, passed>>
     \/ store' = staged /\ Committed /\ UNCHANGED staged
  /\ inTxn' = FALSE
  /\ lock' = "free"
  /\ Ended(FALSE)
  /\ UNCHANGED <<mem, opened, clock>>

-----------------------------------------------------------------------------
(* The game between saves.                                                 *)

Idle == job = NoJob /\ todo = {}

\* Player::onCreatureAppear after loadPlayer: the rows become the memory.
Login(p) ==
  /\ Idle /\ p \notin online
  /\ online' = online \cup {p}
  /\ mem' = [mem EXCEPT ![p] = staged[p]]
  /\ unsaved' = unsaved \ {p}
  /\ opened' = opened \ {p}
  /\ UNCHANGED <<clock, store, staged, inTxn, lock, job, todo, faults,
                 saved, passed>>

Changed(k, ts) ==
  /\ clock < MaxVersion
  /\ clock' = clock + 1
  /\ mem' = [mem EXCEPT ![k] =
               [t \in Tables(k) |-> IF t \in ts THEN {clock + 1} ELSE @[t]]]

Plays(p, ts) ==
  /\ Idle /\ p \in online
  /\ Changed(p, ts)
  /\ UNCHANGED <<online, opened, store, staged, inTxn, lock, job, todo, faults,
                 saved, passed, unsaved>>

\* The player plays; he puts something into his depot once he has opened it.
Play(p) == Plays(p, IF p \in opened THEN PlayerTables ELSE PlayerTables \ {"depot"})

\* Mailbox::sendItem, and transferToDepot of his house: items get into the lockers
\* of a player in the game, who need not have opened one.
ReceiveItems(p) == Plays(p, {"depot"})

\* Actions::internalUseItem on a depot: setLastDepotId.
OpenDepot(p) ==
  /\ Idle /\ p \in online \ opened
  /\ opened' = opened \cup {p}
  /\ UNCHANGED <<mem, online, clock, store, staged, inTxn, lock, job, todo,
                 faults, saved, passed, unsaved>>

FurnishHouse(k) ==
  /\ Idle /\ k \in {HouseInfo, HouseItems}
  /\ Changed(k, Tables(k))
  /\ UNCHANGED <<online, opened, store, staged, inTxn, lock, job, todo, faults,
                 saved, passed, unsaved>>

\* Player::onRemoveCreature.
Logout(p) ==
  /\ Idle /\ p \in online
  /\ StartJob(p, "logout", MaxTries)
  /\ UNCHANGED <<dataVars, store, staged, inTxn, lock, todo, faults, saved, passed>>

\* Game::saveGameState: every player once, then Map::save.
SaveGameState ==
  /\ Idle
  /\ todo' = online \cup {HouseInfo, HouseItems}
  /\ UNCHANGED <<dataVars, store, staged, inTxn, lock, job, faults, saved, passed>>

SaveNext(k) ==
  /\ job = NoJob /\ k \in todo
  /\ k = HouseInfo => todo \cap Players = {}
  /\ k = HouseItems => todo = {HouseItems}
  /\ todo' = todo \ {k}
  /\ StartJob(k, "save", IF k \in Players THEN 1 ELSE MaxTries)
  /\ UNCHANGED <<dataVars, store, staged, inTxn, lock, faults, saved, passed>>

\* The process dies and is started again: the server drops the transaction,
\* houses are loaded from their rows, players when they log in.
Crash ==
  /\ Fault
  /\ online' = {} /\ todo' = {} /\ job' = NoJob
  /\ staged' = store /\ inTxn' = FALSE /\ lock' = "free"
  /\ mem' = [k \in Keys |-> IF k \in Players THEN mem[k] ELSE store[k]]
  /\ unsaved' = unsaved \cup online
  /\ UNCHANGED <<opened, clock, store, saved, passed>>

\* storeQuery of a network thread (authentication, bans) gets through.
NetworkCanRead == lock = "free"

Next ==
  \/ CheckSave \/ SendBegin \/ TakeLock \/ Execute \/ StatementFails
  \/ ConnectionLost \/ BeginFails \/ Commit \/ CommitFails
  \/ SaveGameState \/ Crash
  \/ \E p \in Players : Login(p) \/ Play(p) \/ ReceiveItems(p) \/ OpenDepot(p) \/ Logout(p)
  \/ \E k \in Keys : FurnishHouse(k) \/ SaveNext(k)

Spec == Init /\ [][Next]_vars

-----------------------------------------------------------------------------
\* A save is stored whole or not at all, whatever fails or dies and at which
\* statement: the rows of a player or of the houses are those one save meant
\* to leave.  The two ways out are that a save went on over a lost connection
\* (executeQuery repeats the statement outside the transaction) and that
\* saveHouseInfo passed over a failed UPDATE; the next clean save repairs both.
SaveIsAtomic == \A k \in Keys \ passed : store[k] = saved[k]

\* After a logout the rows are the player as he was, also when one or two of
\* the three tries failed half-way; the exceptions are reported (three failed
\* tries), a crash, and a try that went on over a lost connection.  The depot is
\* stored only for who opened one since he logged in: what came by mail to a
\* player who did not is lost.
LogoutDurable ==
  \A p \in Players \ (online \cup unsaved \cup passed \cup NotSaved) :
    \A t \in PlayerTables :
      store[p][t] = mem[p][t] \/ (t = "depot" /\ p \notin opened)

\* A query of a network thread on the shared connection never sees the rows
\* of an unfinished transaction: BEGIN is sent before the lock is taken, and
\* yet the lock covers every statement.
NoDirtyRead == NetworkCanRead => staged = store

\* Transactions of one thread stand on their own, though the connection is shared.
SavesIsolated == SaveIsAtomic /\ NoDirtyRead
=============================================================================
