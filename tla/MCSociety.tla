------------------------------ MODULE MCSociety -----------------------------
(***************************************************************************)
(* What players share, and the scripts and registries behind it, each      *)
(* component followed on its own: part names the one whose behaviour this  *)
(* is, and the variables of the others are not used.                       *)
(***************************************************************************)
EXTENDS WaitList

CONSTANTS
  Friends, Hosts, Guild, PartyRooms, Addresses, NoParty, Places, Items,
  Creatures, Conds, Classes, MaxEnv, MaxNesting, MaxHeld, MaxTimers,
  MaxResults, Keys, NoKey, MaxPerKey, MaxStrays

ASSUME PartiesAssumption == NoParty \notin Addresses  \* no object is at null

\* Objects of two kinds are not the same, and "none" (of Scripts) is no object.
ASSUME ScriptsAssumption ==
  /\ Conds \cap (Items \cup Creatures) = {}
  /\ "none" \notin Items \cup Creatures \cup Conds
  /\ MaxEnv \in Nat /\ MaxNesting \in Nat

VARIABLES
  part,  \* the component that is followed, "queue" for that of WaitList
  partyOnline, place, party, partyOf, invitedTo, chatOnline, chatPartyOf,
  users, private, envIndex, running, tempItems, where, toRelease, owner,
  garbage, timers, registry, results, registryKind, phase, book, made,
  list, bits, task, strays

Group == INSTANCE Parties WITH
  Players <- Friends, online <- partyOnline
Talk == INSTANCE Chat WITH
  Players <- Friends, Premium <- Hosts, Addresses <- PartyRooms,
  online <- chatOnline, partyOf <- chatPartyOf
Lua == INSTANCE Scripts
Reg == INSTANCE Registries WITH
  kind <- registryKind

Unused == 0  \* what the variables of the other components hold

partiesVars == <<partyOnline, place, party, partyOf, invitedTo>>
NoGroup ==
  /\ partyOnline = Unused /\ place = Unused /\ party = Unused
  /\ partyOf = Unused /\ invitedTo = Unused

chatVars == <<chatOnline, chatPartyOf, users, private>>
NoTalk ==
  /\ chatOnline = Unused /\ chatPartyOf = Unused /\ users = Unused
  /\ private = Unused

scriptsVars == <<envIndex, running, tempItems, where, toRelease, owner,
                 garbage, timers, registry, results>>
NoLua ==
  /\ envIndex = Unused /\ running = Unused /\ tempItems = Unused
  /\ where = Unused /\ toRelease = Unused /\ owner = Unused
  /\ garbage = Unused /\ timers = Unused /\ registry = Unused
  /\ results = Unused

registriesVars == <<registryKind, phase, book, made, list, bits, task,
                    strays>>
NoReg ==
  /\ registryKind = Unused /\ phase = Unused /\ book = Unused
  /\ made = Unused /\ list = Unused /\ bits = Unused
  /\ task = Unused /\ strays = Unused

AnyInit ==
  \/ part = "queue" /\ Init /\ NoGroup /\ NoTalk /\ NoLua /\ NoReg
  \/ part = "parties" /\ Init /\ Group!Init /\ NoTalk /\ NoLua /\ NoReg
  \/ part = "chat" /\ Init /\ Talk!Init /\ NoGroup /\ NoLua /\ NoReg
  \/ part = "scripts" /\ Init /\ Lua!Init /\ NoGroup /\ NoTalk /\ NoReg
  \/ part = "registries" /\ Init /\ Reg!Init /\ NoGroup /\ NoTalk /\ NoLua

AnyNext ==
  \/ part = "queue" /\ UNCHANGED <<part, partiesVars, chatVars, scriptsVars, registriesVars>>
       /\ Next
  \/ part = "parties" /\ UNCHANGED <<part, vars, chatVars, scriptsVars, registriesVars>>
       /\ Group!Next
  \/ part = "chat" /\ UNCHANGED <<part, vars, partiesVars, scriptsVars, registriesVars>>
       /\ Talk!Next
  \/ part = "scripts" /\ UNCHANGED <<part, vars, partiesVars, chatVars, registriesVars>>
       /\ Lua!Next
  \/ part = "registries" /\ UNCHANGED <<part, vars, partiesVars, chatVars, scriptsVars>>
       /\ Reg!Next

AnySpec == AnyInit /\ [][AnyNext]_<<vars, part, partiesVars, chatVars, scriptsVars, registriesVars>>

-----------------------------------------------------------------------------
\* See Parties: players and parties point at each other, and shared experience in
\* force is that of the party as it is.
PartiesAgree == part = "parties" => Group!PartiesAgree

\* See Chat: channels hold no pointer to a player who left, and a private channel
\* has its owner in it and only those who were invited.
ChannelsLive == part = "chat" => Talk!ChannelsLive

\* See Scripts: objects that scripts hold are freed under them only by a step that
\* a script makes a creature take, items they made are not lost, and no condition
\* of a creature is freed by the collector.
ObjectsSound ==
  /\ [](part = "scripts" => Lua!HandlesAlive /\ Lua!MadeItemsKept)
  /\ [][part = "scripts" => Lua!LentConditionStays]_owner

\* See Registries: callbacks, bits and timers of events agree with the registry
\* through every order of reloads.
RegistriesAgree == part = "registries" => Reg!RegistriesAgree
=============================================================================
