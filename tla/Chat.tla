-------------------------------- MODULE Chat --------------------------------
(***************************************************************************)
(* Chat channels (chat.cpp).  A channel holds raw pointers to the players  *)
(* who use it, a private channel also to those who were invited.  Normal   *)
(* channels are there from the start; the channel of a guild or a party is *)
(* made when one of its members first asks for the list of channels; a     *)
(* premium player can open one private channel.                            *)
(*                                                                         *)
(* The channel of a party is filed under the address of the Party object;  *)
(* partyOf changes here as it pleases, as Parties.tla does it.  What is    *)
(* said in a channel is left out, and so are the names.                    *)
(***************************************************************************)
EXTENDS FiniteSets

CONSTANTS
  Players,
  Premium,        \* the players who may own a private channel
  Guild,          \* the members of the one guild
  Addresses,      \* where a Party object may be
  NoParty

VARIABLES
  online,         \* the players in the game
  partyOf,        \* Player::party
  users,          \* ChatChannel::users of normal, guild and party channels
  private         \* Chat::privateChannels, by owner

vars == <<online, partyOf, users, private>>

\* The keys of normalChannels, guildChannels and partyChannels.
Normal == "normal"
GuildChannel == "guild"
Channels == {Normal, GuildChannel} \cup Addresses

PrivateChatChannel == [invites : SUBSET Players, users : SUBSET Players]

-----------------------------------------------------------------------------
IsInvited(owner, p) == p = owner \/ p \in private[owner].invites

\* Chat::getChannel: the channels p may ask for by their id; the script of
\* a normal channel may refuse.
GetChannel(p) ==
  {Normal} \cup (IF p \in Guild THEN {GuildChannel} ELSE {})
           \cup (IF partyOf[p] = NoParty THEN {} ELSE {partyOf[p]})

GetPrivateChannels(p) == {o \in DOMAIN private : IsInvited(o, p)}

\* Chat::getChannelList makes the channels of p's guild and party.
RequestChannels(p) ==
  /\ users' = [c \in DOMAIN users \cup GetChannel(p) |->
                 IF c \in DOMAIN users THEN users[c] ELSE {}]
  /\ UNCHANGED <<online, partyOf, private>>

\* Chat::createChannel for CHANNEL_PRIVATE, and addUser
CreatePrivateChannel(p) ==
  /\ p \in Premium \ DOMAIN private
  /\ private' = [o \in DOMAIN private \cup {p} |->
                   IF o = p THEN [invites |-> {}, users |-> {p}] ELSE private[o]]
  /\ UNCHANGED <<online, partyOf, users>>

ChannelInvite(p, guest) ==
  /\ p \in DOMAIN private
  /\ p # guest
  /\ private' = [private EXCEPT ![p].invites = @ \cup {guest}]
  /\ UNCHANGED <<online, partyOf, users>>

\* PrivateChatChannel::excludePlayer
Excluded(channel, guest) ==
  IF guest \in channel.invites
  THEN [invites |-> channel.invites \ {guest}, users |-> channel.users \ {guest}]
  ELSE channel

ChannelExclude(p, guest) ==
  /\ p \in DOMAIN private
  /\ p # guest
  /\ private' = [private EXCEPT ![p] = Excluded(@, guest)]
  /\ UNCHANGED <<online, partyOf, users>>

\* Chat::addUserToChannel
OpenChannel(p) ==
  \/ /\ \E c \in GetChannel(p) \cap DOMAIN users :
          users' = [users EXCEPT ![c] = @ \cup {p}]
     /\ UNCHANGED <<online, partyOf, private>>
  \/ /\ \E o \in GetPrivateChannels(p) :
          private' = [private EXCEPT ![o].users = @ \cup {p}]
     /\ UNCHANGED <<online, partyOf, users>>

\* Chat::removeUserFromChannel: with its owner a private channel goes.
CloseChannel(p) ==
  \/ /\ \E c \in GetChannel(p) \cap DOMAIN users :
          users' = [users EXCEPT ![c] = @ \ {p}]
     /\ UNCHANGED <<online, partyOf, private>>
  \/ /\ \E o \in GetPrivateChannels(p) :
          /\ p \in private[o].users
          /\ private' = IF o = p
                        THEN [q \in DOMAIN private \ {p} |-> private[q]]
                        ELSE [private EXCEPT ![o].users = @ \ {p}]
     /\ UNCHANGED <<online, partyOf, users>>

\* Mutant: only the channels p could ask for are searched.
UsersWithoutReachable(p) ==
  [c \in DOMAIN users |-> IF c \in GetChannel(p) THEN users[c] \ {p} ELSE users[c]]

\* Chat::removeUserFromAllChannels: every channel there is, whoever may
\* still reach it
UsersWithout(p) == [c \in DOMAIN users |-> users[c] \ {p}]

PrivateWithout(p) ==
  [o \in DOMAIN private \ {p} |->
     [invites |-> private[o].invites \ {p}, users |-> private[o].users \ {p}]]

Logout(p) ==
  /\ users' = UsersWithout(p)
  /\ private' = PrivateWithout(p)
  /\ partyOf' = [partyOf EXCEPT ![p] = NoParty]
  /\ online' = online \ {p}

Login(p) ==
  /\ p \notin online
  /\ online' = online \cup {p}
  /\ UNCHANGED <<partyOf, users, private>>

\* Player::setParty; closing the party channel comes after it
\* (party.cpp:45, 63, 113) and no longer finds the channel.
SetParty(p) ==
  /\ \E a \in (Addresses \cup {NoParty}) \ {partyOf[p]} :
       partyOf' = [partyOf EXCEPT ![p] = a]
  /\ UNCHANGED <<online, users, private>>

\* Chat::load at /reload chat: the users of a normal channel join again,
\* and its new script may refuse some.
Load ==
  /\ \E again \in SUBSET users[Normal] : users' = [users EXCEPT ![Normal] = again]
  /\ UNCHANGED <<online, partyOf, private>>

Init ==
  /\ online = {}
  /\ partyOf = [p \in Players |-> NoParty]
  /\ users = [c \in {Normal} |-> {}]
  /\ private = << >>

Next ==
  \/ \E p \in Players : Login(p)
  \/ \E p \in online :
       \/ RequestChannels(p)
       \/ CreatePrivateChannel(p)
       \/ \E guest \in online : ChannelInvite(p, guest) \/ ChannelExclude(p, guest)
       \/ OpenChannel(p)
       \/ CloseChannel(p)
       \/ SetParty(p)
       \/ Logout(p)
  \/ Load

Spec == Init /\ [][Next]_vars

-----------------------------------------------------------------------------
(***************************************************************************)
(* No channel holds a pointer to a player who has left, although the       *)
(* player may no longer be able to name the channel (a party he has left). *)
(* A private channel has an owner who is in the game and in the channel -  *)
(* only his leaving it deletes it - and only users whom he has invited.    *)
(***************************************************************************)
ChannelsLive ==
  /\ \A c \in DOMAIN users : users[c] \subseteq online
  /\ private \in [DOMAIN private -> PrivateChatChannel]
  /\ \A o \in DOMAIN private :
       /\ o \in private[o].users
       /\ private[o].users \subseteq private[o].invites \cup {o}
       /\ private[o].invites \subseteq online \ {o}

\* Those who use the channel of a party belong to it.  The code does not
\* keep this: see SetParty.
PartyTalkPrivate ==
  \A a \in DOMAIN users \cap Addresses : \A p \in users[a] : partyOf[p] = a
=============================================================================
