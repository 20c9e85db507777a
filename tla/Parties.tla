------------------------------- MODULE Parties -------------------------------
(***************************************************************************)
(* Parties of players (party.cpp) and the commands of the game that reach  *)
(* them (game.cpp).  A Party is an object that its leader and members      *)
(* point to and that points back at them; invitations are kept on both     *)
(* sides.  It deletes itself when nobody is left in it.  Shared experience *)
(* is switched on by the leader (active), and in force (enabled) while all *)
(* are near the leader and have lately fought or healed; what is in force  *)
(* is kept, and computed again whenever the code believes it may change.   *)
(*                                                                         *)
(* Two places are in range of each other only if they are the same; levels *)
(* are taken to fit; an action is "recent" until PZ_LOCKED has passed.     *)
(* The scripts onLeave and onDisband are those of data/events, which never *)
(* refuse; onJoin may.                                                     *)
(***************************************************************************)
EXTENDS Naturals, Sequences, FiniteSets, Functions

CONSTANTS
  Players,        \* those who log in and out
  Addresses,      \* where a Party object may be allocated, again and again
  NoParty,        \* the null pointer
  Places          \* where players stand

VARIABLES
  online,         \* the players in the game
  place,          \* Player::getPosition()
  party,          \* the Party objects alive, by address
  partyOf,        \* Player::party
  invitedTo       \* Player::invitePartyList

vars == <<online, place, party, partyOf, invitedTo>>

\* The state Party's methods change, so that they can call each other.
State == [party |-> party, partyOf |-> partyOf, invitedTo |-> invitedTo]

Become(s) ==
  /\ party' = s.party
  /\ partyOf' = s.partyOf
  /\ invitedTo' = s.invitedTo

\* A party as Party(leader) makes it.
NewParty(p) ==
  [leader |-> p, members |-> <<>>, invites |-> {}, ticks |-> << >>,
   active |-> FALSE, enabled |-> FALSE]

\* f with v at x, which may be new to it.
With(f, x, v) == [y \in DOMAIN f \cup {x} |-> IF y = x THEN v ELSE f[y]]

\* std::find and erase; a player is in a list once.
Erased(players, p) ==
  IF p \notin Range(players) THEN players
  ELSE LET i == CHOOSE j \in DOMAIN players : players[j] = p
       IN  [j \in 1 .. Len(players) - 1 |-> players[IF j < i THEN j ELSE j + 1]]

Company(q) == {q.leader} \cup Range(q.members)
Empty(q) == q.members = <<>> /\ q.invites = {}

-----------------------------------------------------------------------------
\* Party, what one party does to itself

\* where: the places at the time of the call
CanUseSharedExperience(q, p, where) ==
  /\ q.members # <<>>
  /\ where[q.leader] = where[p]
  /\ p \in DOMAIN q.ticks
  /\ q.ticks[p] = "recent"

CanEnableSharedExperience(q, where) ==
  \A p \in Company(q) : CanUseSharedExperience(q, p, where)

UpdateSharedExperience(q, where) ==
  IF q.active
  THEN [q EXCEPT !.enabled = CanEnableSharedExperience(q, where)]
  ELSE q

SetSharedExperience(q, on) ==
  [q EXCEPT !.active = on,
            !.enabled = IF on /\ ~q.active
                        THEN CanEnableSharedExperience(q, place) ELSE @]

UpdatePlayerTicks(q, p) ==
  UpdateSharedExperience(
    [q EXCEPT !.ticks = With(@, p, "recent")], place)

ClearPlayerPoints(q, p) ==
  IF p \in DOMAIN q.ticks
  THEN UpdateSharedExperience(
         [q EXCEPT !.ticks = [r \in DOMAIN q.ticks \ {p} |-> q.ticks[r]]], place)
  ELSE q

\* The old leader becomes the first of the members.
PassPartyLeadership(q, p) ==
  UpdateSharedExperience(
    [q EXCEPT !.leader = p,
              !.members = <<q.leader>> \o Erased(q.members, p)], place)

-----------------------------------------------------------------------------
\* Party, what concerns players too

\* The party lets go of leader, guests and members, and deletes itself.
Disband(s, a) ==
  LET q == s.party[a] IN
  [party |-> [b \in DOMAIN s.party \ {a} |-> s.party[b]],
   partyOf |-> [p \in Players |->
                  IF p \in Company(q) THEN NoParty ELSE s.partyOf[p]],
   invitedTo |-> [p \in Players |->
                    IF p \in q.invites THEN s.invitedTo[p] \ {a}
                    ELSE s.invitedTo[p]]]

\* Nobody would be left for the next leader to lead.
MissingLeader(q, p) ==
  /\ q.leader = p
  /\ \/ q.members = <<>>
     \/ Len(q.members) = 1 /\ q.invites = {}

\* The party that p leaves behind: a leader hands over to the first member.
PartyWithout(q, p) ==
  LET led == IF q.leader = p /\ ~MissingLeader(q, p)
             THEN PassPartyLeadership(q, Head(q.members)) ELSE q
      left == UpdateSharedExperience(
                [led EXCEPT !.members = Erased(led.members, p)], place)
  IN ClearPlayerPoints(left, p)

LeaveParty(s, a, p) ==
  LET q == s.party[a]
      after == PartyWithout(q, p)
      gone == [party |-> [s.party EXCEPT ![a] = after],
               partyOf |-> [s.partyOf EXCEPT ![p] = NoParty],
               invitedTo |-> s.invitedTo]
  IN IF MissingLeader(q, p) \/ Empty(after) THEN Disband(gone, a) ELSE gone

PartyWith(q, p) ==
  UpdateSharedExperience(
    [q EXCEPT !.invites = @ \ {p}, !.members = Append(@, p)], place)

JoinParty(s, a, p) ==
  [party |-> [s.party EXCEPT ![a] = PartyWith(@, p)],
   partyOf |-> [s.partyOf EXCEPT ![p] = a],
   invitedTo |-> [s.invitedTo EXCEPT ![p] = @ \ {a}]]

Inviting(q, guests) == [q EXCEPT !.invites = guests]

InvitePlayer(s, a, p) ==
  [party |-> [s.party EXCEPT ![a] = Inviting(@, @.invites \cup {p})],
   partyOf |-> s.partyOf,
   invitedTo |-> [s.invitedTo EXCEPT ![p] = @ \cup {a}]]

\* Mutant: the party stays although nobody but its leader is left.
RemoveInviteOnly(s, a, p) ==
  [party |-> [s.party EXCEPT ![a] = Inviting(@, @.invites \ {p})],
   partyOf |-> s.partyOf,
   invitedTo |-> [s.invitedTo EXCEPT ![p] = @ \ {a}]]

\* removeInvite(p, TRUE); for FALSE see ClearPartyInvitations.
RemoveInvite(s, a, p) ==
  LET after == Inviting(s.party[a], s.party[a].invites \ {p})
      gone == [party |-> [s.party EXCEPT ![a] = after],
               partyOf |-> s.partyOf,
               invitedTo |-> [s.invitedTo EXCEPT ![p] = @ \ {a}]]
  IN IF Empty(after) THEN Disband(gone, a) ELSE gone

\* Player::clearPartyInvitations: removeInvite(p, FALSE) of each party that
\* invites p.  Each party takes p from its own guests and, with nobody left
\* but its leader, disbands itself, so their order does not matter.
ClearPartyInvitations(s, p) ==
  LET without == [a \in DOMAIN s.party |->
                    IF a \in s.invitedTo[p]
                    THEN Inviting(s.party[a], s.party[a].invites \ {p})
                    ELSE s.party[a]]
      over == {a \in s.invitedTo[p] : Empty(without[a])}
  IN [party |-> [a \in DOMAIN s.party \ over |-> without[a]],
      partyOf |-> [r \in Players |->
                     IF \E a \in over : r \in Company(s.party[a])
                     THEN NoParty ELSE s.partyOf[r]],
      invitedTo |-> [s.invitedTo EXCEPT ![p] = {}]]

-----------------------------------------------------------------------------
\* Commands and events; all run on the dispatcher's thread

\* new Party(p), at the address a
Founded(a, p) ==
  [party |-> With(party, a, NewParty(p)),
   partyOf |-> [partyOf EXCEPT ![p] = a],
   invitedTo |-> invitedTo]

Leads(p) == partyOf[p] # NoParty /\ party[partyOf[p]].leader = p
IsInviting(p, guest) == Leads(p) /\ guest \in party[partyOf[p]].invites
IsPartner(p, other) == partyOf[p] # NoParty /\ other # p /\ partyOf[other] = partyOf[p]

PlayerInviteToParty(p, guest) ==
  /\ p # guest
  /\ ~IsInviting(guest, p)
  /\ partyOf[guest] = NoParty
  /\ \/ /\ partyOf[p] = NoParty
        /\ \E a \in Addresses \ DOMAIN party :
             Become(InvitePlayer(Founded(a, p), a, guest))
     \/ Leads(p) /\ ~IsInviting(p, guest) /\ Become(InvitePlayer(State, partyOf[p], guest))
  /\ UNCHANGED <<online, place>>

\* The script may refuse: then nothing changes.
PlayerJoinParty(p, leader) ==
  /\ IsInviting(leader, p)
  /\ partyOf[p] = NoParty
  /\ Become(JoinParty(State, partyOf[leader], p))
  /\ UNCHANGED <<online, place>>

PlayerRevokePartyInvitation(p, guest) ==
  /\ IsInviting(p, guest)
  /\ Become(RemoveInvite(State, partyOf[p], guest))
  /\ UNCHANGED <<online, place>>

PlayerPassPartyLeadership(p, other) ==
  /\ Leads(p)
  /\ IsPartner(p, other)
  /\ party' = [party EXCEPT ![partyOf[p]] = PassPartyLeadership(@, other)]
  /\ UNCHANGED <<online, place, partyOf, invitedTo>>

\* Refused in a fight, which the model does not follow: the player may
\* leave or not.
PlayerLeaveParty(p) ==
  /\ partyOf[p] # NoParty
  /\ Become(LeaveParty(State, partyOf[p], p))
  /\ UNCHANGED <<online, place>>

PlayerEnableSharedPartyExperience(p, on) ==
  /\ Leads(p)
  /\ party' = [party EXCEPT ![partyOf[p]] = SetSharedExperience(@, on)]
  /\ UNCHANGED <<online, place, partyOf, invitedTo>>

\* Player::onAttackedCreatureDrainHealth with a hostile monster, and
\* onTargetCreatureGainHealth with a companion
Act(p) ==
  /\ partyOf[p] # NoParty
  /\ party' = [party EXCEPT ![partyOf[p]] = UpdatePlayerTicks(@, p)]
  /\ UNCHANGED <<online, place, partyOf, invitedTo>>

OnIdleStatus(p) ==
  /\ partyOf[p] # NoParty
  /\ party' = [party EXCEPT ![partyOf[p]] = ClearPlayerPoints(@, p)]
  /\ UNCHANGED <<online, place, partyOf, invitedTo>>

\* PZ_LOCKED has passed since p acted; nobody is told.
Forgotten(p) ==
  /\ partyOf[p] # NoParty
  /\ p \in DOMAIN party[partyOf[p]].ticks
  /\ party' = [party EXCEPT ![partyOf[p]].ticks[p] = "old"]
  /\ UNCHANGED <<online, place, partyOf, invitedTo>>

OnCreatureMove(p) ==
  /\ \E to \in Places \ {place[p]} : place' = [place EXCEPT ![p] = to]
  /\ party' = IF partyOf[p] = NoParty THEN party
              ELSE [party EXCEPT ![partyOf[p]] = UpdateSharedExperience(@, place')]
  /\ UNCHANGED <<online, partyOf, invitedTo>>

Login(p) ==
  /\ p \notin online
  /\ online' = online \cup {p}
  /\ \E to \in Places : place' = [place EXCEPT ![p] = to]
  /\ UNCHANGED <<party, partyOf, invitedTo>>

\* Player::onRemoveCreature: invitations first, then the party.
Logout(p) ==
  /\ LET alone == ClearPartyInvitations(State, p) IN
     Become(IF alone.partyOf[p] = NoParty THEN alone
            ELSE LeaveParty(alone, alone.partyOf[p], p))
  /\ online' = online \ {p}
  /\ UNCHANGED place

Init ==
  /\ online = {}
  /\ place \in [Players -> {CHOOSE x \in Places : TRUE}]
  /\ party = << >>
  /\ partyOf = [p \in Players |-> NoParty]
  /\ invitedTo = [p \in Players |-> {}]

Next ==
  \/ \E p \in Players : Login(p)
  \/ \E p \in online :
       \/ \E other \in online :
            \/ PlayerInviteToParty(p, other)
            \/ PlayerJoinParty(p, other)
            \/ PlayerRevokePartyInvitation(p, other)
            \/ PlayerPassPartyLeadership(p, other)
       \/ \E on \in BOOLEAN : PlayerEnableSharedPartyExperience(p, on)
       \/ PlayerLeaveParty(p)
       \/ Act(p)
       \/ OnIdleStatus(p)
       \/ Forgotten(p)
       \/ OnCreatureMove(p)
       \/ Logout(p)

Spec == Init /\ [][Next]_vars

-----------------------------------------------------------------------------
(***************************************************************************)
(* Raw pointers agree, whatever the order of invitations, departures and   *)
(* logouts: a player points to a party exactly if he leads it or is a      *)
(* member, once; an invitation is known to both sides and is not to one's  *)
(* own party; everybody a party knows is in the game; and no party is kept *)
(* for its leader alone.  A pointer that is left over is used at the next  *)
(* message to the party.                                                   *)
(***************************************************************************)
MembersAgree ==
  /\ \A p \in Players : partyOf[p] # NoParty =>
       partyOf[p] \in DOMAIN party /\ p \in Company(party[partyOf[p]])
  /\ \A p \in Players : invitedTo[p] \subseteq DOMAIN party
  /\ \A a \in DOMAIN party :
       LET q == party[a] IN
       /\ Company(q) \cup q.invites \subseteq online
       /\ IsInjective(<<q.leader>> \o q.members)
       /\ \A p \in Company(q) : partyOf[p] = a
       /\ q.invites = {p \in Players : a \in invitedTo[p]}
       /\ q.invites \cap Company(q) = {}
       /\ ~Empty(q)

(***************************************************************************)
(* Shared experience in force is never older than the last change of the   *)
(* party: with everybody near the leader and known to have acted, it is in *)
(* force as soon as all of it is recent, and it is not in force while      *)
(* somebody is away or has no action on record.  (That an action has grown *)
(* old is noticed only at the next change.)  creature.cpp pays experience  *)
(* by the stored flag.                                                     *)
(***************************************************************************)
SharedFresh ==
  \A a \in DOMAIN party :
    LET q == party[a] IN
    q.active =>
      /\ CanEnableSharedExperience(q, place) => q.enabled
      /\ q.enabled => \A p \in Company(q) :
                        place[p] = place[q.leader] /\ p \in DOMAIN q.ticks

(* Pointers and the stored flag, together.                                 *)
PartiesAgree == MembersAgree /\ SharedFresh
=============================================================================
