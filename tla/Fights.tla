------------------------------- MODULE Fights -------------------------------
(***************************************************************************)
(* Players who fight each other in a PvP world: who may attack whom        *)
(* (combat.cpp), the marks an attack leaves on the attacker (attackedSet,  *)
(* skull, pzLocked and being in a fight: player.cpp), and the judgement of *)
(* a kill (Creature::onDeath and Player::onKilledCreature).                *)
(*                                                                         *)
(* skullTicks is counted in units of FRAG_TIME.  shown is the skull each   *)
(* player's client was last told of each other player.  judged compares    *)
(* the verdict on the last most-damage killer with what the rule says      *)
(* before the loop of onDeath.  There are no guilds and no access flags.   *)
(***************************************************************************)
EXTENDS Integers, FiniteSets, FiniteSetsExt

CONSTANTS
  Players,    \* the players
  Weak,       \* those below PROTECTION_LEVEL
  NoPlayer,   \* a null Creature*
  KillsToRed, KillsToBlack,
  MaxHits,    \* bound on the damage counted in damageMap
  MaxFrags    \* bound on skullTicks

ASSUME FightsAssumption ==
  /\ Weak \subseteq Players /\ NoPlayer \notin Players
  /\ KillsToRed \in Nat /\ KillsToBlack \in Nat /\ MaxHits \in Nat /\ MaxFrags \in Nat

VARIABLES
  attacked,       \* attackedSet
  skull,          \* skull
  skullTicks,     \* skullTicks
  pzLocked,       \* pzLocked
  inFight,        \* has CONDITION_INFIGHT
  party,          \* the members of a party
  zone,           \* the zone of the tile a player stands on
  attackedCreature,
  damageMap,      \* damageMap[t][a]: the damage a did to t
  lastHitCreature,
  life,           \* alive, dying (health is 0) or gone
  shown,          \* shown[v][p]: the skull v's client draws on p
  judged          \* the verdict on the last most-damage killer

vars == <<attacked, skull, skullTicks, pzLocked, inFight, party, zone, attackedCreature,
          damageMap, lastHitCreature, life, shown, judged>>

Zones == {"normal", "pvp", "nopvp", "protection"}
Skulls == {"none", "white", "red", "black", "yellow", "green"}
Present == {p \in Players : life[p] # "gone"}

(* The marks of all players, changed by the handlers below. *)
Marks == [attacked |-> attacked, skull |-> skull, ticks |-> skullTicks, pz |-> pzLocked,
          fight |-> inFight, shown |-> shown]

SetMarks(m) ==
  /\ attacked' = m.attacked /\ skull' = m.skull /\ skullTicks' = m.ticks
  /\ pzLocked' = m.pz /\ inFight' = m.fight /\ shown' = m.shown

HasAttacked(m, p, t) == t \in m.attacked[p]

IsPartner(p, t) == p # t /\ {p, t} \subseteq party

IsInPvpZone(p, t) == zone[p] = "pvp" /\ zone[t] = "pvp"

GetSkullClient(m, v, p) ==
  IF m.skull[p] # "none" THEN m.skull[p]
  ELSE IF HasAttacked(m, p, v) THEN "yellow"
  ELSE IF IsPartner(v, p) THEN "green"
  ELSE "none"

SendCreatureSkull(m, v, p) == [m EXCEPT !.shown[v][p] = GetSkullClient(m, v, p)]

(* setSkull and updateCreatureSkull: every spectator is told. *)
SetSkull(m, p, s) ==
  LET n == [m EXCEPT !.skull[p] = s]
  IN  [n EXCEPT !.shown = [v \in Players |-> [n.shown[v] EXCEPT ![p] = GetSkullClient(n, v, p)]]]

AddAttacked(m, p, t) == IF p = t THEN m ELSE [m EXCEPT !.attacked[p] = @ \union {t}]

RemoveAttacked(m, p, t) == IF p = t THEN m ELSE [m EXCEPT !.attacked[p] = @ \ {t}]

AddInFightTicks(m, p) == [m EXCEPT !.fight[p] = TRUE]

(* Mutant: the fight ends and the list of those attacked stays. *)
ClearNothing(m, p) == m

ClearAttacked(m, p) == [m EXCEPT !.attacked[p] = {}]

OnEndCondition(m, p) ==
  LET n == ClearAttacked([m EXCEPT !.fight[p] = FALSE, !.pz[p] = FALSE], p)
  IN  IF n.skull[p] \in {"red", "black"} THEN n ELSE SetSkull(n, p, "none")

IsProtected(p, t) ==
  \/ {p, t} \cap Weak # {}
  \/ skull[p] = "black" /\ GetSkullClient(Marks, p, t) = "none"

CanDoCombat(p, t) == /\ ~ IsProtected(p, t)
                     /\ zone[t] # "nopvp"
                     /\ zone[p] = "nopvp" => zone[t] = "protection"

(* The caster's own rules on a tile of an area: Combat::canDoCombat(caster, tile). *)
CanDoCombatOnTile(t) == zone[t] # "protection"

CanTargetCreature(p, t, secure) ==
  /\ p # t
  /\ zone[p] \notin {"protection", "nopvp"} /\ zone[t] \notin {"protection", "nopvp"}
  /\ ~ IsProtected(p, t)
  /\ ~ (secure /\ ~ IsInPvpZone(p, t) /\ GetSkullClient(Marks, p, t) = "none")
  /\ CanDoCombat(p, t)

StrikeBack(m, p, t) == SendCreatureSkull(AddAttacked(m, p, t), t, p)

FirstStrike(m, p, t) ==
  LET locked == [m EXCEPT !.pz[p] = TRUE]
      noted  == AddAttacked(locked, p, t)
      marked == IF noted.skull[t] = "none" /\ noted.skull[p] = "none"
                THEN SetSkull(noted, p, "white") ELSE noted
  IN  IF IsInPvpZone(p, t) THEN locked
      ELSE IF marked.skull[p] = "none" THEN SendCreatureSkull(marked, t, p)
      ELSE marked

OnAttackedCreature(m, p, t, addFightTicks) ==
  LET n == AddInFightTicks(m, t)
      o == IF IsPartner(p, t) THEN m
           ELSE IF n.skull[p] = "none" /\ GetSkullClient(n, p, t) = "yellow" THEN StrikeBack(n, p, t)
           ELSE IF ~ HasAttacked(n, t, p) THEN FirstStrike(n, p, t)
           ELSE n
  IN  IF zone[t] = "pvp" THEN m
      ELSE IF addFightTicks THEN AddInFightTicks(o, p) ELSE o

OnAttacked(m, t) == AddInFightTicks(m, t)

AddDamagePoints(p, t) ==
  /\ damageMap' = [damageMap EXCEPT ![t][p] = IF @ < MaxHits THEN @ + 1 ELSE @]
  /\ lastHitCreature' = [lastHitCreature EXCEPT ![t] = p]

AddUnjustifiedDead(m, p) ==
  LET n == [m EXCEPT !.ticks[p] = @ + 1]
  IN  IF n.skull[p] = "black" THEN n
      ELSE IF KillsToBlack # 0 /\ n.ticks[p] > KillsToBlack - 1 THEN SetSkull(n, p, "black")
      ELSE IF n.skull[p] # "red" /\ KillsToRed # 0 /\ n.ticks[p] > KillsToRed - 1
      THEN SetSkull(n, p, "red") ELSE n

IsMurder(m, p, t) == /\ zone[t] # "pvp" /\ ~ IsPartner(p, t)
                     /\ HasAttacked(m, p, t) /\ ~ HasAttacked(m, t, p) /\ p # t
                     /\ m.skull[t] = "none"

OnKilledCreature(m, p, t, lastHit) ==
  LET n == IF IsMurder(m, p, t) THEN AddUnjustifiedDead(m, p) ELSE m
      guilty == /\ zone[t] # "pvp" /\ ~ IsPartner(p, t) /\ p # t
                /\ HasAttacked(m, p, t) /\ ~ HasAttacked(m, t, p)
  IN  IF guilty /\ lastHit /\ m.fight[p] THEN [n EXCEPT !.pz[p] = TRUE] ELSE n

LastHitIsPlayer(p) == p # NoPlayer

-----------------------------------------------------------------------------
None == [p \in Players |-> "none"]

Init ==
  /\ attacked = [p \in Players |-> {}]
  /\ skull = None
  /\ skullTicks = [p \in Players |-> 0]
  /\ pzLocked = [p \in Players |-> FALSE]
  /\ inFight = [p \in Players |-> FALSE]
  /\ party \in {{}, Players}
  /\ zone = [p \in Players |-> "normal"]
  /\ attackedCreature = [p \in Players |-> NoPlayer]
  /\ damageMap = [t \in Players |-> [a \in Players |-> 0]]
  /\ lastHitCreature = [t \in Players |-> NoPlayer]
  /\ life = [p \in Players |-> "alive"]
  /\ shown = [v \in Players |-> [p \in Players |-> IF IsPartner(v, p) THEN "green" ELSE "none"]]
  /\ judged = [due |-> FALSE, reported |-> FALSE]

(* Game::playerSetAttackedCreature: the order to attack is already an attack. *)
PlayerSetAttackedCreature(p, t, secure) ==
  /\ life[p] # "gone" /\ life[t] # "gone"
  /\ IF CanTargetCreature(p, t, secure)
     THEN /\ attackedCreature' = [attackedCreature EXCEPT ![p] = t]
          /\ SetMarks(OnAttacked(OnAttackedCreature(Marks, p, t, TRUE), t))
     ELSE /\ attackedCreature' = [attackedCreature EXCEPT ![p] = NoPlayer]
          /\ UNCHANGED <<attacked, skull, skullTicks, pzLocked, inFight, shown>>
  /\ UNCHANGED <<party, zone, damageMap, lastHitCreature, life, judged>>

PlayerCancelAttack(p) ==
  /\ life[p] # "gone" /\ attackedCreature[p] # NoPlayer
  /\ attackedCreature' = [attackedCreature EXCEPT ![p] = NoPlayer]
  /\ UNCHANGED <<attacked, skull, skullTicks, pzLocked, inFight, party, zone, damageMap,
                 lastHitCreature, life, shown, judged>>

(* combatBlockHit, then combatChangeHealth; one of black skull hurts nobody unmarked. *)
Struck(p, t) == OnAttacked(OnAttackedCreature(Marks, p, t, TRUE), t)

CombatChangeHealth(p, t, fatal) ==
  IF life[t] = "alive" /\ ~ (skull[p] = "black" /\ GetSkullClient(Marks, p, t) = "none")
  THEN /\ AddDamagePoints(p, t)
       /\ life' = [life EXCEPT ![t] = IF fatal THEN "dying" ELSE @]
  ELSE UNCHANGED <<damageMap, lastHitCreature, life>>

(* Player::doAttacking with a weapon, while the order stands. *)
DoAttacking(p, fatal) ==
  /\ life[p] = "alive" /\ attackedCreature[p] # NoPlayer
  /\ SetMarks(Struck(p, attackedCreature[p]))
  /\ CombatChangeHealth(p, attackedCreature[p], fatal)
  /\ UNCHANGED <<party, zone, attackedCreature, judged>>

(* A spell or rune that reaches t: Combat::doAreaCombat and doTargetCombat. *)
Cast(p, t, fatal) ==
  /\ life[p] # "gone" /\ life[t] # "gone" /\ p # t
  /\ CanDoCombatOnTile(t) /\ CanDoCombat(p, t)
  /\ SetMarks(Struck(p, t)) /\ CombatChangeHealth(p, t, fatal)
  /\ UNCHANGED <<party, zone, attackedCreature, judged>>

(* RuneSpell::executeUse: postCastSpell, then the attack is noted once more, *)
(* also when the spell did not reach t.                                      *)
UseRune(p, t, fatal) ==
  LET reached == CanDoCombatOnTile(t) /\ CanDoCombat(p, t)
      m == AddInFightTicks(IF reached THEN Struck(p, t) ELSE Marks, p)
  IN  /\ life[p] # "gone" /\ life[t] # "gone" /\ p # t
      /\ SetMarks(OnAttackedCreature(m, p, t, FALSE))
      /\ IF reached THEN CombatChangeHealth(p, t, fatal) ELSE UNCHANGED <<damageMap, lastHitCreature, life>>
      /\ UNCHANGED <<party, zone, attackedCreature, judged>>

(* Attackers lose sight of one who has gone. *)
Lost(t) == [q \in Players |-> IF q = t \/ attackedCreature[q] = t THEN NoPlayer ELSE attackedCreature[q]]

(* Creature::onDeath, from Game::checkCreatures; recent are the attackers of *)
(* the last PZ_LOCKED milliseconds.                                          *)
OnDeath(t, recent) ==
  LET last     == lastHitCreature[t]
      killer   == IF last \in Present THEN last ELSE NoPlayer
      hitters  == {a \in Present : damageMap[t][a] > 0}
      top      == {a \in hitters \cap recent : \A b \in hitters \cap recent : damageMap[t][a] >= damageMap[t][b]}
      m0       == IF killer # NoPlayer THEN OnKilledCreature(Marks, killer, t, TRUE) ELSE Marks
      m1       == [m0 EXCEPT !.attacked = [a \in Players |-> IF a \in hitters \ {t} THEN @[a] \ {t} ELSE @[a]]]
      most     == IF top = {} THEN NoPlayer ELSE CHOOSE a \in top : TRUE
      second   == most \notin {NoPlayer, killer}
      m2       == IF second THEN OnKilledCreature(m1, most, t, FALSE) ELSE m1
      stays    == zone[t] = "pvp" /\ LastHitIsPlayer(killer)
      m3       == OnEndCondition(m2, t)
  IN  /\ life[t] = "dying" /\ \A p \in Players : skullTicks[p] < MaxFrags
      /\ judged' = [due |-> second /\ IsMurder(m0, most, t), reported |-> second /\ IsMurder(m1, most, t)]
      /\ SetMarks(m3)
      /\ life' = [life EXCEPT ![t] = IF stays THEN "alive" ELSE "gone"]
      /\ attackedCreature' = Lost(t)
      /\ zone' = [zone EXCEPT ![t] = IF stays THEN "protection" ELSE @]
      /\ party' = IF stays THEN party ELSE party \ {t}
      /\ UNCHANGED <<damageMap, lastHitCreature>>

(* The player logs in again: only red and black skulls were saved. *)
Login(p) ==
  /\ life[p] = "gone"
  /\ life' = [life EXCEPT ![p] = "alive"]
  /\ damageMap' = [damageMap EXCEPT ![p] = [a \in Players |-> 0]]
  /\ lastHitCreature' = [lastHitCreature EXCEPT ![p] = NoPlayer]
  /\ zone' = [zone EXCEPT ![p] = "protection"]
  /\ shown' = [v \in Players |-> [q \in Players |-> IF p \in {v, q} THEN GetSkullClient(Marks, v, q) ELSE shown[v][q]]]
  /\ UNCHANGED <<attacked, skull, skullTicks, pzLocked, inFight, party, attackedCreature, judged>>

(* CONDITION_INFIGHT runs out. *)
EndFight(p) ==
  /\ life[p] # "gone" /\ inFight[p]
  /\ SetMarks(OnEndCondition(Marks, p))
  /\ UNCHANGED <<party, zone, attackedCreature, damageMap, lastHitCreature, life, judged>>

CheckSkullTicks(p) ==
  LET m == [Marks EXCEPT !.ticks[p] = IF @ > 0 THEN @ - 1 ELSE 0]
  IN  /\ life[p] # "gone" /\ (skullTicks[p] > 0 \/ skull[p] \in {"red", "black"})
      /\ SetMarks(IF m.skull[p] \in {"red", "black"} /\ m.ticks[p] < 1 /\ ~ m.fight[p]
                  THEN SetSkull(m, p, "none") ELSE m)
      /\ UNCHANGED <<party, zone, attackedCreature, damageMap, lastHitCreature, life, judged>>

(* Tile::queryAdd: what a pz-locked player may not enter or leave. *)
MayEnter(p, z) ==
  pzLocked[p] => /\ (zone[p] = "pvp") = (z = "pvp")
                 /\ z \in {"nopvp", "protection"} => zone[p] = z

(* A step into another zone; onAttackedCreatureChangeZone of those who attack p. *)
OnChangeZone(p, z) ==
  /\ life[p] # "gone" /\ zone[p] # z /\ MayEnter(p, z)
  /\ zone' = [zone EXCEPT ![p] = z]
  /\ attackedCreature' = [q \in Players |-> IF \/ q = p /\ z = "protection"
                                               \/ attackedCreature[q] = p /\ z \in {"protection", "nopvp"}
                                            THEN NoPlayer ELSE attackedCreature[q]]
  /\ UNCHANGED <<attacked, skull, skullTicks, pzLocked, inFight, party, damageMap, lastHitCreature,
                 life, shown, judged>>

Next ==
  \/ \E p, t \in Players, b \in BOOLEAN : PlayerSetAttackedCreature(p, t, b) \/ Cast(p, t, b) \/ UseRune(p, t, b)
  \/ \E p \in Players, b \in BOOLEAN : DoAttacking(p, b)
  \/ \E p \in Players : PlayerCancelAttack(p) \/ Login(p) \/ EndFight(p) \/ CheckSkullTicks(p)
  \/ \E t \in Players, recent \in SUBSET Players : OnDeath(t, recent)
  \/ \E p \in Players, z \in Zones : OnChangeZone(p, z)

Spec == Init /\ [][Next]_vars

-----------------------------------------------------------------------------
(* Nothing of a fight outlives it: a player who is not in a fight is not   *)
(* pz-locked, is not held to have attacked anyone and has no white skull,  *)
(* whatever deaths and logins came between (Player::onEndCondition).       *)
FightOver ==
  \A p \in Players : ~ inFight[p] => ~ pzLocked[p] /\ attacked[p] = {} /\ skull[p] # "white"

(* A player who was attacked sees it: the client of every victim draws a   *)
(* skull on each player that may be killed for it (onAttackedCreature      *)
(* sends the skull to the victim only).                                    *)
MarksShown ==
  \A v, p \in Present : v \in attacked[p] => shown[v][p] # "none"

(* The most-damage killer is judged by the rule the last hitter is judged  *)
(* by (mostdamageunjustified of onDeath); refuted: the loop of onDeath has *)
(* removed the victim from the attackedSet of every attacker before.       *)
MostDamageJudged == judged.due => judged.reported

(* A fight leaves nothing behind, and its victims see who may be killed.   *)
MarksAgree == FightOver /\ MarksShown
=============================================================================
