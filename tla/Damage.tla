------------------------------- MODULE Damage -------------------------------
(***************************************************************************)
(* One hit or heal on its way to a player: Combat::doTargetCombat halves   *)
(* it between players, Game::combatBlockHit lets shield, armor and         *)
(* equipment take from it, Game::combatChangeHealth takes it from the mana *)
(* of a magic shield first and from the health then, and                   *)
(* Game::combatChangeMana drains mana.  Scripts registered for health and  *)
(* mana changes see the hit on the way and may change it; after a health   *)
(* script the function calls itself with origin none.                      *)
(*                                                                         *)
(* As in the code a negative value is damage and a positive one a heal,    *)
(* until combatChangeHealth takes the absolute values.                     *)
(***************************************************************************)
EXTENDS Integers, FiniteSets, FiniteSetsExt

CONSTANTS
  MaxHealth, MaxMana, \* of the player
  MaxHit,             \* bound on the primary and the secondary value
  MaxCharges          \* of the protective item worn

ConstantsFit ==
  MaxHealth \in Nat /\ MaxMana \in Nat /\ MaxHit \in Nat /\ MaxCharges \in Nat

VARIABLES
  health, mana,
  manaShield,   \* has CONDITION_MANASHIELD
  blockCount,   \* hits the shield can still meet
  charges,      \* of the protective item; 0: it has none left, or is not worn
  scripts,      \* the events the player is registered for
  hit,          \* the CombatDamage under way
  stage,        \* where it is
  spent         \* what this hit took, and what it was allowed to take

vars == <<health, mana, manaShield, blockCount, charges, scripts, hit, stage, spent>>

Abs(n) == IF n < 0 THEN -n ELSE n
Least(a, b) == IF a < b THEN a ELSE b
Most(a, b) == IF a > b THEN a ELSE b
Half(n) == IF n < 0 THEN -((-n) \div 2) ELSE n \div 2

Types == {"physical", "undefined", "manadrain", "healing"}
NoHit == [primary |-> 0, secondary |-> 0, type |-> "physical", origin |-> "none", attacker |-> FALSE]
NothingSpent == [health |-> 0, mana |-> 0, credit |-> 0, allowed |-> 0]

Init ==
  /\ health = MaxHealth /\ mana \in 0 .. MaxMana
  /\ manaShield \in BOOLEAN
  /\ blockCount = 0
  /\ charges \in {0, MaxCharges}
  /\ scripts \in SUBSET {"health", "mana", "prepareDeath"}
  /\ hit = NoHit /\ stage = "idle" /\ spent = NothingSpent

(* Creature::onThink gives back one block a second. *)
OnThink ==
  /\ stage = "idle" /\ blockCount < 2
  /\ blockCount' = blockCount + 1
  /\ UNCHANGED <<health, mana, manaShield, charges, scripts, hit, stage, spent>>

(* Combat::doTargetCombat, for a hit of a player (halved unless the target  *)
(* has a black skull), of a monster, or of no creature.                     *)
DoTargetCombat(p, s, type, attacker, halved) ==
  LET dealt == IF halved /\ (p < 0 \/ s < 0)
               THEN [primary |-> Half(p), secondary |-> Half(s)] ELSE [primary |-> p, secondary |-> s]
  IN  /\ stage = "idle"
      /\ halved => attacker
      /\ p > 0 <=> type = "healing"
      /\ type \in {"healing", "manadrain"} => s = 0
      /\ hit' = [primary |-> dealt.primary, secondary |-> dealt.secondary, type |-> type,
                 origin |-> "spell", attacker |-> attacker]
      /\ spent' = [NothingSpent EXCEPT !.allowed = Abs(dealt.primary) + Abs(dealt.secondary)]
      /\ stage' = IF type = "manadrain" THEN "mana" ELSE "block"
      /\ UNCHANGED <<health, mana, manaShield, blockCount, charges, scripts>>

(* Creature::blockHit for the primary value: immunity, shield, armor; what   *)
(* is left and whether it was blocked.                                       *)
BlockHit(value, immune, defense, armor) ==
  LET met   == blockCount > 0
      after == IF met THEN value - defense ELSE value
      left  == IF immune THEN 0
               ELSE IF met /\ after <= 0 THEN 0
               ELSE Most(0, after - armor)
  IN  [left |-> left, blocked |-> left = 0, met |-> met /\ ~ immune]

(* Player::blockHit: an item worn takes a share and loses a charge. *)
Absorb(value, share) == IF charges > 0 THEN Most(0, value - share) ELSE value

CombatBlockHit(immune, defense, armor, share) ==
  LET primary   == BlockHit(Abs(hit.primary), immune, defense, armor)
      absorbed  == IF primary.blocked THEN 0 ELSE Absorb(primary.left, share)
      second    == IF immune THEN 0 ELSE Absorb(Abs(hit.secondary), share)
      used      == ~ primary.blocked /\ charges > 0 /\ share > 0
  IN  /\ stage = "block"
      /\ IF hit.primary > 0
         THEN stage' = "change" /\ UNCHANGED <<blockCount, charges, hit, spent>>
         ELSE /\ hit' = [hit EXCEPT !.primary = -absorbed, !.secondary = -second]
              /\ spent' = [spent EXCEPT !.allowed = absorbed + second]
              /\ blockCount' = IF primary.met THEN blockCount - 1 ELSE blockCount
              /\ charges' = IF used THEN charges - 1 ELSE charges
              /\ stage' = IF absorbed = 0 /\ second = 0 /\ hit.secondary # 0 THEN "idle" ELSE "change"
      /\ UNCHANGED <<health, mana, manaShield, scripts>>

(* CreatureEvent::executeHealthChange: whatever the script answers is a     *)
(* damage unless it says healing; when it fails the hit is left as it is.   *)
ExecuteHealthChange(h, answer) ==
  IF answer.fails THEN h
  ELSE [h EXCEPT !.primary = IF answer.heals THEN answer.primary ELSE -answer.primary,
                 !.secondary = IF answer.heals THEN answer.secondary ELSE -answer.secondary,
                 !.type = IF answer.heals THEN "healing" ELSE "physical"]

ExecuteManaChange(h, answer) ==
  IF answer.fails THEN h ELSE [h EXCEPT !.primary = answer.primary, !.secondary = answer.secondary]

(* A formula that fails gives no amounts. *)
Answers == {a \in [primary : 0 .. MaxHit, secondary : 0 .. 1, heals : BOOLEAN, fails : BOOLEAN] :
              a.fails => a.primary = 0 /\ a.secondary = 0 /\ ~ a.heals}

(* The script, then combatChangeHealth again with origin none. *)
AskHealthScript(h, answer) ==
  LET asked == [ExecuteHealthChange(h, answer) EXCEPT !.origin = "none"]
  IN  /\ hit' = asked
      /\ spent' = [spent EXCEPT !.allowed = spent.mana + Abs(asked.primary) + Abs(asked.secondary)]
      /\ stage' = "change"

HasScript(h, event) == h.origin # "none" /\ event \in scripts

(* combatChangeHealth, the part for healing. *)
GainHealth(answer) ==
  /\ stage = "change" /\ hit.primary > 0
  /\ IF health <= 0
     THEN stage' = "idle" /\ UNCHANGED <<health, hit, spent>>
     ELSE IF HasScript(hit, "health")
     THEN AskHealthScript(hit, answer) /\ UNCHANGED health
     ELSE /\ health' = health + Least(hit.primary, MaxHealth - health)
          /\ stage' = "idle"
          /\ UNCHANGED <<hit, spent>>
  /\ UNCHANGED <<mana, manaShield, blockCount, charges, scripts>>

(* Mutant: what the shield took stays in the hit. *)
AbsorbedStays(h, taken) == h

(* What a magic shield leaves of the hit. *)
AfterShield(h, taken) ==
  IF h.primary - taken < 0
  THEN [h EXCEPT !.primary = 0, !.secondary = Most(0, @ + (h.primary - taken))]
  ELSE [h EXCEPT !.primary = @ - taken]

(* Player::drainMana: the attacker is credited for the mana as well. *)
DrainMana(taken) == mana' = Most(0, mana - taken)

(* combatChangeHealth, the magic shield, with the mana script on the way. *)
ShieldHit(answer) ==
  LET abs    == [hit EXCEPT !.primary = Abs(@), !.secondary = Abs(@)]
      total  == abs.primary + abs.secondary
      meets  == manaShield /\ hit.type # "undefined" /\ Least(mana, total) # 0
      asked  == IF meets /\ HasScript(abs, "mana") THEN ExecuteManaChange(abs, answer) ELSE abs
      taken  == Least(mana, asked.primary + asked.secondary)
  IN  /\ stage = "change" /\ hit.primary <= 0
      /\ IF total = 0 \/ asked.primary + asked.secondary = 0
         THEN stage' = "idle" /\ UNCHANGED <<mana, hit, spent>>
         ELSE IF meets
         THEN /\ DrainMana(taken)
              /\ hit' = AfterShield(asked, taken)
              /\ spent' = [spent EXCEPT !.mana = @ + taken,
                                        !.credit = IF hit.attacker THEN @ + taken ELSE @,
                                        !.allowed = IF asked = abs THEN @
                                                    ELSE spent.mana + asked.primary + asked.secondary]
              /\ stage' = "health"
         ELSE hit' = abs /\ stage' = "health" /\ UNCHANGED <<mana, spent>>
      /\ UNCHANGED <<health, manaShield, blockCount, charges, scripts>>

(* No more is taken than the health there is. *)
CutToHealth(h) ==
  IF h.primary >= health THEN [h EXCEPT !.primary = health, !.secondary = 0]
  ELSE [h EXCEPT !.secondary = Least(@, health - h.primary)]

(* combatChangeHealth, the rest: the health script, the script that may     *)
(* prevent a death, and Creature::drainHealth.                              *)
DrainHealth(answer, prevented) ==
  LET cut  == CutToHealth(hit)
      real == cut.primary + cut.secondary
  IN  /\ stage = "health"
      /\ IF hit.primary + hit.secondary = 0
         THEN stage' = "idle" /\ UNCHANGED <<health, hit, spent>>
         ELSE IF HasScript(hit, "health")
         THEN AskHealthScript(hit, answer) /\ UNCHANGED health
         ELSE /\ stage' = "idle" /\ hit' = cut
              /\ IF real >= health /\ "prepareDeath" \in scripts /\ prevented
                 THEN UNCHANGED <<health, spent>>
                 ELSE /\ health' = Most(0, health - real)
                      /\ spent' = [spent EXCEPT !.health = health - health',
                                                !.credit = IF hit.attacker THEN @ + real ELSE @]
      /\ UNCHANGED <<mana, manaShield, blockCount, charges, scripts>>

(* Game::combatChangeMana for a hit that drains mana. *)
CombatChangeMana(answer, blocked) ==
  LET loss == Least(mana, -(hit.primary + hit.secondary))
  IN  /\ stage = "mana"
      /\ IF blocked \/ loss <= 0
         THEN stage' = "idle" /\ UNCHANGED <<mana, hit, spent>>
         ELSE IF HasScript(hit, "mana")
         THEN /\ hit' = [ExecuteManaChange(hit, [answer EXCEPT !.primary = -answer.primary, !.secondary = -answer.secondary])
                         EXCEPT !.origin = "none"]
              /\ spent' = [spent EXCEPT !.allowed = Abs(hit'.primary) + Abs(hit'.secondary)]
              /\ UNCHANGED <<mana, stage>>
         ELSE /\ DrainMana(loss)
              /\ spent' = [spent EXCEPT !.mana = @ + loss, !.credit = IF hit.attacker THEN @ + loss ELSE @]
              /\ stage' = "idle" /\ UNCHANGED hit
      /\ UNCHANGED <<health, manaShield, blockCount, charges, scripts>>

(* Creature::onDeath, and the player's return with full health and mana. *)
Return ==
  /\ stage = "idle" /\ health = 0
  /\ health' = MaxHealth /\ mana' = MaxMana
  /\ hit' = NoHit /\ spent' = NothingSpent
  /\ UNCHANGED <<manaShield, blockCount, charges, scripts, stage>>

Next ==
  \/ OnThink \/ Return
  \/ \E p \in -MaxHit .. MaxHit, s \in -1 .. 0, type \in Types, attacker, halved \in BOOLEAN :
       DoTargetCombat(p, s, type, attacker, halved)
  \/ \E immune \in BOOLEAN, defense, armor, share \in 0 .. 1 : CombatBlockHit(immune, defense, armor, share)
  \/ \E answer \in Answers : GainHealth(answer) \/ ShieldHit(answer)
  \/ \E answer \in Answers, b \in BOOLEAN : DrainHealth(answer, b) \/ CombatChangeMana(answer, b)

Spec == Init /\ [][Next]_vars

-----------------------------------------------------------------------------
(* The accounts of a hit close: what the attacker is credited with is what *)
(* the player lost in mana and health together, and that is never more     *)
(* than the blocks and scripts left of the hit, though the magic shield is *)
(* met again when combatChangeHealth calls itself after a script.          *)
HitAccounted ==
  /\ spent.mana + spent.health <= spent.allowed
  /\ spent.credit \in {0, spent.mana + spent.health}
  /\ hit.attacker => spent.credit = spent.mana + spent.health
=============================================================================
