------------------------------ MODULE Progress ------------------------------
(***************************************************************************)
(* The progress of a player (player.cpp, vocation.cpp): experience and     *)
(* level, a skill and the magic level with the tries and the mana spent    *)
(* towards the next one, what is gained and what a death takes.  The       *)
(* advance scripts run in the middle of the functions that raise a level   *)
(* and may call them again, so the calls under way are a stack.            *)
(*                                                                         *)
(* The tables are what the formulas of getExpForLevel, getReqSkillTries    *)
(* and getReqMana give; levels of a ladder are counted from its lowest.    *)
(***************************************************************************)
EXTENDS Integers, Sequences, FiniteSets, FiniteSetsExt

CONSTANTS
  ExpTable,   \* ExpTable[l]: the experience level l needs, increasing
  ReqTable,   \* ReqTable[k][l]: what ladder k needs for level l, increasing
  Gains,      \* amounts gained at once
  MaxGained,  \* bound on what is gained on a ladder
  MaxCalls    \* bound on the calls that scripts nest

Ladders == {"skill", "magic"}

(* The first level is free and every level of a ladder takes something. *)
TablesFit ==
  /\ ExpTable \in Seq(Nat) /\ Len(ExpTable) > 0 /\ ExpTable[1] = 0
  /\ Len(ExpTable) > 1 => ExpTable[2] > 0
  /\ \A k \in Ladders : ReqTable[k] \in Seq(Nat \ {0}) /\ Len(ReqTable[k]) > 0
  /\ Gains \subseteq Nat

VARIABLES
  experience, level,
  step, tries,    \* step[k], tries[k]: skills[].level and .tries, magLevel and manaSpent
  calls,          \* addSkillAdvance, addManaSpent and addExperience under way
  losing,         \* the loss a death still takes off each ladder
  owed            \* what was gained on a ladder and not lost

vars == <<experience, level, step, tries, calls, losing, owed>>

(* Vocation::getReqSkillTries and getReqMana; equal needs mean the top. *)
Req(k, l) == IF l = 0 THEN 0 ELSE IF l <= Len(ReqTable[k]) THEN ReqTable[k][l] ELSE ReqTable[k][Len(ReqTable[k])]

GetExpForLevel(l) == IF l <= Len(ExpTable) THEN ExpTable[l] ELSE ExpTable[Len(ExpTable)]

AtTop(k, l) == Req(k, l) >= Req(k, l + 1)

(* All that the levels up to n of a ladder took, and what a player has on it. *)
Reach(k, n) ==
  LET reached[l \in 0 .. n] == IF l = 0 THEN 0 ELSE reached[l - 1] + Req(k, l)
  IN reached[n]

Total(k) == Reach(k, step[k]) + tries[k]

Init ==
  /\ experience = 0 /\ level = 1
  /\ step = [k \in Ladders |-> 0] /\ tries = [k \in Ladders |-> 0]
  /\ calls = <<>>
  /\ losing = [k \in Ladders |-> 0]
  /\ owed = [k \in Ladders |-> 0]

Idle == calls = <<>> /\ \A k \in Ladders : losing[k] = 0
Innermost == calls[Len(calls)]

(* A call from a fight, a spell or a script; from within a call only while  *)
(* its advance script runs.                                                 *)
MayCall == /\ \A k \in Ladders : losing[k] = 0
           /\ calls # <<>> => Innermost.script /\ Len(calls) < MaxCalls

(* addSkillAdvance and addManaSpent, up to the loop. *)
AddTries(k, count) ==
  /\ MayCall /\ owed[k] + count <= MaxGained
  /\ ~ AtTop(k, step[k])
  /\ calls' = Append(calls, [ladder |-> k, count |-> count, next |-> Req(k, step[k] + 1), script |-> FALSE])
  /\ owed' = [owed EXCEPT ![k] = @ + count]
  /\ UNCHANGED <<experience, level, step, tries, losing>>

SpendOnLevel(call) == call.count - (call.next - tries[call.ladder])

(* A pass of the loop: one level more, and the advance script. *)
Advance ==
  LET call == Innermost
      k    == call.ladder
  IN  /\ calls # <<>> /\ k # "exp" /\ ~ call.script
      /\ tries[k] + call.count >= call.next
      /\ step' = [step EXCEPT ![k] = @ + 1]
      /\ tries' = [tries EXCEPT ![k] = 0]
      /\ calls' = [calls EXCEPT ![Len(calls)] = [call EXCEPT !.count = SpendOnLevel(call), !.script = TRUE]]
      /\ UNCHANGED <<experience, level, losing, owed>>

(* The script is done: the next need, or the top, where the rest is dropped. *)
AdvanceDone ==
  LET call == Innermost
      k    == call.ladder
      next == Req(k, step[k] + 1)
  IN  /\ calls # <<>> /\ k # "exp" /\ call.script
      /\ IF call.next >= next
         THEN /\ calls' = SubSeq(calls, 1, Len(calls) - 1)
              /\ owed' = [owed EXCEPT ![k] = @ - call.count]
         ELSE /\ calls' = [calls EXCEPT ![Len(calls)] = [call EXCEPT !.next = next, !.script = FALSE]]
              /\ UNCHANGED owed
      /\ UNCHANGED <<experience, level, step, tries, losing>>

(* The end of the loop. *)
KeepRest ==
  LET call == Innermost
      k    == call.ladder
  IN  /\ calls # <<>> /\ k # "exp" /\ ~ call.script
      /\ tries[k] + call.count < call.next
      /\ tries' = [tries EXCEPT ![k] = @ + call.count]
      /\ calls' = SubSeq(calls, 1, Len(calls) - 1)
      /\ UNCHANGED <<experience, level, step, losing, owed>>

(* Mutant: one level at a time, however much was gained. *)
OneLevelUp(exp) == IF exp >= GetExpForLevel(level + 1) /\ level < Len(ExpTable) THEN level + 1 ELSE level

(* The loop of addExperience. *)
LevelUp(exp) == Max({l \in level .. Len(ExpTable) : \A j \in level + 1 .. l : exp >= GetExpForLevel(j)})

(* The loop of removeExperience and of death. *)
LevelDown(exp) == Min({l \in 1 .. level : \A j \in l + 1 .. level : exp < GetExpForLevel(j)})

(* addExperience; when the level rose the advance script runs last. *)
AddExperience(exp) ==
  /\ MayCall /\ level < Len(ExpTable)
  /\ experience' = experience + exp
  /\ level' = LevelUp(experience + exp)
  /\ calls' = IF level' # level /\ Len(calls) < MaxCalls
              THEN Append(calls, [ladder |-> "exp", count |-> 0, next |-> 0, script |-> TRUE]) ELSE calls
  /\ UNCHANGED <<step, tries, losing, owed>>

AddExperienceDone ==
  /\ calls # <<>> /\ Innermost.ladder = "exp"
  /\ calls' = SubSeq(calls, 1, Len(calls) - 1)
  /\ UNCHANGED <<experience, level, step, tries, losing, owed>>

RemoveExperience(exp) ==
  /\ MayCall /\ experience > 0
  /\ experience' = IF exp > experience THEN 0 ELSE experience - exp
  /\ level' = LevelDown(experience')
  /\ UNCHANGED <<step, tries, calls, losing, owed>>

(* Player::getLostPercent: blessings and promotion make it smaller. *)
LostPercents == {0, 10, 50}

Share(n, percent) == (n * percent) \div 100

(* Player::death, what each ladder loses; experience only above level 7 or  *)
(* without a vocation (keeps).                                              *)
Death(percent, keeps) ==
  /\ Idle
  /\ losing' = [k \in Ladders |-> Share(Total(k), percent)]
  /\ owed' = [k \in Ladders |-> owed[k] - Share(Total(k), percent)]
  /\ experience' = IF keeps THEN experience ELSE experience - Share(experience, percent)
  /\ level' = LevelDown(experience')
  /\ UNCHANGED <<step, tries, calls>>

(* A pass of the loops of death: a level less. *)
LoseLevel(k) ==
  /\ losing[k] > tries[k] /\ step[k] > 0
  /\ losing' = [losing EXCEPT ![k] = @ - tries[k]]
  /\ tries' = [tries EXCEPT ![k] = Req(k, step[k])]
  /\ step' = [step EXCEPT ![k] = @ - 1]
  /\ UNCHANGED <<experience, level, calls, owed>>

LoseRest(k) ==
  /\ losing[k] > 0 /\ losing[k] <= tries[k]
  /\ tries' = [tries EXCEPT ![k] = @ - losing[k]]
  /\ losing' = [losing EXCEPT ![k] = 0]
  /\ UNCHANGED <<experience, level, step, calls, owed>>

(* IOLoginData::loadPlayer: tries beyond the next level are dropped. *)
Login ==
  /\ Idle
  /\ tries' = [k \in Ladders |-> IF tries[k] > Req(k, step[k] + 1) THEN 0 ELSE tries[k]]
  /\ UNCHANGED <<experience, level, step, calls, losing, owed>>

Next ==
  \/ \E k \in Ladders, n \in Gains : AddTries(k, n)
  \/ \E n \in Gains : AddExperience(n) \/ RemoveExperience(n)
  \/ Advance \/ AdvanceDone \/ KeepRest \/ AddExperienceDone \/ Login
  \/ \E percent \in LostPercents, keeps \in BOOLEAN : Death(percent, keeps)
  \/ \E k \in Ladders : LoseLevel(k) \/ LoseRest(k)

Spec == Init /\ [][Next]_vars

-----------------------------------------------------------------------------
(* No try and no point of mana is lost or made up: what a ladder holds is  *)
(* what was gained less what deaths took and the top dropped, although     *)
(* advance scripts train the player in the middle of addSkillAdvance       *)
(* (and so Login drops nothing).                                           *)
TriesAccounted ==
  Idle => \A k \in Ladders : Total(k) = owed[k] /\ (tries[k] < Req(k, step[k] + 1) \/ AtTop(k, step[k]))

(* The level is the one the experience gives, after any sequence of gains, *)
(* losses and deaths, also while advance scripts run.                      *)
LevelMatches ==
  /\ experience >= GetExpForLevel(level)
  /\ level < Len(ExpTable) => experience < GetExpForLevel(level + 1)

(* Both ladders and the level, after any nesting of advance scripts.       *)
ProgressAccounted == TriesAccounted /\ LevelMatches
=============================================================================
