--------------------------- MODULE CharacterProofs ---------------------------
(***************************************************************************)
(* Proofs about a character: the marks of any number of players in Fights, *)
(* the accounts of a hit in Damage (which MCCharacter calls Dmg), the      *)
(* orders and events of a walk in Walking (Walks), for any number of orders*)
(* and any route, and the books of experience, skills and magic in         *)
(* Progress (Prog), for any tables.                                        *)
(***************************************************************************)
EXTENDS MCCharacter, TLAPS, Sequences, FiniteSetTheorems, WellFoundedInduction

-----------------------------------------------------------------------------
(* The marks, as one record that the handlers pass on.                     *)

MarkStates ==
  [attacked : [Players -> SUBSET Players], skull : [Players -> Skulls],
   ticks : [Players -> Int], pz : [Players -> BOOLEAN], fight : [Players -> BOOLEAN],
   shown : [Players -> [Players -> Skulls]]]

(* Everybody is shown a skull on a player who has one, and on a player who *)
(* has attacked him.  Nobody has attacked himself.                         *)
Seen(m) ==
  \A v, p \in Players :
    /\ p \notin m.attacked[p]
    /\ (v \in m.attacked[p] \/ m.skull[p] # "none") => m.shown[v][p] # "none"

(* FightOver, of the marks m.                                              *)
Quiet(m) ==
  \A p \in Players : ~m.fight[p] => ~m.pz[p] /\ m.attacked[p] = {} /\ m.skull[p] # "white"

Good(m) == m \in MarkStates /\ Seen(m)
Settled(m) == Good(m) /\ Quiet(m)

IInv ==
  /\ Settled(Marks)
  /\ attackedCreature \in [Players -> Players \cup {NoPlayer}]
  /\ lastHitCreature \in [Players -> Players \cup {NoPlayer}]

(* ... where what is shown of p does not count.                            *)
SeenBut(p, m) ==
  \A v, q \in Players :
    /\ q \notin m.attacked[q]
    /\ (q # p /\ (v \in m.attacked[q] \/ m.skull[q] # "none")) => m.shown[v][q] # "none"

(* Nothing but the marks of p differs, and no fight is over.               *)
OnlyMarksOf(p, m, n) ==
  \A q \in Players :
    /\ m.fight[q] => n.fight[q]
    /\ q # p => n.pz[q] = m.pz[q] /\ n.attacked[q] = m.attacked[q] /\ n.skull[q] = m.skull[q]

LEMMA SkullClient ==
  ASSUME NEW m, Good(m), NEW v \in Players, NEW p \in Players
  PROVE  /\ GetSkullClient(m, v, p) \in Skulls
         /\ (v \in m.attacked[p] \/ m.skull[p] # "none") => GetSkullClient(m, v, p) # "none"
BY DEF Good, MarkStates, GetSkullClient, HasAttacked, Skulls

(* setSkull: everybody is told.                                            *)
LEMMA SetSkullGood ==
  ASSUME NEW m \in MarkStates, NEW p \in Players, SeenBut(p, m), NEW s \in Skulls
  PROVE  /\ Good(SetSkull(m, p, s))
         /\ SetSkull(m, p, s).attacked = m.attacked
         /\ SetSkull(m, p, s).pz = m.pz
         /\ SetSkull(m, p, s).fight = m.fight
         /\ SetSkull(m, p, s).ticks = m.ticks
         /\ SetSkull(m, p, s).skull = [m.skull EXCEPT ![p] = s]
<1>1. PICK n : n = [m EXCEPT !.skull[p] = s]
  OBVIOUS
<1>2. /\ n \in MarkStates
      /\ n.skull = [m.skull EXCEPT ![p] = s] /\ n.attacked = m.attacked /\ n.pz = m.pz
      /\ n.fight = m.fight /\ n.ticks = m.ticks /\ n.shown = m.shown
  BY <1>1 DEF MarkStates
<1>3. \A v \in Players :
        /\ GetSkullClient(n, v, p) \in Skulls
        /\ (v \in n.attacked[p] \/ s # "none") => GetSkullClient(n, v, p) # "none"
  BY <1>2 DEF GetSkullClient, HasAttacked, MarkStates, Skulls
<1>4. PICK o : o = [n EXCEPT !.shown = [v \in Players |-> [n.shown[v] EXCEPT ![p] = GetSkullClient(n, v, p)]]]
  OBVIOUS
<1>5. /\ o.skull = n.skull /\ o.attacked = n.attacked /\ o.pz = n.pz
      /\ o.fight = n.fight /\ o.ticks = n.ticks
      /\ o \in MarkStates
      /\ \A v, q \in Players : o.shown[v][q] = IF q = p THEN GetSkullClient(n, v, p) ELSE m.shown[v][q]
  BY <1>2, <1>3, <1>4 DEF MarkStates
<1>6. Seen(o)
  BY <1>2, <1>3, <1>5 DEF Seen, SeenBut, MarkStates
<1>7. SetSkull(m, p, s) = o
  BY <1>1, <1>4 DEF SetSkull
<1> QED
  BY <1>2, <1>5, <1>6, <1>7 DEF Good

(* addAttacked, where the victim is shown a skull.                         *)
LEMMA AttackShown ==
  ASSUME NEW m, Good(m), NEW p \in Players, NEW t \in Players,
         NEW n, n = AddAttacked(m, p, t)
  PROVE  /\ n \in MarkStates
         /\ n.skull = m.skull /\ n.pz = m.pz /\ n.fight = m.fight /\ n.ticks = m.ticks
         /\ n.shown = m.shown
         /\ \A q \in Players : q # p => n.attacked[q] = m.attacked[q]
         /\ \A q \in Players : q \notin n.attacked[q]
         /\ n.attacked[p] = m.attacked[p] \cup ({t} \ {p})
         /\ m.skull[p] # "none" => Good(n)
<1>1. CASE p = t
  BY <1>1 DEF AddAttacked, Good, Seen, MarkStates
<1>2. CASE p # t
  <2>1. n = [m EXCEPT !.attacked[p] = @ \cup {t}]
    BY <1>2 DEF AddAttacked
  <2>2. PICK A : A = [m.attacked EXCEPT ![p] = @ \cup {t}]
    OBVIOUS
  <2>4. A \in [Players -> SUBSET Players]
    BY <2>2 DEF Good, MarkStates
  <2>5. n = [m EXCEPT !.attacked = A]
    BY <2>1, <2>2
  <2>6. /\ n \in MarkStates
        /\ n.skull = m.skull /\ n.pz = m.pz /\ n.fight = m.fight /\ n.ticks = m.ticks
        /\ n.shown = m.shown /\ n.attacked = A
    BY <2>4, <2>5 DEF Good, MarkStates
  <2>3. \A q \in Players : n.attacked[q] = IF q = p THEN m.attacked[p] \cup {t} ELSE m.attacked[q]
    BY <2>2, <2>6 DEF Good, MarkStates
  <2> QED BY <1>2, <2>6, <2>3 DEF Good, Seen
<1> QED
  BY <1>1, <1>2

LEMMA StrikeBackGood ==
  ASSUME NEW m, Good(m), NEW p \in Players, NEW t \in Players,
         NEW o, o = StrikeBack(m, p, t)
  PROVE  Good(o) /\ OnlyMarksOf(p, m, o) /\ o.fight = m.fight
<1>1. PICK n : n = AddAttacked(m, p, t)
  OBVIOUS
<1>2. /\ n \in MarkStates
      /\ n.skull = m.skull /\ n.pz = m.pz /\ n.fight = m.fight /\ n.ticks = m.ticks
      /\ n.shown = m.shown
      /\ \A q \in Players : q # p => n.attacked[q] = m.attacked[q]
      /\ \A q \in Players : q \notin n.attacked[q]
      /\ n.attacked[p] = m.attacked[p] \cup ({t} \ {p})
  BY <1>1, AttackShown
<1>3. PICK s : s = GetSkullClient(n, t, p)
  OBVIOUS
<1>4. s \in Skulls /\ ((t \in n.attacked[p] \/ n.skull[p] # "none") => s # "none")
  BY <1>2, <1>3 DEF GetSkullClient, HasAttacked, MarkStates, Skulls
<1>5. o = [n EXCEPT !.shown[t][p] = s]
  BY <1>1, <1>3 DEF StrikeBack, SendCreatureSkull
<1>6. /\ o \in MarkStates
      /\ o.skull = n.skull /\ o.pz = n.pz /\ o.fight = n.fight /\ o.ticks = n.ticks
      /\ o.attacked = n.attacked
      /\ o.shown = [n.shown EXCEPT ![t] = [n.shown[t] EXCEPT ![p] = s]]
  <2>1. PICK S : S = [n.shown EXCEPT ![t] = [n.shown[t] EXCEPT ![p] = s]]
    OBVIOUS
  <2>2. S \in [Players -> [Players -> Skulls]]
    BY <1>2, <1>4, <2>1 DEF MarkStates
  <2>3. o = [n EXCEPT !.shown = S]
    BY <1>2, <1>5, <2>1 DEF MarkStates
  <2> QED BY <1>2, <2>1, <2>2, <2>3 DEF MarkStates
<1>7. \A v, q \in Players : o.shown[v][q] = IF v = t /\ q = p THEN s ELSE m.shown[v][q]
  BY <1>2, <1>6 DEF MarkStates
<1>8. Seen(o)
  BY <1>2, <1>4, <1>6, <1>7 DEF Seen, Good
<1> QED
  BY <1>2, <1>6, <1>8 DEF Good, OnlyMarksOf

LEMMA GoodIsSeenBut ==
  ASSUME NEW m, Good(m), NEW p \in Players
  PROVE  m \in MarkStates /\ SeenBut(p, m)
BY DEF Good, Seen, SeenBut

LEMMA FirstStrikeGood ==
  ASSUME NEW m, Good(m), NEW p \in Players, NEW t \in Players,
         NEW o, o = FirstStrike(m, p, t)
  PROVE  Good(o) /\ OnlyMarksOf(p, m, o) /\ o.fight = m.fight
<1>1. PICK k : k = [m EXCEPT !.pz[p] = TRUE]
  OBVIOUS
<1>2. /\ Good(k) /\ k.skull = m.skull /\ k.attacked = m.attacked /\ k.fight = m.fight
      /\ k.pz = [m.pz EXCEPT ![p] = TRUE]
  <2>1. /\ k \in MarkStates /\ k.skull = m.skull /\ k.attacked = m.attacked
        /\ k.fight = m.fight /\ k.shown = m.shown /\ k.pz = [m.pz EXCEPT ![p] = TRUE]
    BY <1>1 DEF Good, MarkStates
  <2> QED BY <2>1 DEF Good, Seen
<1>3. PICK n : n = AddAttacked(k, p, t)
  OBVIOUS
<1>4. /\ n \in MarkStates
      /\ n.skull = k.skull /\ n.pz = k.pz /\ n.fight = k.fight /\ n.shown = k.shown
      /\ \A q \in Players : q # p => n.attacked[q] = k.attacked[q]
      /\ \A q \in Players : q \notin n.attacked[q]
      /\ k.skull[p] # "none" => Good(n)
  BY <1>2, <1>3, AttackShown
<1>5. SeenBut(p, n)
  BY <1>2, <1>4 DEF SeenBut, Good, Seen
<1>6. PICK w : w = SetSkull(n, p, "white")
  OBVIOUS
<1>7. /\ Good(w) /\ w.attacked = n.attacked /\ w.pz = n.pz /\ w.fight = n.fight
      /\ w.skull = [n.skull EXCEPT ![p] = "white"]
  BY <1>4, <1>5, <1>6, SetSkullGood DEF Skulls
<1>8. \/ o = k
      \/ o = w
      \/ o = SendCreatureSkull(n, t, p)
      \/ o = n /\ k.skull[p] # "none"
  <2>1. w.skull[p] = "white"
    BY <1>4, <1>7 DEF MarkStates
  <2> QED BY <1>1, <1>3, <1>4, <1>6, <2>1 DEF FirstStrike
<1>9. CASE o = k
  BY <1>2, <1>9 DEF OnlyMarksOf, Good, MarkStates
<1>10. CASE o = w
  BY <1>2, <1>4, <1>7, <1>10 DEF OnlyMarksOf, Good, MarkStates
<1>11. CASE o = SendCreatureSkull(n, t, p)
  <2>1. o = StrikeBack(k, p, t)
    BY <1>3, <1>11 DEF StrikeBack
  <2>2. Good(o) /\ OnlyMarksOf(p, k, o) /\ o.fight = k.fight
    BY <1>2, <2>1, StrikeBackGood
  <2>3. \A q \in Players : q # p => k.pz[q] = m.pz[q]
    BY <1>2 DEF Good, MarkStates
  <2>4. \A q \in Players :
          q # p => o.pz[q] = k.pz[q] /\ o.attacked[q] = k.attacked[q] /\ o.skull[q] = k.skull[q]
    BY <2>2 DEF OnlyMarksOf
  <2>5. OnlyMarksOf(p, m, o)
    <3>1. o.fight = m.fight /\ k.attacked = m.attacked /\ k.skull = m.skull
      BY <1>2, <2>2
    <3> QED BY <2>3, <2>4, <3>1 DEF OnlyMarksOf
  <2> QED BY <1>2, <2>2, <2>5
<1>12. CASE o = n /\ k.skull[p] # "none"
  BY <1>2, <1>4, <1>12 DEF OnlyMarksOf, Good, MarkStates
<1> QED
  BY <1>8, <1>9, <1>10, <1>11, <1>12

LEMMA InFight ==
  ASSUME NEW m, Good(m), NEW p \in Players, NEW n, n = AddInFightTicks(m, p)
  PROVE  /\ Good(n) /\ n.fight = [m.fight EXCEPT ![p] = TRUE]
         /\ n.skull = m.skull /\ n.pz = m.pz /\ n.attacked = m.attacked
<1>1. /\ n \in MarkStates /\ n.fight = [m.fight EXCEPT ![p] = TRUE]
      /\ n.skull = m.skull /\ n.pz = m.pz /\ n.attacked = m.attacked /\ n.shown = m.shown
  BY DEF AddInFightTicks, Good, MarkStates
<1> QED
  BY <1>1 DEF Good, Seen

(* onAttackedCreature: no mark is left on one who is not in a fight.       *)
LEMMA AttackSettles ==
  ASSUME NEW m, Settled(m), NEW p \in Players, NEW t \in Players, NEW b \in BOOLEAN,
         b \/ m.fight[p],
         NEW o, o = OnAttackedCreature(m, p, t, b)
  PROVE  Settled(o)
<1>1. CASE zone[t] = "pvp"
  BY <1>1 DEF OnAttackedCreature
<1>2. CASE zone[t] # "pvp"
  <2>1. PICK n : n = AddInFightTicks(m, t)
    OBVIOUS
  <2>2. /\ Good(n) /\ n.fight = [m.fight EXCEPT ![t] = TRUE]
        /\ n.skull = m.skull /\ n.pz = m.pz /\ n.attacked = m.attacked
    BY <2>1, InFight DEF Settled
  <2>3. PICK x : x = IF IsPartner(p, t) THEN m
           ELSE IF n.skull[p] = "none" /\ GetSkullClient(n, p, t) = "yellow" THEN StrikeBack(n, p, t)
           ELSE IF ~ HasAttacked(n, t, p) THEN FirstStrike(n, p, t)
           ELSE n
    OBVIOUS
  <2>4. Good(x) /\ OnlyMarksOf(p, m, x)
    <3>1. CASE x = m
      BY <3>1 DEF Settled, OnlyMarksOf
    <3>2. CASE x = n
      BY <2>2, <3>2 DEF OnlyMarksOf, Settled, Good, MarkStates
    <3>3. CASE x = StrikeBack(n, p, t)
      <4>1. Good(x) /\ OnlyMarksOf(p, n, x)
        BY <2>2, <3>3, StrikeBackGood
      <4> QED BY <2>2, <4>1 DEF OnlyMarksOf, Settled, Good, MarkStates
    <3>4. CASE x = FirstStrike(n, p, t)
      <4>1. Good(x) /\ OnlyMarksOf(p, n, x)
        BY <2>2, <3>4, FirstStrikeGood
      <4> QED BY <2>2, <4>1 DEF OnlyMarksOf, Settled, Good, MarkStates
    <3> QED BY <2>3, <3>1, <3>2, <3>3, <3>4
  <2>5. o = IF b THEN AddInFightTicks(x, p) ELSE x
    BY <1>2, <2>1, <2>3 DEF OnAttackedCreature
  <2>6. CASE b
    <3>1. /\ Good(o) /\ o.fight = [x.fight EXCEPT ![p] = TRUE]
          /\ o.skull = x.skull /\ o.pz = x.pz /\ o.attacked = x.attacked
      BY <2>4, <2>5, <2>6, InFight
    <3>2. \A q \in Players : q = p \/ m.fight[q] => o.fight[q]
      BY <2>4, <3>1 DEF OnlyMarksOf, Good, MarkStates
    <3> QED BY <2>4, <3>1, <3>2 DEF OnlyMarksOf, Settled, Quiet
  <2>7. CASE ~b
    <3>1. o = x /\ x.fight[p]
      BY <2>4, <2>5, <2>7 DEF OnlyMarksOf
    <3> QED BY <2>4, <3>1 DEF OnlyMarksOf, Settled, Quiet
  <2> QED BY <2>6, <2>7
<1> QED
  BY <1>1, <1>2

LEMMA FightSettles ==
  ASSUME NEW m, Settled(m), NEW p \in Players, NEW n, n = AddInFightTicks(m, p)
  PROVE  Settled(n) /\ n.fight[p]
<1>1. /\ Good(n) /\ n.fight = [m.fight EXCEPT ![p] = TRUE]
      /\ n.skull = m.skull /\ n.pz = m.pz /\ n.attacked = m.attacked
  BY InFight DEF Settled
<1>2. \A q \in Players : q = p \/ m.fight[q] => n.fight[q]
  BY <1>1 DEF Settled, Good, MarkStates
<1> QED
  BY <1>1, <1>2 DEF Settled, Quiet

LEMMA StruckSettles ==
  ASSUME Settled(Marks), NEW p \in Players, NEW t \in Players
  PROVE  Settled(Struck(p, t))
<1>1. PICK m : m = Marks
  OBVIOUS
<1>2. PICK n : n = OnAttackedCreature(m, p, t, TRUE)
  OBVIOUS
<1>3. Settled(n)
  BY <1>1, <1>2, AttackSettles
<1> QED
  BY <1>1, <1>2, <1>3, FightSettles DEF Struck, OnAttacked

LEMMA SettledSkull ==
  ASSUME NEW m, Settled(m), NEW p \in Players, NEW s \in Skulls \ {"white"},
         NEW n, n = SetSkull(m, p, s)
  PROVE  Settled(n) /\ n.fight = m.fight
<1>1. /\ Good(n) /\ n.attacked = m.attacked /\ n.pz = m.pz /\ n.fight = m.fight
      /\ n.skull = [m.skull EXCEPT ![p] = s]
  BY GoodIsSeenBut, SetSkullGood DEF Settled
<1>2. \A q \in Players : n.skull[q] \in {m.skull[q], s}
  BY <1>1 DEF Settled, Good, MarkStates
<1> QED
  BY <1>1, <1>2 DEF Settled, Quiet

(* onKilledCreature: a skull that lasts, and the lock only in a fight.     *)
LEMMA KillSettles ==
  ASSUME NEW m, Settled(m), NEW p \in Players, NEW t \in Players, NEW b \in BOOLEAN,
         NEW o, o = OnKilledCreature(m, p, t, b)
  PROVE  Settled(o)
<1>1. PICK k : k = [m EXCEPT !.ticks[p] = @ + 1]
  OBVIOUS
<1>2. Settled(k)
  <2>1. /\ k \in MarkStates /\ k.skull = m.skull /\ k.attacked = m.attacked
        /\ k.fight = m.fight /\ k.shown = m.shown /\ k.pz = m.pz
    <3>1. PICK T : T = [m.ticks EXCEPT ![p] = @ + 1]
      OBVIOUS
    <3>2. T \in [Players -> Int]
      BY <3>1 DEF Settled, Good, MarkStates
    <3>3. k = [m EXCEPT !.ticks = T]
      BY <1>1, <3>1
    <3> QED BY <3>2, <3>3 DEF Settled, Good, MarkStates
  <2> QED BY <2>1 DEF Settled, Good, Seen, Quiet
<1>3. PICK n : n = IF IsMurder(m, p, t) THEN AddUnjustifiedDead(m, p) ELSE m
  OBVIOUS
<1>4. Settled(n)
  <2>1. n \in {m, k, SetSkull(k, p, "black"), SetSkull(k, p, "red")}
    BY <1>1, <1>3 DEF AddUnjustifiedDead
  <2>2. Settled(SetSkull(k, p, "black")) /\ Settled(SetSkull(k, p, "red"))
    BY <1>2, SettledSkull DEF Skulls
  <2> QED BY <1>2, <2>1, <2>2
<1>5. n.fight = m.fight
  <2>1. k.fight = m.fight
    BY <1>1 DEF Settled, Good, MarkStates
  <2>2. n \in {m, k, SetSkull(k, p, "black"), SetSkull(k, p, "red")}
    BY <1>1, <1>3 DEF AddUnjustifiedDead
  <2>3. SetSkull(k, p, "black").fight = k.fight /\ SetSkull(k, p, "red").fight = k.fight
    BY <1>2, SettledSkull DEF Skulls
  <2> QED BY <2>1, <2>2, <2>3
<1>6. o = n \/ (m.fight[p] /\ o = [n EXCEPT !.pz[p] = TRUE])
  BY <1>3 DEF OnKilledCreature
<1>7. CASE o = n
  BY <1>4, <1>7
<1>8. CASE m.fight[p] /\ o = [n EXCEPT !.pz[p] = TRUE]
  <2>1. n.fight[p]
    BY <1>5, <1>8
  <2>2. /\ o \in MarkStates /\ o.skull = n.skull /\ o.attacked = n.attacked
        /\ o.fight = n.fight /\ o.shown = n.shown
        /\ \A q \in Players : q # p => o.pz[q] = n.pz[q]
    <3>1. PICK Z : Z = [n.pz EXCEPT ![p] = TRUE]
      OBVIOUS
    <3>2. Z \in [Players -> BOOLEAN] /\ \A q \in Players : q # p => Z[q] = n.pz[q]
      BY <1>4, <3>1 DEF Settled, Good, MarkStates
    <3>3. o = [n EXCEPT !.pz = Z]
      BY <1>8, <3>1
    <3> QED BY <1>4, <3>2, <3>3 DEF Settled, Good, MarkStates
  <2> QED BY <1>4, <2>1, <2>2 DEF Settled, Good, Seen, Quiet
<1> QED
  BY <1>6, <1>7, <1>8

(* Fewer attacked, and the end of a fight.                                 *)
LEMMA FewerAttacked ==
  ASSUME NEW m, Settled(m), NEW A \in [Players -> SUBSET Players],
         \A p \in Players : A[p] \subseteq m.attacked[p],
         NEW n, n = [m EXCEPT !.attacked = A]
  PROVE  Settled(n)
<1>1. /\ n \in MarkStates /\ n.skull = m.skull /\ n.attacked = A
      /\ n.fight = m.fight /\ n.shown = m.shown /\ n.pz = m.pz
  BY DEF Settled, Good, MarkStates
<1> QED
  BY <1>1 DEF Settled, Good, Seen, Quiet

LEMMA EndSettles ==
  ASSUME NEW m, Settled(m), NEW p \in Players, NEW o, o = OnEndCondition(m, p)
  PROVE  Settled(o)
<1>1. PICK n : n = ClearAttacked([m EXCEPT !.fight[p] = FALSE, !.pz[p] = FALSE], p)
  OBVIOUS
<1>2. /\ n \in MarkStates /\ n.skull = m.skull /\ n.shown = m.shown
      /\ n.attacked = [m.attacked EXCEPT ![p] = {}]
      /\ n.fight = [m.fight EXCEPT ![p] = FALSE] /\ n.pz = [m.pz EXCEPT ![p] = FALSE]
  <2>1. PICK k : k = [m EXCEPT !.fight[p] = FALSE, !.pz[p] = FALSE]
    OBVIOUS
  <2>2. /\ k \in MarkStates /\ k.skull = m.skull /\ k.shown = m.shown /\ k.attacked = m.attacked
        /\ k.fight = [m.fight EXCEPT ![p] = FALSE] /\ k.pz = [m.pz EXCEPT ![p] = FALSE]
    BY <2>1 DEF Settled, Good, MarkStates
  <2>3. n = [k EXCEPT !.attacked[p] = {}]
    BY <1>1, <2>1 DEF ClearAttacked
  <2> QED BY <2>2, <2>3 DEF MarkStates
<1>3. Good(n)
  BY <1>2 DEF Settled, Good, Seen, MarkStates
<1>4. \A q \in Players :
        IF q = p THEN ~n.pz[q] /\ n.attacked[q] = {}
        ELSE n.fight[q] = m.fight[q] /\ n.pz[q] = m.pz[q] /\ n.attacked[q] = m.attacked[q]
  BY <1>2 DEF Settled, Good, MarkStates
<1>5. CASE n.skull[p] \in {"red", "black"}
  <2>1. o = n
    BY <1>1, <1>5 DEF OnEndCondition
  <2>2. \A q \in Players : ~n.fight[q] => ~n.pz[q] /\ n.attacked[q] = {} /\ n.skull[q] # "white"
    BY <1>2, <1>4, <1>5 DEF Settled, Quiet
  <2> QED BY <1>3, <2>1, <2>2 DEF Settled, Quiet
<1>6. CASE n.skull[p] \notin {"red", "black"}
  <2>1. o = SetSkull(n, p, "none")
    BY <1>1, <1>6 DEF OnEndCondition
  <2>2. /\ Good(o) /\ o.attacked = n.attacked /\ o.pz = n.pz /\ o.fight = n.fight
        /\ o.skull = [n.skull EXCEPT ![p] = "none"]
    <3>1. n \in MarkStates /\ SeenBut(p, n) /\ "none" \in Skulls
      BY <1>3, GoodIsSeenBut DEF Skulls
    <3> QED BY <2>1, <3>1, SetSkullGood
  <2>3. \A q \in Players : o.skull[q] = IF q = p THEN "none" ELSE m.skull[q]
    BY <1>2, <2>2 DEF MarkStates
  <2> QED BY <1>4, <2>2, <2>3 DEF Settled, Quiet
<1> QED
  BY <1>5, <1>6

-----------------------------------------------------------------------------
(* The actions.                                                            *)

LEMMA MarksOfState ==
  ASSUME NEW m, SetMarks(m), m \in MarkStates
  PROVE  Marks' = m
<1>1. m = [attacked |-> m.attacked, skull |-> m.skull, ticks |-> m.ticks, pz |-> m.pz,
           fight |-> m.fight, shown |-> m.shown]
  BY DEF MarkStates
<1> QED
  BY <1>1 DEF SetMarks, Marks

LEMMA MarksInit == Init => IInv
<1> SUFFICES ASSUME Init PROVE IInv
  OBVIOUS
<1>1. Marks \in MarkStates
  BY DEF Init, Marks, MarkStates, None, Skulls
<1>2. \A v, p \in Players : attacked[p] = {} /\ skull[p] = "none" /\ ~pzLocked[p]
  BY DEF Init, None
<1>3. Settled(Marks)
  BY <1>1, <1>2 DEF Settled, Good, Seen, Quiet, Marks
<1> QED
  BY <1>3 DEF Init, IInv

LEMMA FightStepKeeps == IInv /\ [Next]_vars => IInv'
<1> SUFFICES ASSUME IInv, [Next]_vars PROVE IInv'
  OBVIOUS
<1> DEFINE Orders == [Players -> Players \cup {NoPlayer}]
<1>1. Settled(Marks) /\ attackedCreature \in Orders /\ lastHitCreature \in Orders
  BY DEF IInv
<1>2. ASSUME NEW m, Settled(m), SetMarks(m) PROVE Settled(Marks)'
  <2>1. Marks' = m
    BY <1>2, MarksOfState DEF Settled, Good
  <2> QED BY <1>2, <2>1 DEF Settled, Good, Seen, Quiet
<1>3. ASSUME UNCHANGED <<attacked, skull, skullTicks, pzLocked, inFight, shown>>
      PROVE  Settled(Marks)'
  <2>1. SetMarks(Marks)
    BY <1>3 DEF SetMarks, Marks
  <2>2. PICK m : m = Marks
    OBVIOUS
  <2> QED BY <1>1, <1>2, <2>1, <2>2
<1>4. ASSUME NEW p \in Players, NEW t \in Players, NEW b \in BOOLEAN,
             PlayerSetAttackedCreature(p, t, b)
      PROVE  IInv'
  <2>1. attackedCreature' \in Orders /\ lastHitCreature' = lastHitCreature
    BY <1>1, <1>4 DEF PlayerSetAttackedCreature
  <2>2. Settled(Marks)'
    <3>1. CASE CanTargetCreature(p, t, b)
      <4>1. SetMarks(Struck(p, t))
        BY <1>4, <3>1 DEF PlayerSetAttackedCreature, Struck
      <4>2. PICK m : m = Struck(p, t)
        OBVIOUS
      <4> QED BY <1>1, <1>2, <4>1, <4>2, StruckSettles
    <3>2. CASE ~CanTargetCreature(p, t, b)
      BY <1>3, <1>4, <3>2 DEF PlayerSetAttackedCreature
    <3> QED BY <3>1, <3>2
  <2> QED BY <1>1, <2>1, <2>2 DEF IInv
<1>5. ASSUME NEW p \in Players, NEW t \in Players, NEW b, CombatChangeHealth(p, t, b)
      PROVE  lastHitCreature' \in Orders
  BY <1>1, <1>5 DEF CombatChangeHealth, AddDamagePoints
<1>6. ASSUME NEW p \in Players, NEW t \in Players, NEW b \in BOOLEAN, Cast(p, t, b)
      PROVE  IInv'
  <2>1. attackedCreature' = attackedCreature /\ lastHitCreature' \in Orders
    BY <1>1, <1>5, <1>6 DEF Cast
  <2>2. Settled(Marks)'
    <3>1. SetMarks(Struck(p, t))
      BY <1>6 DEF Cast
    <3>2. PICK m : m = Struck(p, t)
      OBVIOUS
    <3> QED BY <1>1, <1>2, <3>1, <3>2, StruckSettles
  <2> QED BY <1>1, <2>1, <2>2 DEF IInv
<1>7. ASSUME NEW p \in Players, NEW t \in Players, NEW b \in BOOLEAN, UseRune(p, t, b)
      PROVE  IInv'
  <2>1. attackedCreature' = attackedCreature /\ lastHitCreature' \in Orders
    BY <1>1, <1>5, <1>7 DEF UseRune
  <2>2. PICK k : k = IF CanDoCombatOnTile(t) /\ CanDoCombat(p, t) THEN Struck(p, t) ELSE Marks
    OBVIOUS
  <2>3. Settled(k)
    BY <1>1, <2>2, StruckSettles
  <2>4. PICK m : m = AddInFightTicks(k, p)
    OBVIOUS
  <2>5. Settled(m) /\ m.fight[p]
    BY <2>3, <2>4, FightSettles
  <2>6. PICK o : o = OnAttackedCreature(m, p, t, FALSE)
    OBVIOUS
  <2>7. Settled(o)
    BY <2>5, <2>6, AttackSettles
  <2>8. SetMarks(o)
    BY <1>7, <2>2, <2>4, <2>6 DEF UseRune
  <2> QED BY <1>1, <1>2, <2>1, <2>7, <2>8 DEF IInv
<1>8. ASSUME NEW p \in Players, NEW b \in BOOLEAN, DoAttacking(p, b)
      PROVE  IInv'
  <2>1. PICK t \in Players : t = attackedCreature[p]
    BY <1>1, <1>8 DEF DoAttacking
  <2>2. attackedCreature' = attackedCreature /\ lastHitCreature' \in Orders
    BY <1>1, <1>5, <1>8, <2>1 DEF DoAttacking
  <2>3. Settled(Marks)'
    <3>1. SetMarks(Struck(p, t))
      BY <1>8, <2>1 DEF DoAttacking
    <3>2. PICK m : m = Struck(p, t)
      OBVIOUS
    <3> QED BY <1>1, <1>2, <3>1, <3>2, StruckSettles
  <2> QED BY <1>1, <2>2, <2>3 DEF IInv
<1>9. ASSUME NEW p \in Players, PlayerCancelAttack(p) PROVE IInv'
  BY <1>1, <1>3, <1>9 DEF PlayerCancelAttack, IInv
<1>10. ASSUME NEW p \in Players, EndFight(p) PROVE IInv'
  <2>1. PICK m : m = OnEndCondition(Marks, p)
    OBVIOUS
  <2>2. Settled(m)
    BY <1>1, <2>1, EndSettles
  <2>3. Settled(Marks)'
    BY <1>2, <1>10, <2>1, <2>2 DEF EndFight
  <2> QED BY <1>1, <1>10, <2>3 DEF EndFight, IInv
<1>11. ASSUME NEW p \in Players, CheckSkullTicks(p) PROVE IInv'
  <2>1. PICK m : m = [Marks EXCEPT !.ticks[p] = IF @ > 0 THEN @ - 1 ELSE 0]
    OBVIOUS
  <2>2. Settled(m)
    <3>1. PICK T : T = [skullTicks EXCEPT ![p] = IF @ > 0 THEN @ - 1 ELSE 0]
      OBVIOUS
    <3>2. skullTicks \in [Players -> Int]
      BY <1>1 DEF Settled, Good, MarkStates, Marks
    <3>3. T \in [Players -> Int]
      BY <3>1, <3>2
    <3>4. m = [Marks EXCEPT !.ticks = T]
      BY <2>1, <3>1 DEF Marks
    <3>5. PICK k : k = Marks
      OBVIOUS
    <3>6. /\ m \in MarkStates /\ m.skull = k.skull /\ m.attacked = k.attacked
          /\ m.fight = k.fight /\ m.shown = k.shown /\ m.pz = k.pz
      BY <1>1, <3>3, <3>4, <3>5 DEF Settled, Good, MarkStates
    <3> QED BY <1>1, <3>5, <3>6 DEF Settled, Good, Seen, Quiet
  <2>3. PICK o : o = IF m.skull[p] \in {"red", "black"} /\ m.ticks[p] < 1 /\ ~ m.fight[p]
                     THEN SetSkull(m, p, "none") ELSE m
    OBVIOUS
  <2>4. Settled(o)
    BY <2>2, <2>3, SettledSkull DEF Skulls
  <2>5. SetMarks(o)
    BY <1>11, <2>1, <2>3 DEF CheckSkullTicks
  <2> QED BY <1>1, <1>2, <1>11, <2>4, <2>5 DEF CheckSkullTicks, IInv
<1>12. ASSUME NEW p \in Players, NEW z \in Zones, OnChangeZone(p, z) PROVE IInv'
  <2>1. attackedCreature' \in Orders
    BY <1>1, <1>12 DEF OnChangeZone
  <2> QED BY <1>1, <1>3, <1>12, <2>1 DEF OnChangeZone, IInv
<1>13. ASSUME NEW p \in Players, Login(p) PROVE IInv'
  <2>1. PICK m : m = Marks
    OBVIOUS
  <2>2. Settled(m) /\ m \in MarkStates
    BY <1>1, <2>1 DEF Settled, Good
  <2>3. PICK S : S = [v \in Players |-> [q \in Players |->
                       IF p \in {v, q} THEN GetSkullClient(m, v, q) ELSE m.shown[v][q]]]
    OBVIOUS
  <2>4. shown' = S
    BY <1>13, <2>1, <2>3 DEF Login, Marks
  <2>5. S \in [Players -> [Players -> Skulls]]
    BY <2>2, <2>3, SkullClient DEF Settled, MarkStates
  <2>6. PICK n : n = [m EXCEPT !.shown = S]
    OBVIOUS
  <2>7. /\ n \in MarkStates /\ n.skull = m.skull /\ n.attacked = m.attacked /\ n.ticks = m.ticks
        /\ n.fight = m.fight /\ n.shown = S /\ n.pz = m.pz
    BY <2>2, <2>5, <2>6 DEF MarkStates
  <2>8. Seen(n)
    BY <2>2, <2>3, <2>7, SkullClient DEF Settled, Good, Seen
  <2>9. Settled(n)
    BY <2>2, <2>7, <2>8 DEF Settled, Good, Quiet
  <2>10. SetMarks(n)
    BY <1>13, <2>1, <2>4, <2>7 DEF Login, SetMarks, Marks
  <2>11. lastHitCreature' \in Orders
    BY <1>1, <1>13 DEF Login
  <2> QED BY <1>1, <1>2, <1>13, <2>9, <2>10, <2>11 DEF Login, IInv
<1>14. ASSUME NEW t \in Players, NEW recent \in SUBSET Players, OnDeath(t, recent)
       PROVE  IInv'
  <2> DEFINE last     == lastHitCreature[t]
             killer   == IF last \in Present THEN last ELSE NoPlayer
             hitters  == {a \in Present : damageMap[t][a] > 0}
             top      == {a \in hitters \cap recent :
                            \A b \in hitters \cap recent : damageMap[t][a] >= damageMap[t][b]}
             m0       == IF killer # NoPlayer THEN OnKilledCreature(Marks, killer, t, TRUE) ELSE Marks
             m1       == [m0 EXCEPT !.attacked = [a \in Players |->
                            IF a \in hitters \ {t} THEN @[a] \ {t} ELSE @[a]]]
             most     == IF top = {} THEN NoPlayer ELSE CHOOSE a \in top : TRUE
             second   == most \notin {NoPlayer, killer}
             m2       == IF second THEN OnKilledCreature(m1, most, t, FALSE) ELSE m1
             m3       == OnEndCondition(m2, t)
  <2>1. SetMarks(m3)
    BY <1>14 DEF OnDeath
  <2>2. Present \subseteq Players
    BY DEF Present
  <2>3. Settled(m0)
    <3>1. CASE killer # NoPlayer
      <4>1. killer \in Players
        BY <2>2, <3>1
      <4>2. PICK m, o : m = Marks /\ o = OnKilledCreature(m, killer, t, TRUE)
        OBVIOUS
      <4>3. Settled(o)
        BY <1>1, <4>1, <4>2, KillSettles
      <4> QED BY <3>1, <4>2, <4>3
    <3>2. CASE killer = NoPlayer
      BY <1>1, <3>2
    <3> QED BY <3>1, <3>2
  <2>4. Settled(m1)
    <3> HIDE DEF m0, hitters
    <3>1. PICK m, H : m = m0 /\ H = hitters
      OBVIOUS
    <3>2. PICK A : A = [a \in Players |-> IF a \in H \ {t} THEN m.attacked[a] \ {t}
                                                           ELSE m.attacked[a]]
      OBVIOUS
    <3>3. A \in [Players -> SUBSET Players] /\ \A a \in Players : A[a] \subseteq m.attacked[a]
      BY <2>3, <3>1, <3>2 DEF Settled, Good, MarkStates
    <3>4. m1 = [m EXCEPT !.attacked = A]
      BY <2>3, <3>1, <3>2 DEF Settled, Good, MarkStates
    <3> HIDE DEF m1
    <3> QED BY <2>3, <3>1, <3>3, <3>4, FewerAttacked
  <2>5. Settled(m2)
    <3> HIDE DEF m1
    <3>1. CASE second
      <4>1. most \in Players
        BY <2>2, <3>1
      <4>2. PICK m, a, o : m = m1 /\ a = most /\ o = OnKilledCreature(m, a, t, FALSE)
        OBVIOUS
      <4> HIDE DEF most
      <4>3. Settled(o)
        BY <2>4, <4>1, <4>2, KillSettles
      <4> QED BY <3>1, <4>2, <4>3
    <3>2. CASE ~second
      BY <2>4, <3>2
    <3> QED BY <3>1, <3>2
  <2>6. Settled(m3)
    <3> HIDE DEF m2
    <3>1. PICK m, o : m = m2 /\ o = OnEndCondition(m, t)
      OBVIOUS
    <3> QED BY <2>5, <3>1, EndSettles
  <2>7. Settled(Marks)'
    <3> HIDE DEF m3
    <3>1. PICK m : m = m3
      OBVIOUS
    <3> QED BY <1>2, <2>1, <2>6, <3>1
  <2>8. attackedCreature' \in Orders
    BY <1>1, <1>14 DEF OnDeath, Lost
  <2>9. lastHitCreature' = lastHitCreature
    BY <1>14 DEF OnDeath
  <2> QED BY <1>1, <2>7, <2>8, <2>9 DEF IInv
<1>15. CASE UNCHANGED vars
  BY <1>1, <1>3, <1>15 DEF vars, IInv
<1> QED
  BY <1>4, <1>6, <1>7, <1>8, <1>9, <1>10, <1>11, <1>12, <1>13, <1>14, <1>15 DEF Next

(* A fight leaves nothing behind, and its victims see who may be killed:   *)
(* a player out of a fight is not locked, is held to have attacked nobody  *)
(* and has no white skull, and the client of every victim draws a skull on *)
(* the attacker, through any sequence of attacks, deaths, logins, runes    *)
(* and skulls that wear off, for any number of players and any limits.     *)
THEOREM MarksAlwaysAgree == Spec => []MarksAgree
<1>1. IInv => MarksAgree
  <2> SUFFICES ASSUME IInv PROVE MarksAgree
    OBVIOUS
  <2>1. Seen(Marks) /\ Quiet(Marks)
    BY DEF IInv, Settled, Good
  <2>2. FightOver
    BY <2>1 DEF Quiet, Marks, FightOver
  <2>3. MarksShown
    BY <2>1 DEF Seen, Marks, MarksShown, Present
  <2> QED BY <2>2, <2>3 DEF MarksAgree
<1> QED
  BY <1>1, MarksInit, FightStepKeeps, PTL DEF Spec

-----------------------------------------------------------------------------
(* The accounts of a hit.                                                  *)

Hits == [primary : Int, secondary : Int, type : Dmg!Types,
         origin : {"none", "spell"}, attacker : BOOLEAN]
Accounts == [health : Int, mana : Int, credit : Int, allowed : Int]

(* What is left of the hit h, whatever its sign.                           *)
Left(h) == Dmg!Abs(h.primary) + Dmg!Abs(h.secondary)

(* What was taken so far and what the hit can still take stay within what  *)
(* it was allowed; nothing was taken before a hit meets its first barrier. *)
Books(h, s, place) ==
  /\ s.mana >= 0 /\ s.mana + s.health <= s.allowed
  /\ s.credit = IF h.attacker THEN s.mana + s.health ELSE 0
  /\ place \in {"block", "mana"} => s.mana = 0 /\ s.health = 0 /\ s.allowed = Left(h)
  /\ place = "change" => s.health = 0 /\ s.mana + Left(h) <= s.allowed
  /\ place = "health" => /\ h.primary >= 0 /\ h.secondary >= 0
                         /\ s.health = 0 /\ s.mana + h.primary + h.secondary <= s.allowed

HitInv ==
  /\ health \in Nat /\ health <= MaxHealth /\ mana \in Nat
  /\ hit \in Hits /\ spent \in Accounts
  /\ Books(hit, spent, stage)

LEMMA HitInit == Dmg!Init => HitInv
BY DamageAssumption DEF Dmg!Init, Dmg!ConstantsFit, HitInv, Hits, Accounts, Books, Left, Dmg!Abs,
   Dmg!NoHit, Dmg!NothingSpent, Dmg!Types

(* What a health script leaves is what the hit may take from now on.       *)
LEMMA AskedKeeps ==
  ASSUME HitInv, stage \in {"change", "health"}, NEW answer \in Dmg!Answers,
         Dmg!AskHealthScript(hit, answer)
  PROVE  hit' \in Hits /\ spent' \in Accounts /\ Books(hit', spent', stage')
<1>1. PICK h : h = hit'
  OBVIOUS
<1>2. h \in Hits /\ h.attacker = hit.attacker
  <2>1. PICK e : e = Dmg!ExecuteHealthChange(hit, answer)
    OBVIOUS
  <2>2. e \in Hits /\ e.attacker = hit.attacker
    <3>1. PICK x, y, z :
            /\ x = IF answer.heals THEN answer.primary ELSE -answer.primary
            /\ y = IF answer.heals THEN answer.secondary ELSE -answer.secondary
            /\ z = IF answer.heals THEN "healing" ELSE "physical"
      OBVIOUS
    <3>2. answer.primary \in Int /\ answer.secondary \in Int
      BY DEF Dmg!Answers
    <3>3. x \in Int /\ y \in Int /\ z \in Dmg!Types
      BY <3>1, <3>2 DEF Dmg!Types
    <3>4. e = hit \/ e = [hit EXCEPT !.primary = x, !.secondary = y, !.type = z]
      BY <2>1, <3>1 DEF Dmg!ExecuteHealthChange
    <3> QED BY <3>3, <3>4 DEF HitInv, Hits
  <2>3. h = [e EXCEPT !.origin = "none"]
    BY <1>1, <2>1 DEF Dmg!AskHealthScript
  <2> QED BY <2>2, <2>3 DEF Hits
<1>3. /\ spent' = [spent EXCEPT !.allowed = spent.mana + Left(h)] /\ stage' = "change"
  <2>1. /\ spent' = [spent EXCEPT !.allowed = spent.mana + Dmg!Abs(h.primary) + Dmg!Abs(h.secondary)]
        /\ stage' = "change"
    BY <1>1 DEF Dmg!AskHealthScript
  <2>2. /\ Dmg!Abs(h.primary) \in Int /\ Dmg!Abs(h.secondary) \in Int
        /\ spent.mana \in Int
    BY <1>2 DEF Hits, Dmg!Abs, HitInv, Accounts
  <2>3. spent.mana + Dmg!Abs(h.primary) + Dmg!Abs(h.secondary) = spent.mana + Left(h)
    BY <2>2 DEF Left
  <2> QED BY <2>1, <2>3
<1>4. Left(h) \in Int /\ Left(h) >= 0
  BY <1>2 DEF Left, Hits, Dmg!Abs
<1>5. spent.health = 0 /\ spent \in Accounts
  BY DEF HitInv, Books
<1>6. /\ spent' \in Accounts
      /\ spent'.mana = spent.mana /\ spent'.health = 0 /\ spent'.credit = spent.credit
      /\ spent'.allowed = spent.mana + Left(h)
  BY <1>3, <1>4, <1>5 DEF Accounts
<1> QED
  BY <1>1, <1>2, <1>3, <1>4, <1>5, <1>6 DEF HitInv, Books, Accounts

LEMMA DoTargetCombatKeeps ==
  ASSUME HitInv, NEW p \in Int, NEW s \in Int, NEW type \in Dmg!Types, NEW attacker \in BOOLEAN,
         NEW halved \in BOOLEAN, Dmg!DoTargetCombat(p, s, type, attacker, halved)
  PROVE  HitInv'
<1>1. PICK d \in [primary : Int, secondary : Int] :
        d = IF halved /\ (p < 0 \/ s < 0)
            THEN [primary |-> Dmg!Half(p), secondary |-> Dmg!Half(s)] ELSE [primary |-> p, secondary |-> s]
  <2>1. Dmg!Half(p) \in Int /\ Dmg!Half(s) \in Int
    BY DEF Dmg!Half
  <2>2. [primary |-> p, secondary |-> s] \in [primary : Int, secondary : Int]
    OBVIOUS
  <2>3. [primary |-> Dmg!Half(p), secondary |-> Dmg!Half(s)] \in [primary : Int, secondary : Int]
    BY <2>1
  <2>4. CASE halved /\ (p < 0 \/ s < 0)
    BY <2>3, <2>4
  <2>5. CASE ~(halved /\ (p < 0 \/ s < 0))
    BY <2>2, <2>5
  <2> QED BY <2>4, <2>5
<1>2. /\ hit' = [primary |-> d.primary, secondary |-> d.secondary, type |-> type,
                 origin |-> "spell", attacker |-> attacker]
      /\ spent' = [Dmg!NothingSpent EXCEPT !.allowed = Dmg!Abs(d.primary) + Dmg!Abs(d.secondary)]
      /\ stage' \in {"mana", "block"}
      /\ UNCHANGED <<health, mana>>
  BY <1>1 DEF Dmg!DoTargetCombat
<1>3. /\ hit' \in Hits /\ Left(hit') \in Int /\ Left(hit') >= 0
      /\ Left(hit') = Dmg!Abs(d.primary) + Dmg!Abs(d.secondary)
  <2>1. hit' \in Hits /\ hit'.primary = d.primary /\ hit'.secondary = d.secondary
    BY <1>2 DEF Hits
  <2> QED BY <2>1 DEF Left, Dmg!Abs
<1>4. spent' = [health |-> 0, mana |-> 0, credit |-> 0, allowed |-> Left(hit')]
  BY <1>2, <1>3 DEF Dmg!NothingSpent
<1>5. spent' \in Accounts
  BY <1>3, <1>4 DEF Accounts
<1>6. Books(hit', spent', stage')
  BY <1>2, <1>3, <1>4 DEF Books, Hits
<1> QED
  BY <1>2, <1>3, <1>5, <1>6 DEF HitInv

LEMMA CombatBlockHitKeeps ==
  ASSUME HitInv, NEW immune \in BOOLEAN, NEW defense \in 0 .. 1, NEW armor \in 0 .. 1,
         NEW share \in 0 .. 1, Dmg!CombatBlockHit(immune, defense, armor, share)
  PROVE  HitInv'
<1>1. CASE hit.primary > 0
  BY <1>1 DEF Dmg!CombatBlockHit, HitInv, Books, Accounts
<1>2. CASE ~(hit.primary > 0)
  <2> DEFINE primary  == Dmg!BlockHit(Dmg!Abs(hit.primary), immune, defense, armor)
             absorbed == IF primary.blocked THEN 0 ELSE Dmg!Absorb(primary.left, share)
             second   == IF immune THEN 0 ELSE Dmg!Absorb(Dmg!Abs(hit.secondary), share)
  <2>1. Dmg!Abs(hit.primary) \in Nat /\ Dmg!Abs(hit.secondary) \in Nat
    BY DEF HitInv, Hits, Dmg!Abs
  <2>2. \A n \in Nat : Dmg!Absorb(n, share) \in Nat
    BY DEF Dmg!Absorb, Dmg!Most
  <2>3. primary.left \in Nat
    BY <2>1 DEF Dmg!BlockHit, Dmg!Most
  <2>4. absorbed \in Nat /\ second \in Nat
    BY <2>1, <2>2, <2>3
  <2>5. /\ hit' = [hit EXCEPT !.primary = -absorbed, !.secondary = -second]
        /\ spent' = [spent EXCEPT !.allowed = absorbed + second]
        /\ stage' \in {"idle", "change"}
        /\ UNCHANGED <<health, mana>> /\ stage = "block"
    BY <1>2 DEF Dmg!CombatBlockHit
  <2> HIDE DEF absorbed, second
  <2>6. hit' \in Hits /\ hit'.attacker = hit.attacker /\ Left(hit') = absorbed + second
    <3>1. /\ hit' \in Hits /\ hit'.attacker = hit.attacker
          /\ hit'.primary = -absorbed /\ hit'.secondary = -second
      <4>1. PICK x \in Int, y \in Int : x = -absorbed /\ y = -second
        BY <2>4
      <4>2. hit' = [hit EXCEPT !.primary = x, !.secondary = y]
        BY <2>5, <4>1
      <4> QED BY <4>1, <4>2 DEF HitInv, Hits
    <3> QED BY <2>4, <3>1 DEF Left, Dmg!Abs
  <2>7. /\ spent' \in Accounts
        /\ spent'.mana = spent.mana /\ spent'.health = spent.health /\ spent'.credit = spent.credit
        /\ spent'.allowed = absorbed + second
    BY <2>4, <2>5 DEF HitInv, Accounts
  <2> QED BY <2>4, <2>5, <2>6, <2>7 DEF HitInv, Books, Accounts
<1> QED
  BY <1>1, <1>2

LEMMA GainHealthKeeps ==
  ASSUME HitInv, NEW answer \in Dmg!Answers, Dmg!GainHealth(answer)
  PROVE  HitInv'
<1>1. stage = "change" /\ mana' = mana
  BY DEF Dmg!GainHealth
<1>2. CASE Dmg!AskHealthScript(hit, answer) /\ health' = health
  BY <1>1, <1>2, AskedKeeps DEF HitInv
<1>3. CASE stage' = "idle" /\ UNCHANGED <<hit, spent>> /\ health' = health
  BY <1>1, <1>3 DEF HitInv, Books, Accounts
<1>4. CASE /\ stage' = "idle" /\ UNCHANGED <<hit, spent>>
           /\ health' = health + Dmg!Least(hit.primary, MaxHealth - health) /\ hit.primary > 0
  <2>1. health' \in Nat /\ health' <= MaxHealth
    BY <1>4, DamageAssumption DEF Dmg!ConstantsFit, HitInv, Hits, Dmg!Least
  <2> QED BY <1>1, <1>4, <2>1 DEF HitInv, Books, Accounts
<1> QED
  BY <1>2, <1>3, <1>4 DEF Dmg!GainHealth

(* What a mana script answers is a hit with values of either sign.         *)
LEMMA ManaScriptHit ==
  ASSUME NEW h \in Hits, NEW answer, answer.primary \in Int, answer.secondary \in Int,
         NEW e, e = Dmg!ExecuteManaChange(h, answer)
  PROVE  /\ e \in Hits /\ e.attacker = h.attacker
         /\ e = h \/ (e.primary = answer.primary /\ e.secondary = answer.secondary)
BY DEF Dmg!ExecuteManaChange, Hits

(* The magic shield: what it takes, the hit no longer has.                 *)
LEMMA ShieldHitKeeps ==
  ASSUME HitInv, NEW answer \in Dmg!Answers, Dmg!ShieldHit(answer)
  PROVE  HitInv'
<1> DEFINE abs   == [hit EXCEPT !.primary = Dmg!Abs(@), !.secondary = Dmg!Abs(@)]
           total == abs.primary + abs.secondary
           meets == manaShield /\ hit.type # "undefined" /\ Dmg!Least(mana, total) # 0
           asked == IF meets /\ Dmg!HasScript(abs, "mana")
                    THEN Dmg!ExecuteManaChange(abs, answer) ELSE abs
           taken == Dmg!Least(mana, asked.primary + asked.secondary)
<1>1. PICK h, e, n : h = abs /\ e = asked /\ n = taken
  OBVIOUS
<1>2. stage = "change" /\ health' = health
  BY DEF Dmg!ShieldHit
<1>3. /\ h \in Hits /\ h.attacker = hit.attacker
      /\ h.primary >= 0 /\ h.secondary >= 0 /\ h.primary + h.secondary = Left(hit)
  <2>1. PICK x \in Int, y \in Int : /\ x = Dmg!Abs(hit.primary) /\ y = Dmg!Abs(hit.secondary)
                                    /\ x >= 0 /\ y >= 0
    BY DEF HitInv, Hits, Dmg!Abs
  <2>2. h = [hit EXCEPT !.primary = x, !.secondary = y]
    BY <1>1, <2>1
  <2> QED BY <2>1, <2>2 DEF HitInv, Hits, Left
<1>4. /\ e \in Hits /\ e.attacker = hit.attacker /\ e.primary >= 0 /\ e.secondary >= 0
  <2>1. answer.primary \in Int /\ answer.secondary \in Int /\ answer.primary >= 0
        /\ answer.secondary >= 0
    BY DEF Dmg!Answers
  <2>2. e = h \/ e = Dmg!ExecuteManaChange(h, answer)
    BY <1>1
  <2> QED BY <1>3, <2>1, <2>2, ManaScriptHit
<1>5. n \in Int /\ 0 <= n /\ n <= mana /\ n <= e.primary + e.secondary
  <2>1. n = Dmg!Least(mana, e.primary + e.secondary)
    BY <1>1
  <2> QED BY <1>4, <2>1 DEF Dmg!Least, HitInv, Hits
<1>6. \/ stage' = "idle" /\ UNCHANGED <<mana, hit, spent>>
      \/ /\ Dmg!DrainMana(n)
         /\ hit' = Dmg!AfterShield(e, n)
         /\ spent' = [spent EXCEPT !.mana = @ + n,
                                   !.credit = IF hit.attacker THEN @ + n ELSE @,
                                   !.allowed = IF e = h THEN @
                                               ELSE spent.mana + e.primary + e.secondary]
         /\ stage' = "health"
      \/ hit' = h /\ stage' = "health" /\ UNCHANGED <<mana, spent>>
  BY <1>1 DEF Dmg!ShieldHit
<1>7. CASE stage' = "idle" /\ UNCHANGED <<mana, hit, spent>>
  BY <1>2, <1>7 DEF HitInv, Books, Accounts
<1>8. CASE hit' = h /\ stage' = "health" /\ UNCHANGED <<mana, spent>>
  BY <1>2, <1>3, <1>8 DEF HitInv, Books, Accounts, Hits
<1>9. CASE /\ Dmg!DrainMana(n)
           /\ hit' = Dmg!AfterShield(e, n)
           /\ spent' = [spent EXCEPT !.mana = @ + n,
                                     !.credit = IF hit.attacker THEN @ + n ELSE @,
                                     !.allowed = IF e = h THEN @
                                                 ELSE spent.mana + e.primary + e.secondary]
           /\ stage' = "health"
  <2>1. mana' \in Nat
    BY <1>5, <1>9 DEF Dmg!DrainMana, Dmg!Most, HitInv
  <2>2. /\ hit' \in Hits /\ hit'.attacker = hit.attacker
        /\ hit'.primary >= 0 /\ hit'.secondary >= 0
        /\ hit'.primary + hit'.secondary = e.primary + e.secondary - n
    <3>1. CASE e.primary - n < 0
      <4>1. PICK y \in Int : y = Dmg!Most(0, e.secondary + (e.primary - n))
        BY <1>4, <1>5 DEF Hits, Dmg!Most
      <4>2. hit' = [e EXCEPT !.primary = 0, !.secondary = y]
        BY <1>9, <3>1, <4>1 DEF Dmg!AfterShield
      <4>3. y = e.secondary + e.primary - n /\ y >= 0
        BY <1>4, <1>5, <4>1 DEF Hits, Dmg!Most
      <4>4. /\ hit' \in Hits /\ hit'.attacker = e.attacker
            /\ hit'.primary = 0 /\ hit'.secondary = y
        <5>1. PICK x \in Int : x = 0
          OBVIOUS
        <5>2. hit' = [e EXCEPT !.primary = x, !.secondary = y]
          BY <4>2, <5>1
        <5> QED BY <1>4, <5>1, <5>2 DEF Hits
      <4>5. e.primary \in Int /\ e.secondary \in Int
        BY <1>4 DEF Hits
      <4> QED BY <1>4, <1>5, <4>3, <4>4, <4>5
    <3>2. CASE ~(e.primary - n < 0)
      <4>1. PICK x \in Int : x = e.primary - n
        BY <1>4, <1>5 DEF Hits
      <4>2. hit' = [e EXCEPT !.primary = x]
        BY <1>9, <3>2, <4>1 DEF Dmg!AfterShield
      <4> QED BY <1>4, <1>5, <3>2, <4>1, <4>2 DEF Hits
    <3> QED BY <3>1, <3>2
  <2>3. PICK a \in Int : /\ a = IF e = h THEN spent.allowed ELSE spent.mana + e.primary + e.secondary
                         /\ spent.mana + e.primary + e.secondary <= a
    BY <1>2, <1>3, <1>4 DEF HitInv, Books, Accounts, Hits
  <2>4. PICK c \in Int, t \in Int :
          c = (IF hit.attacker THEN spent.credit + n ELSE spent.credit) /\ t = spent.mana + n
    BY <1>5 DEF HitInv, Accounts
  <2>5. spent' = [spent EXCEPT !.mana = t, !.credit = c, !.allowed = a]
    BY <1>9, <2>3, <2>4
  <2>6. /\ spent' \in Accounts /\ spent'.mana = t /\ spent'.credit = c /\ spent'.allowed = a
        /\ spent'.health = spent.health
    BY <2>3, <2>4, <2>5 DEF HitInv, Accounts
  <2>7. Books(hit', spent', stage')
    BY <1>2, <1>4, <1>5, <1>9, <2>2, <2>3, <2>4, <2>6 DEF HitInv, Books, Accounts, Hits
  <2> QED BY <1>2, <2>1, <2>2, <2>6, <2>7 DEF HitInv
<1> QED
  BY <1>6, <1>7, <1>8, <1>9

(* drainHealth: no more than there is, and no more than the hit.           *)
LEMMA DrainHealthKeeps ==
  ASSUME HitInv, NEW answer \in Dmg!Answers, NEW b \in BOOLEAN, Dmg!DrainHealth(answer, b)
  PROVE  HitInv'
<1>1. stage = "health" /\ mana' = mana
  BY DEF Dmg!DrainHealth
<1>2. PICK c : c = Dmg!CutToHealth(hit)
  OBVIOUS
<1>3. /\ c \in Hits /\ c.attacker = hit.attacker
      /\ c.primary + c.secondary <= hit.primary + hit.secondary
      /\ c.primary + c.secondary <= health
      /\ 0 <= c.primary + c.secondary
  <2>1. hit.primary \in Int /\ hit.secondary \in Int /\ health \in Int /\ hit.primary >= 0
        /\ hit.secondary >= 0 /\ health >= 0
    BY <1>1 DEF HitInv, Hits, Books
  <2>2. CASE hit.primary >= health
    <3>1. c = [hit EXCEPT !.primary = health, !.secondary = 0]
      BY <1>2, <2>2 DEF Dmg!CutToHealth
    <3>2. /\ c \in Hits /\ c.attacker = hit.attacker
          /\ c.primary = health /\ c.secondary = 0
      <4>1. PICK x \in Int, y \in Int : x = health /\ y = 0
        BY <2>1
      <4>2. c = [hit EXCEPT !.primary = x, !.secondary = y]
        BY <3>1, <4>1
      <4> QED BY <4>1, <4>2 DEF HitInv, Hits
    <3> QED BY <2>1, <2>2, <3>2
  <2>3. CASE ~(hit.primary >= health)
    <3>1. PICK y \in Int : y = Dmg!Least(hit.secondary, health - hit.primary)
      BY <2>1 DEF Dmg!Least
    <3>2. c = [hit EXCEPT !.secondary = y]
      BY <1>2, <2>3, <3>1 DEF Dmg!CutToHealth
    <3>3. y >= 0 /\ y <= hit.secondary /\ y <= health - hit.primary
      BY <2>1, <2>3, <3>1 DEF Dmg!Least
    <3> QED BY <2>1, <3>1, <3>2, <3>3 DEF HitInv, Hits
  <2> QED BY <2>2, <2>3
<1>4. PICK real \in Int : real = c.primary + c.secondary
  BY <1>3 DEF Hits
<1>5. \/ stage' = "idle" /\ UNCHANGED <<health, hit, spent>>
      \/ Dmg!AskHealthScript(hit, answer) /\ UNCHANGED health
      \/ stage' = "idle" /\ hit' = c /\ UNCHANGED <<health, spent>>
      \/ /\ stage' = "idle" /\ hit' = c
         /\ health' = Dmg!Most(0, health - real)
         /\ spent' = [spent EXCEPT !.health = health - health',
                                   !.credit = IF hit.attacker THEN @ + real ELSE @]
  BY <1>2, <1>4 DEF Dmg!DrainHealth
<1>6. CASE stage' = "idle" /\ UNCHANGED <<health, hit, spent>>
  BY <1>1, <1>6 DEF HitInv, Books, Accounts
<1>7. CASE Dmg!AskHealthScript(hit, answer) /\ UNCHANGED health
  BY <1>1, <1>7, AskedKeeps DEF HitInv
<1>8. CASE stage' = "idle" /\ hit' = c /\ UNCHANGED <<health, spent>>
  BY <1>1, <1>3, <1>8 DEF HitInv, Books, Accounts
<1>9. CASE /\ stage' = "idle" /\ hit' = c
           /\ health' = Dmg!Most(0, health - real)
           /\ spent' = [spent EXCEPT !.health = health - health',
                                     !.credit = IF hit.attacker THEN @ + real ELSE @]
  <2>1. health' = health - real /\ health' \in Nat /\ health' <= MaxHealth
    BY <1>3, <1>4, <1>9, DamageAssumption DEF Dmg!ConstantsFit, HitInv, Dmg!Most
  <2>2. PICK k \in Int : k = IF hit.attacker THEN spent.credit + real ELSE spent.credit
    BY DEF HitInv, Accounts
  <2>3. PICK d \in Int : d = health - health' /\ d = real
    BY <2>1 DEF HitInv
  <2>4. spent' = [spent EXCEPT !.health = d, !.credit = k]
    BY <1>9, <2>2, <2>3
  <2>5. /\ spent' \in Accounts /\ spent'.health = d /\ spent'.credit = k
        /\ spent'.mana = spent.mana /\ spent'.allowed = spent.allowed
    BY <2>4 DEF HitInv, Accounts
  <2>6. Books(hit', spent', stage')
    BY <1>1, <1>3, <1>4, <1>9, <2>2, <2>3, <2>5 DEF HitInv, Books, Accounts, Hits
  <2> QED BY <1>1, <1>3, <1>9, <2>1, <2>5, <2>6 DEF HitInv
<1> QED
  BY <1>5, <1>6, <1>7, <1>8, <1>9

(* combatChangeMana, for a hit that drains mana.                           *)
LEMMA CombatChangeManaKeeps ==
  ASSUME HitInv, NEW answer \in Dmg!Answers, NEW b \in BOOLEAN, Dmg!CombatChangeMana(answer, b)
  PROVE  HitInv'
<1>1. stage = "mana" /\ health' = health
  BY DEF Dmg!CombatChangeMana
<1>2. PICK loss \in Int : loss = Dmg!Least(mana, -(hit.primary + hit.secondary))
  BY DEF HitInv, Hits, Dmg!Least
<1>3. loss <= mana /\ loss <= Left(hit)
  BY <1>2 DEF HitInv, Hits, Dmg!Least, Left, Dmg!Abs
<1>4. PICK negated : negated = [answer EXCEPT !.primary = -answer.primary, !.secondary = -answer.secondary]
  OBVIOUS
<1>5. \/ stage' = "idle" /\ UNCHANGED <<mana, hit, spent>>
      \/ /\ hit' = [Dmg!ExecuteManaChange(hit, negated) EXCEPT !.origin = "none"]
         /\ spent' = [spent EXCEPT !.allowed = Dmg!Abs(hit'.primary) + Dmg!Abs(hit'.secondary)]
         /\ UNCHANGED <<mana, stage>>
      \/ /\ loss > 0 /\ Dmg!DrainMana(loss)
         /\ spent' = [spent EXCEPT !.mana = @ + loss, !.credit = IF hit.attacker THEN @ + loss ELSE @]
         /\ stage' = "idle" /\ UNCHANGED hit
  BY <1>2, <1>4 DEF Dmg!CombatChangeMana
<1>6. CASE stage' = "idle" /\ UNCHANGED <<mana, hit, spent>>
  BY <1>1, <1>6 DEF HitInv, Books, Accounts
<1>7. CASE /\ hit' = [Dmg!ExecuteManaChange(hit, negated) EXCEPT !.origin = "none"]
           /\ spent' = [spent EXCEPT !.allowed = Dmg!Abs(hit'.primary) + Dmg!Abs(hit'.secondary)]
           /\ UNCHANGED <<mana, stage>>
  <2>1. negated.primary \in Int /\ negated.secondary \in Int
    BY <1>4 DEF Dmg!Answers
  <2>2. PICK e : e = Dmg!ExecuteManaChange(hit, negated)
    OBVIOUS
  <2>3. e \in Hits /\ e.attacker = hit.attacker
    BY <2>1, <2>2, ManaScriptHit DEF HitInv
  <2>4. hit' \in Hits /\ hit'.attacker = hit.attacker
    BY <1>7, <2>2, <2>3 DEF Hits
  <2>5. Left(hit') \in Int /\ Left(hit') >= 0
    BY <2>4 DEF Left, Hits, Dmg!Abs
  <2>6. /\ spent' \in Accounts /\ spent'.allowed = Left(hit') /\ spent'.mana = spent.mana
        /\ spent'.health = spent.health /\ spent'.credit = spent.credit
    BY <1>7, <2>5 DEF Left, HitInv, Accounts
  <2> QED BY <1>1, <1>7, <2>4, <2>5, <2>6 DEF HitInv, Books, Accounts
<1>8. CASE /\ loss > 0 /\ Dmg!DrainMana(loss)
           /\ spent' = [spent EXCEPT !.mana = @ + loss, !.credit = IF hit.attacker THEN @ + loss ELSE @]
           /\ stage' = "idle" /\ UNCHANGED hit
  <2>1. mana' \in Nat
    BY <1>3, <1>8 DEF Dmg!DrainMana, Dmg!Most, HitInv
  <2>2. PICK k \in Int, t \in Int : /\ k = IF hit.attacker THEN spent.credit + loss ELSE spent.credit
                                    /\ t = spent.mana + loss
    BY DEF HitInv, Accounts
  <2>3. spent' = [spent EXCEPT !.mana = t, !.credit = k]
    BY <1>8, <2>2
  <2>4. /\ spent' \in Accounts /\ spent'.mana = t /\ spent'.credit = k
        /\ spent'.health = spent.health /\ spent'.allowed = spent.allowed
    BY <2>3 DEF HitInv, Accounts
  <2> QED BY <1>1, <1>3, <1>8, <2>1, <2>2, <2>4 DEF HitInv, Books, Accounts
<1> QED
  BY <1>5, <1>6, <1>7, <1>8

LEMMA HitStepKeeps == HitInv /\ Dmg!Next => HitInv'
<1> SUFFICES ASSUME HitInv, Dmg!Next PROVE HitInv'
  OBVIOUS
<1>1. CASE Dmg!OnThink
  BY <1>1 DEF Dmg!OnThink, HitInv
<1>2. CASE Dmg!Return
  BY <1>2, DamageAssumption DEF Dmg!Return, Dmg!ConstantsFit, HitInv, Hits, Accounts, Books, Left,
     Dmg!Abs, Dmg!NoHit, Dmg!NothingSpent, Dmg!Types
<1>3. ASSUME NEW p \in -MaxDamage .. MaxDamage, NEW s \in -1 .. 0, NEW type \in Dmg!Types,
             NEW attacker \in BOOLEAN, NEW halved \in BOOLEAN,
             Dmg!DoTargetCombat(p, s, type, attacker, halved)
      PROVE  HitInv'
  BY <1>3, DoTargetCombatKeeps
<1>4. ASSUME NEW immune \in BOOLEAN, NEW defense \in 0 .. 1, NEW armor \in 0 .. 1,
             NEW share \in 0 .. 1, Dmg!CombatBlockHit(immune, defense, armor, share)
      PROVE  HitInv'
  BY <1>4, CombatBlockHitKeeps
<1>5. ASSUME NEW answer \in Dmg!Answers, Dmg!GainHealth(answer) \/ Dmg!ShieldHit(answer)
      PROVE  HitInv'
  BY <1>5, GainHealthKeeps, ShieldHitKeeps
<1>6. ASSUME NEW answer \in Dmg!Answers, NEW b \in BOOLEAN,
             Dmg!DrainHealth(answer, b) \/ Dmg!CombatChangeMana(answer, b)
      PROVE  HitInv'
  BY <1>6, DrainHealthKeeps, CombatChangeManaKeeps
<1> QED
  BY <1>1, <1>2, <1>3, <1>4, <1>5, <1>6 DEF Dmg!Next

(* A hit is accounted for: what the attacker is credited with is what the  *)
(* victim lost in mana and health together, and never more than blocks and *)
(* scripts left of the hit, for any health, mana and damage and any        *)
(* answers of the scripts that combatChangeHealth and combatChangeMana ask.*)
THEOREM HitsAccounted == AnySpec => []HitAccounted
<1> DEFINE Kept == part = "damage" => HitInv
<1>1. AnyInit => Kept
  BY HitInit DEF AnyInit
<1>2. Kept /\ [AnyNext]_<<vars, part, conditionsVars, damageVars, itemsVars, progressVars, walkingVars>> => Kept'
  <2> SUFFICES ASSUME Kept, part' = "damage",
                      [AnyNext]_<<vars, part, conditionsVars, damageVars, itemsVars, progressVars, walkingVars>>
               PROVE  HitInv'
    OBVIOUS
  <2>1. CASE part = "damage" /\ Dmg!Next
    BY <2>1, HitStepKeeps
  <2>2. CASE part' = part /\ UNCHANGED damageVars
    BY <2>2 DEF damageVars, HitInv
  <2> QED BY <2>1, <2>2 DEF AnyNext
<1>3. Kept => HitAccounted
  <2> SUFFICES ASSUME HitInv PROVE Dmg!HitAccounted
    BY DEF HitAccounted
  <2> QED BY DEF HitInv, Books, Accounts, Dmg!HitAccounted
<1> HIDE DEF Kept
<1> QED
  BY <1>1, <1>2, <1>3, PTL DEF AnySpec

-----------------------------------------------------------------------------
(* Walking (which MCCharacter calls Walks): the record that handlers pass  *)
(* on, with d for the events that the scheduler has fired.                 *)

WalkKinds == {"walk", "task", "action"}
Errands == ClientOrders \cup {"none"}
WalkIds == 0 .. 9
WalkEvents == [id : 1 .. 9, kind : WalkKinds, order : Errands \cup {"swing"}]

WalkStates ==
  [route : Nat, eventWalk : WalkIds, walkTaskEvent : WalkIds, actionTaskEvent : WalkIds,
   cancel : BOOLEAN, walkTask : Errands, following : BOOLEAN, pending : SUBSET WalkEvents,
   posted : Seq(Nat), done : [ClientOrders -> Nat], stranded : BOOLEAN]

(* Of each kind one event has fired at most.  An event has an order, but   *)
(* that of a walk.                                                         *)
Fired(d) ==
  /\ d \subseteq WalkEvents
  /\ \A e, f \in d : e.kind = f.kind => e = f
  /\ \A e \in d : e.kind = "walk" <=> e.order = "none"

(* The three ids are different, and tell the pending events apart.         *)
Stoppable(w, d) ==
  /\ w.eventWalk # 0 => w.eventWalk # w.walkTaskEvent /\ w.eventWalk # w.actionTaskEvent
  /\ w.walkTaskEvent # 0 => w.walkTaskEvent # w.actionTaskEvent
  /\ \A e \in w.pending :
       /\ e.kind = "walk" => e.id = w.eventWalk
       /\ e.kind = "task" => e.id = w.walkTaskEvent
       /\ e.kind = "action" => e.id = w.actionTaskEvent
       /\ e.kind = "walk" <=> e.order = "none"
  /\ \A e, f \in w.pending : e.id = f.id => e = f
  /\ \A e \in w.pending, f \in d : e.id # f.id

(* o waits nowhere and has not been carried out.                           *)
Idle(w, d, o) ==
  w.done[o] = 0 /\ w.walkTask # o /\ \A e \in w.pending \cup d : e.order # o

(* What the client has had done or put off is nowhere else.  What waits    *)
(* for the end of a walk has no event yet.                                 *)
Single(w, d) ==
  /\ \A o \in ClientOrders : w.done[o] <= 1
  /\ \A o \in ClientOrders : w.done[o] = 1 \/ w.walkTask = o =>
       \A e \in w.pending \cup d : e.order # o
  /\ \A o \in ClientOrders : w.done[o] = 1 => w.walkTask # o
  /\ \A e, f \in w.pending \cup d : e.order = f.order /\ e.order \in ClientOrders => e = f
  /\ w.walkTask # "none" => \A e \in w.pending : e.kind # "task"

(* The walk event that the player knows of is pending or fired.            *)
Expected(w, d) ==
  w.eventWalk # 0 => \E e \in w.pending \cup d : e.kind = "walk" /\ e.id = w.eventWalk

(* A fired walk event is that one, or was taken away.                      *)
Expecting(w, d) == \A e \in d : e.kind = "walk" => e.id = w.eventWalk \/ w.eventWalk = 0

(* What waits for the end of a walk has one, or lost it.                   *)
Served(w) ==
  w.walkTask # "none" /\ ~w.stranded => w.posted # <<>> \/ w.eventWalk # 0

Sound(w, d, all) == w \in WalkStates /\ Stoppable(w, all) /\ Single(w, d)

WalkInv ==
  /\ moving \in BOOLEAN /\ inHand \in BOOLEAN
  /\ ordersAsked \subseteq ClientOrders
  /\ Fired(due)
  /\ Sound(Walks!Walk, due, due)
  /\ Expected(Walks!Walk, due) /\ Expecting(Walks!Walk, due)
  /\ Served(Walks!Walk)
  /\ inHand => \A e \in pending, f \in due : e.kind # f.kind
  /\ inHand => \A e \in due : e.kind = "walk" => e.id = eventWalk
  /\ \A o \in ClientOrders \ ordersAsked : Idle(Walks!Walk, due, o)

-----------------------------------------------------------------------------
(* What is known are six ids at most.                                      *)
LEMMA FreshWalkId ==
  ASSUME Fired(due), NEW w \in WalkStates, Stoppable(w, due), NEW kind
  PROVE  Walks!FreshId(w, kind) \in 1 .. 9 /\ Walks!FreshId(w, kind) \notin Walks!Known(w)
<1>1. PICK K : K = Walks!Known(w)
  OBVIOUS
<1>2. ASSUME NEW k
      PROVE  \E x : \A e \in due : e.kind = k => e.id = x
  <2>1. CASE \E e \in due : e.kind = k
    <3>1. PICK f \in due : f.kind = k
      BY <2>1
    <3> QED BY <3>1 DEF Fired
  <2> QED BY <2>1
<1>3. PICK x : \A e \in due : e.kind = "walk" => e.id = x
  BY <1>2
<1>3a. PICK y : \A e \in due : e.kind = "task" => e.id = y
  BY <1>2
<1>3b. PICK z : \A e \in due : e.kind = "action" => e.id = z
  BY <1>2
<1>4. \A e \in due : e.id \in {x, y, z}
  <2>1. \A e \in due : e.kind \in {"walk", "task", "action"}
    BY DEF Fired, WalkEvents, WalkKinds
  <2> QED BY <1>3, <1>3a, <1>3b, <2>1
<1>5. PICK a, b, c : a = w.eventWalk /\ b = w.walkTaskEvent /\ c = w.actionTaskEvent
  OBVIOUS
<1>6. \A e \in w.pending : e.id \in {a, b, c}
  <2>1. \A e \in w.pending : e.kind \in {"walk", "task", "action"}
    BY DEF WalkStates, WalkEvents, WalkKinds
  <2> QED BY <1>5, <2>1 DEF Stoppable
<1>7. \A i \in K : i \in {a, b, c, x, y, z}
  BY <1>1, <1>4, <1>5, <1>6 DEF Walks!Known
<1>8. \E i \in 1 .. 9 : i \notin K
  <2> SUFFICES ASSUME 1 \in K /\ 2 \in K /\ 3 \in K /\ 4 \in K /\ 5 \in K /\ 6 \in K /\ 7 \in K
               PROVE  FALSE
    OBVIOUS
  <2> QED BY <1>7
<1>9. PICK O : O = Walks!OwnIds(kind)
  OBVIOUS
<1>10. O \subseteq 1 .. 9
  <2>1. CASE kind = "walk"
    <3>1. O = 1 .. 3
      BY <1>9, <2>1 DEF Walks!OwnIds
    <3> QED BY <3>1
  <2>2. CASE kind = "task"
    <3>1. O = 4 .. 6
      BY <1>9, <2>2 DEF Walks!OwnIds
    <3> QED BY <3>1
  <2>3. CASE kind # "walk" /\ kind # "task"
    <3>1. O = 7 .. 9
      BY <1>9, <2>3 DEF Walks!OwnIds
    <3> QED BY <3>1
  <2> QED BY <2>1, <2>2, <2>3
<1>11. \E i \in 1 .. 9 : i \notin K /\ (i \in O \/ O \subseteq K)
  BY <1>8, <1>10
<1>12. Walks!FreshId(w, kind) = CHOOSE i \in 1 .. 9 : i \notin K /\ (i \in O \/ O \subseteq K)
  BY <1>1, <1>9 DEF Walks!FreshId
<1> QED BY <1>1, <1>11, <1>12

(* Some events stopped, each with the id that was its own; walkTask given  *)
(* up or not.                                                              *)
Trimmed(w, v) ==
  /\ v \in WalkStates
  /\ v.pending \subseteq w.pending
  /\ \A e \in v.pending :
       /\ e.kind = "walk" => v.eventWalk = w.eventWalk
       /\ e.kind = "task" => v.walkTaskEvent = w.walkTaskEvent
       /\ e.kind = "action" => v.actionTaskEvent = w.actionTaskEvent
  /\ v.eventWalk = w.eventWalk \/ v.eventWalk = 0
  /\ v.walkTaskEvent = w.walkTaskEvent \/ v.walkTaskEvent = 0
  /\ v.actionTaskEvent = w.actionTaskEvent \/ v.actionTaskEvent = 0
  /\ v.walkTask = w.walkTask \/ v.walkTask = "none"
  /\ v.done = w.done

LEMMA TrimmedOK ==
  ASSUME NEW w, NEW d, Sound(w, d, due), NEW v, Trimmed(w, v)
  PROVE  /\ Sound(v, d, due)
         /\ \A o \in ClientOrders : Idle(w, d, o) => Idle(v, d, o)
<1>1. w \in WalkStates /\ "none" \notin ClientOrders
  BY WalkingAssumption DEF Sound
<1>2. Stoppable(v, due)
  BY <1>1 DEF Sound, Trimmed, Stoppable, WalkStates, WalkIds
<1>3. Single(v, d)
  BY <1>1 DEF Sound, Trimmed, Single
<1>4. \A o \in ClientOrders : Idle(w, d, o) => Idle(v, d, o)
  BY <1>1 DEF Trimmed, Idle
<1> QED BY <1>2, <1>3, <1>4 DEF Sound, Trimmed

(* An event of kind k for o added, and its id kept.                        *)
Scheduled(w, v, k, o, d, i) ==
  /\ v \in WalkStates /\ k \in WalkKinds /\ o \in Errands \cup {"swing"}
  /\ k = "walk" <=> o = "none"
  /\ v.pending = w.pending \cup {[id |-> i, kind |-> k, order |-> o]}
  /\ \A e \in w.pending : e.kind # k
  /\ v.eventWalk = (IF k = "walk" THEN i ELSE w.eventWalk)
  /\ v.walkTaskEvent = (IF k = "task" THEN i ELSE w.walkTaskEvent)
  /\ v.actionTaskEvent = (IF k = "action" THEN i ELSE w.actionTaskEvent)
  /\ v.walkTask = w.walkTask \/ v.walkTask = "none"
  /\ k = "task" => v.walkTask = "none"
  /\ v.done = w.done
  /\ o \in ClientOrders => /\ w.done[o] = 0 /\ v.walkTask # o
                          /\ \A e \in w.pending \cup d : e.order # o

LEMMA ScheduledOK ==
  ASSUME Fired(due), NEW w, NEW d, Sound(w, d, due), d \subseteq due, NEW v, NEW k, NEW o,
         Scheduled(w, v, k, o, d, Walks!FreshId(w, k))
  PROVE  /\ Sound(v, d, due)
         /\ \A p \in ClientOrders : p # o /\ Idle(w, d, p) => Idle(v, d, p)
<1>1. /\ w \in WalkStates /\ v \in WalkStates /\ "none" \notin ClientOrders
      /\ w.pending \subseteq WalkEvents
  BY WalkingAssumption DEF Sound, Scheduled, WalkStates
<1>2. PICK i : i = Walks!FreshId(w, k)
  OBVIOUS
<1>3. i \in 1 .. 9 /\ i \notin Walks!Known(w)
  BY <1>2, FreshWalkId DEF Sound
<1>4. /\ i # w.eventWalk /\ i # w.walkTaskEvent /\ i # w.actionTaskEvent /\ i # 0
      /\ \A e \in w.pending : e.id # i
      /\ \A e \in due : e.id # i
  BY <1>3 DEF Walks!Known
<1>5. PICK n : n = [id |-> i, kind |-> k, order |-> o]
  OBVIOUS
<1>6. n.id = i /\ n.kind = k /\ n.order = o
  BY <1>5
<1>7. Scheduled(w, v, k, o, d, i) /\ v.pending = w.pending \cup {n}
  BY <1>2, <1>5 DEF Scheduled
<1>8. Stoppable(v, due)
  <2>1. Stoppable(w, due)
    BY DEF Sound
  <2>2. /\ v.eventWalk # 0 => v.eventWalk # v.walkTaskEvent /\ v.eventWalk # v.actionTaskEvent
        /\ v.walkTaskEvent # 0 => v.walkTaskEvent # v.actionTaskEvent
    BY <1>4, <1>7, <2>1 DEF Scheduled, Stoppable, WalkKinds
  <2>3. \A e \in v.pending :
          /\ e.kind = "walk" => e.id = v.eventWalk
          /\ e.kind = "task" => e.id = v.walkTaskEvent
          /\ e.kind = "action" => e.id = v.actionTaskEvent
          /\ e.kind = "walk" <=> e.order = "none"
    <3> SUFFICES ASSUME NEW e \in v.pending
                 PROVE  /\ e.kind = "walk" => e.id = v.eventWalk
                        /\ e.kind = "task" => e.id = v.walkTaskEvent
                        /\ e.kind = "action" => e.id = v.actionTaskEvent
                        /\ e.kind = "walk" <=> e.order = "none"
      OBVIOUS
    <3>1. CASE e = n
      BY <1>6, <1>7, <3>1 DEF Scheduled, WalkKinds
    <3>2. CASE e \in w.pending
      BY <1>7, <2>1, <3>2 DEF Scheduled, Stoppable
    <3> QED BY <1>7, <3>1, <3>2
  <2>4. \A e, f \in v.pending : e.id = f.id => e = f
    BY <1>4, <1>6, <1>7, <2>1 DEF Stoppable
  <2>5. \A e \in v.pending, f \in due : e.id # f.id
    BY <1>4, <1>6, <1>7, <2>1 DEF Stoppable
  <2> QED BY <2>2, <2>3, <2>4, <2>5 DEF Stoppable
<1>9. Single(v, d)
  <2>1. Single(w, d)
    BY DEF Sound
  <2>2. \A p \in ClientOrders : v.done[p] = w.done[p] /\ (v.walkTask = p => w.walkTask = p)
    BY <1>1, <1>7 DEF Scheduled
  <2>3. \A p \in ClientOrders : v.done[p] <= 1 /\ (v.done[p] = 1 => v.walkTask # p)
    BY <2>1, <2>2 DEF Single
  <2>4. \A p \in ClientOrders : v.done[p] = 1 \/ v.walkTask = p =>
          \A e \in v.pending \cup d : e.order # p
    BY <1>1, <1>6, <1>7, <2>1, <2>2 DEF Single, Scheduled
  <2>5. \A e, f \in v.pending \cup d : e.order = f.order /\ e.order \in ClientOrders => e = f
    BY <1>6, <1>7, <2>1 DEF Single, Scheduled
  <2>6. v.walkTask # "none" => \A e \in v.pending : e.kind # "task"
    BY <1>6, <1>7, <2>1 DEF Single, Scheduled
  <2> QED BY <2>3, <2>4, <2>5, <2>6 DEF Single
<1>10. \A p \in ClientOrders : p # o /\ Idle(w, d, p) => Idle(v, d, p)
  BY <1>1, <1>6, <1>7 DEF Scheduled, Idle
<1> QED BY <1>1, <1>8, <1>9, <1>10 DEF Sound

-----------------------------------------------------------------------------
(* The operations of Creature and Player.                                  *)

LEMMA WalkConstants ==
  /\ 0 \in WalkIds /\ 1 .. 9 \subseteq WalkIds
  /\ "none" \in Errands /\ ClientOrders \subseteq Errands
BY DEF WalkIds, Errands

Keeps(w, v, d) ==
  /\ Sound(v, d, due)
  /\ v.eventWalk = w.eventWalk \/ v.eventWalk = 0
  /\ Expected(w, due) => Expected(v, due)
  /\ Served(w) => Served(v)
  /\ \A o \in ClientOrders : Idle(w, d, o) => Idle(v, d, o)

LEMMA KeepsTwice ==
  ASSUME NEW w, NEW d, NEW u, NEW v, Keeps(w, u, d), Keeps(u, v, d)
  PROVE  Keeps(w, v, d)
BY DEF Keeps

(* Only what nothing here speaks of changes.                               *)
LEMMA KeepsFollowing ==
  ASSUME NEW w, NEW d, Sound(w, d, due), NEW r \in Nat, NEW c \in BOOLEAN, NEW f \in BOOLEAN,
         NEW v, v = [w EXCEPT !.route = r, !.cancel = c, !.following = f]
  PROVE  Keeps(w, v, d) /\ v.eventWalk = w.eventWalk
<1>1. /\ v \in WalkStates /\ v.pending = w.pending /\ v.eventWalk = w.eventWalk
      /\ v.walkTaskEvent = w.walkTaskEvent /\ v.actionTaskEvent = w.actionTaskEvent
      /\ v.walkTask = w.walkTask /\ v.done = w.done /\ v.posted = w.posted
      /\ v.stranded = w.stranded
  BY DEF Sound, WalkStates
<1>2. Trimmed(w, v)
  BY <1>1 DEF Trimmed
<1> QED BY <1>1, <1>2, TrimmedOK DEF Keeps, Expected, Served

LEMMA KeepsRoute ==
  ASSUME NEW w, NEW d, Sound(w, d, due), NEW r \in Nat, NEW c \in BOOLEAN,
         NEW v, v = [w EXCEPT !.route = r, !.cancel = c]
  PROVE  Keeps(w, v, d)
<1>1. PICK f : f = w.following
  OBVIOUS
<1>2. f \in BOOLEAN /\ v = [w EXCEPT !.route = r, !.cancel = c, !.following = f]
  BY <1>1 DEF Sound, WalkStates
<1> QED BY <1>2, KeepsFollowing

LEMMA StopEventWalkOK ==
  ASSUME NEW w, NEW d, Sound(w, d, due)
  PROVE  /\ Keeps(w, Walks!StopEventWalk(w), d)
         /\ Walks!StopEventWalk(w).eventWalk = 0
         /\ Walks!StopEventWalk(w).walkTask = w.walkTask
         /\ Walks!StopEventWalk(w).cancel = w.cancel
<1>1. PICK v : v = Walks!StopEventWalk(w)
  OBVIOUS
<1>2. CASE w.eventWalk = 0
  <2>1. v = w
    BY <1>1, <1>2 DEF Walks!StopEventWalk
  <2> QED BY <1>1, <1>2, <2>1 DEF Keeps
<1>3. CASE w.eventWalk # 0
  <2>0. PICK q : q = {e \in w.pending : e.id # w.eventWalk}
    OBVIOUS
  <2>1. v = [w EXCEPT !.pending = q, !.eventWalk = 0, !.stranded = TRUE]
    BY <1>1, <1>3, <2>0 DEF Walks!StopEventWalk, Walks!StopEvent, Sound, WalkStates
  <2>4. q \in SUBSET WalkEvents
    BY <2>0 DEF Sound, WalkStates
  <2>2. /\ v \in WalkStates /\ v.pending = {e \in w.pending : e.id # w.eventWalk}
        /\ v.eventWalk = 0 /\ v.stranded = TRUE /\ v.cancel = w.cancel
        /\ v.walkTaskEvent = w.walkTaskEvent /\ v.actionTaskEvent = w.actionTaskEvent
        /\ v.walkTask = w.walkTask /\ v.done = w.done /\ v.posted = w.posted
    <3>1. v \in WalkStates
      BY <2>1, <2>4, WalkConstants DEF Sound, WalkStates
    <3> QED BY <2>0, <2>1, <3>1 DEF Sound, WalkStates
  <2>3. Trimmed(w, v)
    BY <2>2 DEF Trimmed, Sound, Stoppable
  <2> QED BY <1>1, <2>2, <2>3, TrimmedOK DEF Keeps, Expected, Served
<1> QED BY <1>2, <1>3

(* setNextWalkActionTask(nullptr).                                         *)
LEMMA OnWalkAbortedOK ==
  ASSUME NEW w, NEW d, Sound(w, d, due)
  PROVE  /\ Keeps(w, Walks!OnWalkAborted(w), d)
         /\ Walks!OnWalkAborted(w).eventWalk = w.eventWalk
<1>1. PICK v : v = Walks!OnWalkAborted(w)
  OBVIOUS
<1>0. PICK q : q = {e \in w.pending : e.id # w.walkTaskEvent}
  OBVIOUS
<1>2. v = [w EXCEPT !.pending = q, !.walkTaskEvent = 0, !.walkTask = "none"]
  BY <1>0, <1>1 DEF Walks!OnWalkAborted, Walks!SetNextWalkActionTask, Walks!StopEvent, Walks!NoOrder,
     Sound, WalkStates
<1>3. /\ v \in WalkStates /\ v.pending = {e \in w.pending : e.id # w.walkTaskEvent}
      /\ v.eventWalk = w.eventWalk /\ v.stranded = w.stranded
      /\ v.walkTaskEvent = 0 /\ v.actionTaskEvent = w.actionTaskEvent
      /\ v.walkTask = "none" /\ v.done = w.done /\ v.posted = w.posted
  <2>1. q \in SUBSET WalkEvents
    BY <1>0 DEF Sound, WalkStates
  <2>2. v \in WalkStates
    BY <1>2, <2>1, WalkConstants DEF Sound, WalkStates
  <2> QED BY <1>0, <1>2, <2>2 DEF Sound, WalkStates
<1>4. Trimmed(w, v)
  BY <1>3 DEF Trimmed, Sound, Stoppable
<1>5. Expected(w, due) => Expected(v, due)
  BY <1>3 DEF Expected, Sound, Stoppable
<1> QED BY <1>1, <1>3, <1>4, <1>5, TrimmedOK DEF Keeps, Served

(* setNextWalkActionTask for an order that waits nowhere: what it replaces *)
(* is dropped.                                                             *)
LEMMA WalkTaskSet ==
  ASSUME NEW w, NEW d, Sound(w, d, due), NEW o \in ClientOrders, Idle(w, d, o),
         NEW v, v = Walks!SetNextWalkActionTask(w, o)
  PROVE  /\ Sound(v, d, due) /\ v.eventWalk = w.eventWalk /\ v.posted = w.posted
         /\ Expected(w, due) => Expected(v, due)
         /\ \A p \in ClientOrders : p # o /\ Idle(w, d, p) => Idle(v, d, p)
<1>1. PICK u : u = Walks!OnWalkAborted(w)
  OBVIOUS
<1>0. PICK q : q = {e \in w.pending : e.id # w.walkTaskEvent}
  OBVIOUS
<1>2. /\ u = [w EXCEPT !.pending = q, !.walkTaskEvent = 0, !.walkTask = "none"]
      /\ v = [w EXCEPT !.pending = q, !.walkTaskEvent = 0, !.walkTask = o]
  BY <1>0, <1>1 DEF Walks!OnWalkAborted, Walks!SetNextWalkActionTask, Walks!StopEvent, Walks!NoOrder,
     Sound, WalkStates
<1>3. /\ v \in WalkStates /\ v.pending = u.pending /\ v.pending = {e \in w.pending : e.id # w.walkTaskEvent}
      /\ v.eventWalk = w.eventWalk /\ v.eventWalk = u.eventWalk
      /\ v.walkTaskEvent = u.walkTaskEvent /\ v.actionTaskEvent = u.actionTaskEvent
      /\ v.walkTask = o /\ v.done = u.done /\ v.posted = w.posted /\ u.walkTask = "none"
      /\ w \in WalkStates
  <2>1. q \in SUBSET WalkEvents
    BY <1>0 DEF Sound, WalkStates
  <2>2. v \in WalkStates
    BY <1>2, <2>1, WalkConstants DEF Sound, WalkStates
  <2> QED BY <1>0, <1>2, <2>2 DEF Sound, WalkStates
<1>4. Keeps(w, u, d)
  BY <1>1, OnWalkAbortedOK
<1>5. Sound(u, d, due) /\ Idle(u, d, o) /\ o # "none"
  BY <1>4, WalkingAssumption DEF Keeps
<1>6. \A e \in v.pending : e.kind # "task"
  BY <1>3 DEF Sound, Stoppable
<1>7. Stoppable(v, due)
  BY <1>3, <1>5 DEF Sound, Stoppable
<1>8. Single(v, d)
  BY <1>3, <1>5, <1>6 DEF Sound, Single, Idle
<1>9. \A p \in ClientOrders : p # o /\ Idle(w, d, p) => Idle(v, d, p)
  BY <1>3, <1>4 DEF Keeps, Idle
<1>10. Expected(w, due) => Expected(v, due)
  BY <1>3, <1>4 DEF Keeps, Expected
<1> QED BY <1>3, <1>7, <1>8, <1>9, <1>10 DEF Sound

(* setNextActionTask(nullptr).                                             *)
ActionStopped(w) ==
  [w EXCEPT !.pending = {e \in w.pending : e.id # w.actionTaskEvent}, !.actionTaskEvent = 0]

LEMMA ActionStoppedOK ==
  ASSUME NEW w, NEW d, Sound(w, d, due), NEW v, v = ActionStopped(w)
  PROVE  /\ Keeps(w, v, d) /\ v.eventWalk = w.eventWalk /\ v.posted = w.posted
         /\ v.walkTask = w.walkTask
         /\ \A e \in v.pending : e.kind # "action"
<1>1. /\ v \in WalkStates /\ v.pending = {e \in w.pending : e.id # w.actionTaskEvent}
      /\ v.eventWalk = w.eventWalk /\ v.stranded = w.stranded
      /\ v.actionTaskEvent = 0 /\ v.walkTaskEvent = w.walkTaskEvent
      /\ v.walkTask = w.walkTask /\ v.done = w.done /\ v.posted = w.posted
  <2>1. PICK q : q = {e \in w.pending : e.id # w.actionTaskEvent}
    OBVIOUS
  <2>2. q \in SUBSET WalkEvents
    BY <2>1 DEF Sound, WalkStates
  <2>3. v = [w EXCEPT !.pending = q, !.actionTaskEvent = 0]
    BY <2>1 DEF ActionStopped
  <2>4. v \in WalkStates
    BY <2>2, <2>3, WalkConstants DEF Sound, WalkStates
  <2> QED BY <2>1, <2>3, <2>4 DEF Sound, WalkStates
<1>2. Trimmed(w, v)
  BY <1>1 DEF Trimmed, Sound, Stoppable
<1>3. Expected(w, due) => Expected(v, due)
  BY <1>1 DEF Expected, Sound, Stoppable
<1>4. \A e \in v.pending : e.kind # "action"
  BY <1>1 DEF Sound, Stoppable
<1> QED BY <1>1, <1>2, <1>3, <1>4, TrimmedOK DEF Keeps, Served

LEMMA ActionDropped ==
  ASSUME NEW w \in WalkStates
  PROVE  Walks!SetNextActionTask(w, Walks!NoOrder) = ActionStopped(w)
BY DEF ActionStopped, Walks!SetNextActionTask, Walks!StopEvent, WalkStates

(* setNextActionTask for an order that waits nowhere, or the next swing.   *)
LEMMA ActionSet ==
  ASSUME Fired(due), NEW w, NEW d, d \subseteq due, Sound(w, d, due),
         NEW o \in ClientOrders \cup {"swing"}, o \in ClientOrders => Idle(w, d, o),
         NEW v, v = Walks!SetNextActionTask(w, o)
  PROVE  /\ Sound(v, d, due) /\ v.eventWalk = w.eventWalk
         /\ Expected(w, due) => Expected(v, due)
         /\ Served(w) => Served(v)
         /\ \A p \in ClientOrders : p # o /\ Idle(w, d, p) => Idle(v, d, p)
<1>1. PICK u : u = ActionStopped(w)
  OBVIOUS
<1>2. PICK i : i = Walks!FreshId(u, "action")
  OBVIOUS
<1>3. /\ Keeps(w, u, d) /\ u.eventWalk = w.eventWalk /\ u.walkTask = w.walkTask
      /\ \A e \in u.pending : e.kind # "action"
  BY <1>1, ActionStoppedOK
<1>4. /\ Sound(u, d, due) /\ o # "none" /\ u \in WalkStates
      /\ o \in ClientOrders => Idle(u, d, o)
  BY <1>3, WalkingAssumption DEF Keeps, Sound
<1>5. i \in 1 .. 9
  BY <1>2, <1>4, FreshWalkId DEF Sound
<1>6. u = [Walks!StopEvent(w, w.actionTaskEvent) EXCEPT !.actionTaskEvent = 0]
  BY <1>1 DEF ActionStopped, Walks!StopEvent, Sound, WalkStates
<1>7. v = [u EXCEPT !.pending = u.pending \cup {[id |-> i, kind |-> "action", order |-> o]},
                    !.actionTaskEvent = i]
  BY <1>2, <1>4, <1>6 DEF Walks!SetNextActionTask, Walks!AddEvent, Walks!NoOrder, WalkStates
<1>8. [id |-> i, kind |-> "action", order |-> o] \in WalkEvents
  BY <1>5 DEF WalkEvents, WalkKinds, Errands
<1>9. /\ v \in WalkStates /\ v.pending = u.pending \cup {[id |-> i, kind |-> "action", order |-> o]}
      /\ v.eventWalk = u.eventWalk /\ v.stranded = u.stranded
      /\ v.actionTaskEvent = i /\ v.walkTaskEvent = u.walkTaskEvent
      /\ v.walkTask = u.walkTask /\ v.done = u.done /\ v.posted = u.posted
  <2>1. PICK q : q = u.pending \cup {[id |-> i, kind |-> "action", order |-> o]}
    OBVIOUS
  <2>2. q \in SUBSET WalkEvents
    BY <1>4, <1>8, <2>1 DEF WalkStates
  <2>3. v = [u EXCEPT !.pending = q, !.actionTaskEvent = i]
    BY <1>7, <2>1
  <2>4. v \in WalkStates /\ v.pending = q
    BY <1>4, <1>5, <2>2, <2>3, WalkConstants DEF WalkStates
  <2> QED BY <1>4, <2>1, <2>3, <2>4 DEF WalkStates
<1>10. Scheduled(u, v, "action", o, d, i)
  BY <1>3, <1>4, <1>9 DEF Scheduled, WalkKinds, Errands, Idle
<1>11. /\ Sound(v, d, due)
       /\ \A p \in ClientOrders : p # o /\ Idle(u, d, p) => Idle(v, d, p)
  BY <1>2, <1>4, <1>10, ScheduledOK
<1>12. Expected(u, due) => Expected(v, due)
  BY <1>9 DEF Expected
<1>13. Served(u) => Served(v)
  BY <1>9 DEF Served
<1> QED BY <1>3, <1>9, <1>11, <1>12, <1>13 DEF Keeps

(* What waited for the end of the walk is handed to the scheduler.         *)
LEMMA OnWalkCompleteOK ==
  ASSUME Fired(due), NEW w, NEW d, d \subseteq due, Sound(w, d, due),
         NEW v, v = Walks!OnWalkComplete(w)
  PROVE  Keeps(w, v, d) /\ v.walkTask = "none" /\ v.eventWalk = w.eventWalk
<1>1. CASE w.walkTask = "none"
  <2>1. v = w
    BY <1>1 DEF Walks!OnWalkComplete, Walks!NoOrder
  <2> QED BY <1>1, <2>1 DEF Keeps
<1>2. CASE w.walkTask # "none"
  <2>1. PICK i : i = Walks!FreshId(w, "task")
    OBVIOUS
  <2>2. PICK o : o = w.walkTask
    OBVIOUS
  <2>3. w \in WalkStates /\ o \in ClientOrders
    BY <1>2, <2>2 DEF Sound, WalkStates, Errands
  <2>4. i \in 1 .. 9
    BY <2>1, <2>3, FreshWalkId DEF Sound
  <2>5. PICK q : q = w.pending \cup {[id |-> i, kind |-> "task", order |-> o]}
    OBVIOUS
  <2>6. v = [w EXCEPT !.pending = q, !.walkTaskEvent = i, !.walkTask = "none"]
    BY <1>2, <2>1, <2>2, <2>3, <2>5
       DEF Walks!OnWalkComplete, Walks!AddEvent, Walks!NoOrder, WalkStates
  <2>7. [id |-> i, kind |-> "task", order |-> o] \in WalkEvents
    BY <2>3, <2>4, WalkConstants DEF WalkEvents, WalkKinds
  <2>8. q \in SUBSET WalkEvents
    BY <2>3, <2>5, <2>7 DEF WalkStates
  <2>9. v \in WalkStates
    BY <2>3, <2>4, <2>6, <2>8, WalkConstants DEF WalkStates
  <2>10. /\ v.pending = w.pending \cup {[id |-> i, kind |-> "task", order |-> o]}
         /\ v.eventWalk = w.eventWalk /\ v.walkTaskEvent = i
         /\ v.actionTaskEvent = w.actionTaskEvent /\ v.walkTask = "none"
         /\ v.done = w.done
    BY <2>3, <2>5, <2>6 DEF WalkStates
  <2>11. /\ \A e \in w.pending : e.kind # "task"
         /\ \A e \in w.pending \cup d : e.order # o
         /\ w.done[o] = 0 /\ o # "none"
    <3>1. w.done[o] \in Nat /\ w.done[o] <= 1 /\ w.done[o] # 1
      BY <2>2, <2>3 DEF Sound, Single, WalkStates
    <3> QED BY <1>2, <2>2, <2>3, <3>1 DEF Sound, Single
  <2>12. Scheduled(w, v, "task", o, d, i)
    BY <2>3, <2>9, <2>10, <2>11, WalkConstants DEF Scheduled, WalkKinds
  <2>13. /\ Sound(v, d, due)
         /\ \A p \in ClientOrders : p # o /\ Idle(w, d, p) => Idle(v, d, p)
    BY <2>1, <2>12, ScheduledOK
  <2>14. ~Idle(w, d, o)
    BY <2>2 DEF Idle
  <2> QED BY <2>10, <2>13, <2>14 DEF Keeps, Expected, Served
<1> QED BY <1>1, <1>2

(* A walk event where there was none.                                      *)
LEMMA QueueWalkOK ==
  ASSUME Fired(due), NEW w, NEW d, d \subseteq due, Sound(w, d, due), w.eventWalk = 0,
         NEW v, v = Walks!QueueWalk(w)
  PROVE  /\ Sound(v, d, due) /\ Expected(v, {}) /\ v.eventWalk # 0
         /\ \A o \in ClientOrders : Idle(w, d, o) => Idle(v, d, o)
<1>1. PICK i : i = Walks!FreshId(w, "walk")
  OBVIOUS
<1>2. w \in WalkStates
  BY DEF Sound
<1>3. i \in 1 .. 9
  BY <1>1, <1>2, FreshWalkId DEF Sound
<1>4. PICK n : n = [id |-> i, kind |-> "walk", order |-> "none"]
  OBVIOUS
<1>5. PICK q : q = w.pending \cup {n}
  OBVIOUS
<1>6. v = [w EXCEPT !.pending = q, !.eventWalk = i, !.stranded = FALSE]
  BY <1>1, <1>2, <1>4, <1>5 DEF Walks!QueueWalk, Walks!AddEvent, Walks!NoOrder, WalkStates
<1>7. n \in WalkEvents
  BY <1>3, <1>4, WalkConstants DEF WalkEvents, WalkKinds
<1>8. q \in SUBSET WalkEvents
  BY <1>2, <1>5, <1>7 DEF WalkStates
<1>9. v \in WalkStates
  BY <1>2, <1>3, <1>6, <1>8, WalkConstants DEF WalkStates
<1>10. /\ v.pending = w.pending \cup {n}
       /\ v.eventWalk = i /\ v.walkTaskEvent = w.walkTaskEvent
       /\ v.actionTaskEvent = w.actionTaskEvent /\ v.walkTask = w.walkTask
       /\ v.done = w.done
  BY <1>2, <1>5, <1>6 DEF WalkStates
<1>11. \A e \in w.pending : e.kind # "walk"
  <2>1. \A e \in w.pending : e.id \in 1 .. 9
    BY <1>2 DEF WalkStates, WalkEvents
  <2> QED BY <2>1 DEF Sound, Stoppable
<1>12. Scheduled(w, v, "walk", "none", d, i)
  BY <1>4, <1>9, <1>10, <1>11, WalkConstants, WalkingAssumption DEF Scheduled, WalkKinds
<1>13. /\ Sound(v, d, due)
       /\ \A p \in ClientOrders : p # "none" /\ Idle(w, d, p) => Idle(v, d, p)
  BY <1>1, <1>12, ScheduledOK
<1>14. Expected(v, {})
  BY <1>4, <1>10 DEF Expected
<1> QED BY <1>3, <1>10, <1>13, <1>14, WalkingAssumption

(* getNextStep and a move.                                                 *)
LEMMA MoveOnOK ==
  ASSUME NEW w, NEW d, Sound(w, d, due), w.route > 0, NEW s \in Walks!Steps,
         NEW v, v = Walks!MoveOn(w, s)
  PROVE  Keeps(w, v, d)
<1>1. PICK r : r = w.route - 1
  OBVIOUS
<1>2. r \in Nat /\ w.cancel \in BOOLEAN
  BY <1>1 DEF Sound, WalkStates
<1>3. PICK t : t = [w EXCEPT !.route = @ - 1]
  OBVIOUS
<1>4. t = [w EXCEPT !.route = r, !.cancel = w.cancel]
  BY <1>1, <1>3 DEF Sound, WalkStates
<1>5. Keeps(w, t, d)
  BY <1>2, <1>4, KeepsRoute
<1>6. PICK a : a = Walks!SetNextActionTask(t, Walks!NoOrder)
  OBVIOUS
<1>7. Sound(t, d, due) /\ t \in WalkStates
  BY <1>5 DEF Keeps, Sound
<1>8. a = ActionStopped(t)
  BY <1>6, <1>7, ActionDropped
<1>9. Keeps(t, a, d)
  BY <1>7, <1>8, ActionStoppedOK
<1>10. Keeps(w, a, d) /\ Sound(a, d, due)
  BY <1>5, <1>9, KeepsTwice DEF Keeps
<1>11. PICK u : u = IF s.thrown THEN Walks!StopEventWalk(a) ELSE a
  OBVIOUS
<1>12. Keeps(a, a, d) /\ Keeps(a, Walks!StopEventWalk(a), d)
  BY <1>10, StopEventWalkOK DEF Keeps
<1>13. Keeps(a, u, d)
  BY <1>11, <1>12
<1>14. Keeps(w, u, d)
  BY <1>10, <1>13, KeepsTwice
<1>15. PICK f : f = [u EXCEPT !.following = FALSE, !.cancel = TRUE]
  OBVIOUS
<1>16. Sound(u, d, due) /\ u.route \in Nat /\ u \in WalkStates
  BY <1>14 DEF Keeps, Sound, WalkStates
<1>17. f = [u EXCEPT !.route = u.route, !.cancel = TRUE, !.following = FALSE]
  BY <1>15, <1>16 DEF WalkStates
<1>18. Keeps(u, f, d)
  BY <1>16, <1>17, KeepsFollowing
<1>19. Keeps(w, f, d)
  BY <1>14, <1>18, KeepsTwice
<1>20. v = IF s.lost /\ u.following THEN f ELSE u
  BY <1>3, <1>6, <1>11, <1>15 DEF Walks!MoveOn
<1> QED BY <1>14, <1>19, <1>20

LEMMA StrideOK ==
  ASSUME Fired(due), NEW w, NEW d, d \subseteq due, Sound(w, d, due),
         NEW s \in Walks!Steps, NEW v, v = Walks!Stride(w, s)
  PROVE  Keeps(w, v, d)
<1> DEFINE stepped == IF w.route > 0 THEN Walks!MoveOn(w, s)
                      ELSE Walks!StopEventWalk(Walks!OnWalkComplete(w))
<1>0. Keeps(w, w, d)
  BY DEF Keeps
<1>1. Keeps(w, stepped, d)
  <2>1. CASE w.route > 0
    BY <2>1, MoveOnOK
  <2>2. CASE ~(w.route > 0)
    <3>1. PICK u : u = Walks!OnWalkComplete(w)
      OBVIOUS
    <3>2. Keeps(w, u, d)
      BY <3>1, OnWalkCompleteOK
    <3>3. Keeps(u, Walks!StopEventWalk(u), d)
      BY <3>2, StopEventWalkOK DEF Keeps
    <3>4. Keeps(w, Walks!StopEventWalk(u), d)
      BY <3>2, <3>3, KeepsTwice
    <3> QED BY <2>2, <3>1, <3>4
  <2> QED BY <2>1, <2>2
<1>2. PICK after : after = IF ~s.rested THEN w ELSE stepped
  OBVIOUS
<1>3. Keeps(w, after, d)
  BY <1>0, <1>1, <1>2
<1>4. v = IF after.cancel THEN [Walks!OnWalkAborted([after EXCEPT !.route = 0]) EXCEPT !.cancel = FALSE]
          ELSE after
  BY <1>2 DEF Walks!Stride
<1>5. CASE after.cancel
  <2>1. PICK t : t = [after EXCEPT !.route = 0]
    OBVIOUS
  <2>2. after \in WalkStates /\ after.cancel \in BOOLEAN
    BY <1>3 DEF Keeps, Sound, WalkStates
  <2>3. t = [after EXCEPT !.route = 0, !.cancel = after.cancel]
    BY <2>1, <2>2 DEF WalkStates
  <2>4. Keeps(after, t, d)
    <3>1. Sound(after, d, due) /\ 0 \in Nat
      BY <1>3 DEF Keeps
    <3> QED BY <2>2, <2>3, <3>1, KeepsRoute
  <2>5. PICK a : a = Walks!OnWalkAborted(t)
    OBVIOUS
  <2>6. Keeps(t, a, d)
    BY <2>4, <2>5, OnWalkAbortedOK DEF Keeps
  <2>7. a \in WalkStates /\ a.route \in Nat
    BY <2>6 DEF Keeps, Sound, WalkStates
  <2>8. v = [a EXCEPT !.route = a.route, !.cancel = FALSE]
    BY <1>4, <1>5, <2>1, <2>5, <2>7 DEF WalkStates
  <2>9. Keeps(a, v, d)
    BY <2>6, <2>7, <2>8, KeepsRoute DEF Keeps
  <2>10. Keeps(w, t, d)
    BY <1>3, <2>4, KeepsTwice
  <2>11. Keeps(w, a, d)
    BY <2>6, <2>10, KeepsTwice
  <2> QED BY <2>9, <2>11, KeepsTwice
<1>6. CASE ~after.cancel
  BY <1>3, <1>4, <1>6
<1> QED BY <1>5, <1>6

(* Whoever has a walk event keeps it; whoever has none gets one.           *)
LEMMA AddEventWalkOK ==
  ASSUME Fired(due), NEW w, NEW d, d \subseteq due, Sound(w, d, due),
         NEW first \in BOOLEAN, NEW s \in Walks!Steps,
         NEW v, v = Walks!AddEventWalk(w, first, s)
  PROVE  /\ Sound(v, d, due) /\ Served(v)
         /\ w.eventWalk = 0 => Expected(v, {})
         /\ w.eventWalk # 0 => v.eventWalk = w.eventWalk
         /\ Expected(w, due) => Expected(v, due)
         /\ \A o \in ClientOrders : Idle(w, d, o) => Idle(v, d, o)
<1>1. PICK u : u = [w EXCEPT !.cancel = FALSE]
  OBVIOUS
<1>2. w \in WalkStates /\ w.route \in Nat
  BY DEF Sound, WalkStates
<1>3. u = [w EXCEPT !.route = w.route, !.cancel = FALSE]
  BY <1>1, <1>2 DEF WalkStates
<1>4. Keeps(w, u, d) /\ u.eventWalk = w.eventWalk
  BY <1>1, <1>2, <1>3, KeepsRoute DEF WalkStates
<1>5. Sound(u, d, due) /\ u \in WalkStates
  BY <1>4 DEF Keeps, Sound
<1>6. CASE w.eventWalk # 0
  <2>1. v = u
    BY <1>1, <1>4, <1>6 DEF Walks!AddEventWalk
  <2> QED BY <1>4, <1>5, <1>6, <2>1 DEF Keeps, Served
<1>7. CASE w.eventWalk = 0
  <2>1. PICK t : t = IF first /\ s.rested THEN Walks!Stride(u, s) ELSE u
    OBVIOUS
  <2>2. Keeps(u, t, d)
    <3>1. Keeps(u, u, d)
      BY <1>5 DEF Keeps
    <3>2. Keeps(u, Walks!Stride(u, s), d)
      BY <1>5, StrideOK
    <3> QED BY <2>1, <3>1, <3>2
  <2>3. Keeps(w, t, d)
    BY <1>4, <2>2, KeepsTwice
  <2>4. Sound(t, d, due) /\ t.eventWalk = 0
    BY <1>7, <2>3 DEF Keeps
  <2>5. v = Walks!QueueWalk(t)
    BY <1>1, <1>4, <1>7, <2>1 DEF Walks!AddEventWalk
  <2>6. /\ Sound(v, d, due) /\ Expected(v, {}) /\ v.eventWalk # 0
        /\ \A o \in ClientOrders : Idle(t, d, o) => Idle(v, d, o)
    BY <2>4, <2>5, QueueWalkOK
  <2> QED BY <1>7, <2>3, <2>6 DEF Keeps, Expected, Served
<1> QED BY <1>6, <1>7

(* The walk event that fired: another one, or the walk is over or lost.    *)
LEMMA OnWalkOK ==
  ASSUME Fired(due), NEW w, NEW d, NEW e \in due, e.kind = "walk", d = due \ {e},
         Sound(w, d, due), w.eventWalk = e.id \/ w.eventWalk = 0,
         Served(w), NEW s \in Walks!Steps, NEW v, v = Walks!OnWalk(w, s)
  PROVE  /\ Sound(v, d, due) /\ Served(v) /\ Expected(v, {})
         /\ \A o \in ClientOrders : Idle(w, d, o) => Idle(v, d, o)
<1>1. PICK u : u = Walks!Stride(w, s)
  OBVIOUS
<1>2. Keeps(w, u, d)
  BY <1>1, StrideOK
<1>3. Sound(u, d, due) /\ u \in WalkStates
  BY <1>2 DEF Keeps, Sound
<1>4. CASE u.eventWalk = 0
  <2>1. v = u
    BY <1>1, <1>4 DEF Walks!OnWalk
  <2> QED BY <1>2, <1>3, <1>4, <2>1 DEF Keeps, Expected
<1>5. CASE u.eventWalk # 0
  <2>1. PICK t : t = [u EXCEPT !.eventWalk = 0]
    OBVIOUS
  <2>2. t \in WalkStates
    BY <1>3, <2>1, WalkConstants DEF WalkStates
  <2>3. /\ t.pending = u.pending /\ t.eventWalk = 0
        /\ t.walkTaskEvent = u.walkTaskEvent /\ t.actionTaskEvent = u.actionTaskEvent
        /\ t.walkTask = u.walkTask /\ t.done = u.done
    BY <1>3, <2>1 DEF WalkStates
  <2>4. u.eventWalk = e.id
    BY <1>2, <1>5 DEF Keeps
  <2>5. \A f \in u.pending : f.kind # "walk"
    BY <1>3, <2>4 DEF Sound, Stoppable
  <2>6. Trimmed(u, t)
    BY <2>2, <2>3, <2>5 DEF Trimmed
  <2>7. Sound(t, d, due) /\ \A o \in ClientOrders : Idle(u, d, o) => Idle(t, d, o)
    BY <1>3, <2>6, TrimmedOK
  <2>8. v = Walks!AddEventWalk(t, FALSE, s)
    BY <1>1, <1>5, <2>1 DEF Walks!OnWalk
  <2>9. /\ Sound(v, d, due) /\ Served(v) /\ Expected(v, {})
        /\ \A o \in ClientOrders : Idle(t, d, o) => Idle(v, d, o)
    <3>1. d \subseteq due /\ FALSE \in BOOLEAN
      OBVIOUS
    <3>2. Sound(t, d, due) /\ t.eventWalk = 0
      BY <2>3, <2>7
    <3> QED BY <2>8, <3>1, <3>2, AddEventWalkOK
  <2> QED BY <1>2, <2>7, <2>9 DEF Keeps
<1> QED BY <1>4, <1>5

(* An order that waits nowhere is put off, carried out, or refused.        *)
Tried(w, v, d, o) ==
  /\ Sound(v, d, due) /\ Expected(v, due) /\ Served(v)
  /\ v.eventWalk = w.eventWalk
  /\ \A p \in ClientOrders : p # o /\ Idle(w, d, p) => Idle(v, d, p)

LEMMA WalkFirstOK ==
  ASSUME NEW w, NEW d, Sound(w, d, due), Expected(w, due),
         NEW o \in ClientOrders, Idle(w, d, o), NEW n \in Nat,
         NEW v, v = Walks!WalkFirst(w, o, n)
  PROVE  Tried(w, v, d, o)
<1>1. PICK q : q = Append(w.posted, n)
  OBVIOUS
<1>0. w \in WalkStates
  BY DEF Sound
<1>2. q \in Seq(Nat) /\ q # <<>>
  BY SMTT(30), <1>0, <1>1 DEF WalkStates
<1>3. PICK u : u = [w EXCEPT !.posted = q]
  OBVIOUS
<1>4. u \in WalkStates
  BY <1>0, <1>2, <1>3 DEF WalkStates
<1>5. /\ u.pending = w.pending /\ u.eventWalk = w.eventWalk
      /\ u.walkTaskEvent = w.walkTaskEvent /\ u.actionTaskEvent = w.actionTaskEvent
      /\ u.walkTask = w.walkTask /\ u.done = w.done /\ u.posted = q
  BY <1>0, <1>3 DEF WalkStates
<1>6. Trimmed(w, u)
  BY <1>4, <1>5 DEF Trimmed
<1>7. Sound(u, d, due) /\ \A p \in ClientOrders : Idle(w, d, p) => Idle(u, d, p)
  BY <1>6, TrimmedOK
<1>8. Expected(u, due)
  BY <1>5 DEF Expected
<1>9. v = Walks!SetNextWalkActionTask(u, o)
  BY <1>1, <1>3 DEF Walks!WalkFirst
<1>10. /\ Sound(v, d, due) /\ v.eventWalk = u.eventWalk /\ v.posted = u.posted
       /\ Expected(v, due)
       /\ \A p \in ClientOrders : p # o /\ Idle(u, d, p) => Idle(v, d, p)
  BY <1>7, <1>8, <1>9, WalkTaskSet
<1> QED BY <1>2, <1>5, <1>7, <1>10 DEF Served, Tried

LEMMA CarriedOut ==
  ASSUME NEW w, NEW d, Sound(w, d, due), Expected(w, due), Served(w),
         NEW o \in ClientOrders, Idle(w, d, o), NEW c \in BOOLEAN,
         NEW v, v = [w EXCEPT !.done[o] = @ + 1, !.cancel = c]
  PROVE  Tried(w, v, d, o)
<1>1. PICK f : f = [w.done EXCEPT ![o] = w.done[o] + 1]
  OBVIOUS
<1>2. w \in WalkStates /\ w.done \in [ClientOrders -> Nat]
  BY DEF Sound, WalkStates
<1>3. f \in [ClientOrders -> Nat] /\ f[o] = 1 /\ \A p \in ClientOrders : p # o => f[p] = w.done[p]
  BY <1>1, <1>2 DEF Idle
<1>4. v = [w EXCEPT !.done = f, !.cancel = c]
  BY <1>1, <1>2 DEF WalkStates
<1>5. v \in WalkStates
  BY <1>2, <1>3, <1>4 DEF WalkStates
<1>6. /\ v.pending = w.pending /\ v.eventWalk = w.eventWalk
      /\ v.walkTaskEvent = w.walkTaskEvent /\ v.actionTaskEvent = w.actionTaskEvent
      /\ v.walkTask = w.walkTask /\ v.done = f /\ v.posted = w.posted
      /\ v.stranded = w.stranded
  BY <1>2, <1>4 DEF WalkStates
<1>7. Stoppable(v, due)
  BY <1>6 DEF Sound, Stoppable
<1>8. Single(v, d)
  BY <1>3, <1>6 DEF Sound, Single, Idle
<1>9. \A p \in ClientOrders : p # o /\ Idle(w, d, p) => Idle(v, d, p)
  BY <1>3, <1>6 DEF Idle
<1>10. Expected(v, due) /\ Served(v)
  BY <1>6 DEF Expected, Served
<1> QED BY <1>5, <1>6, <1>7, <1>8, <1>9, <1>10 DEF Sound, Tried

LEMMA AttemptOK ==
  ASSUME Fired(due), NEW w, NEW d, d \subseteq due, Sound(w, d, due), Expected(w, due),
         Served(w), NEW o \in ClientOrders, Idle(w, d, o),
         NEW sort \in Walks!Sorts, NEW how \in Walks!Ways, NEW n \in Nat,
         NEW v, v = Walks!Attempt(w, o, sort, how, n)
  PROVE  Tried(w, v, d, o)
<1>0. w \in WalkStates /\ w.cancel \in BOOLEAN
  BY DEF Sound, WalkStates
<1>1. PICK u : u = Walks!SetNextActionTask(w, Walks!NoOrder)
  OBVIOUS
<1>2. u = ActionStopped(w)
  BY <1>0, <1>1, ActionDropped
<1>3. Keeps(w, u, d) /\ u.eventWalk = w.eventWalk
  BY <1>2, ActionStoppedOK
<1>4. /\ Sound(u, d, due) /\ Expected(u, due) /\ Served(u) /\ Idle(u, d, o)
      /\ u \in WalkStates /\ u.cancel \in BOOLEAN
      /\ \A p \in ClientOrders : Idle(w, d, p) => Idle(u, d, p)
  BY <1>3 DEF Keeps, Sound, WalkStates
<1>5. ASSUME Tried(u, v, d, o)
      PROVE  Tried(w, v, d, o)
  BY <1>3, <1>4, <1>5 DEF Tried
<1>6. Tried(w, w, d, o) /\ Tried(u, u, d, o)
  BY <1>4 DEF Tried
<1>7. CASE how = "wait" /\ v = Walks!SetNextActionTask(w, o)
  <2>1. /\ Sound(v, d, due) /\ v.eventWalk = w.eventWalk /\ Expected(v, due) /\ Served(v)
        /\ \A p \in ClientOrders : p # o /\ Idle(w, d, p) => Idle(v, d, p)
    BY <1>7, ActionSet
  <2> QED BY <2>1 DEF Tried
<1>8. ASSUME v = Walks!WalkFirst(w, o, n) \/ v = Walks!WalkFirst(u, o, n)
      PROVE  Tried(w, v, d, o)
  BY <1>4, <1>5, <1>8, WalkFirstOK
<1>9. ASSUME v = [w EXCEPT !.done[o] = @ + 1]
      PROVE  Tried(w, v, d, o)
  <2>1. v = [w EXCEPT !.done[o] = @ + 1, !.cancel = w.cancel]
    BY <1>0, <1>9 DEF WalkStates
  <2> QED BY <1>0, <2>1, CarriedOut
<1>10. ASSUME NEW c \in BOOLEAN, v = [u EXCEPT !.done[o] = @ + 1, !.cancel = c]
       PROVE  Tried(w, v, d, o)
  <2>1. Tried(u, v, d, o)
    BY <1>4, <1>10, CarriedOut
  <2> QED BY <1>5, <2>1
<1>11. CASE sort = "move"
  <2>0. v = Walks!MoveAttempt(w, o, how, n)
    BY <1>11 DEF Walks!Attempt
  <2>1. CASE how = "wait"
    BY <1>7, <2>0, <2>1 DEF Walks!MoveAttempt
  <2>2. CASE how = "far"
    BY <1>1, <1>8, <2>0, <2>2 DEF Walks!MoveAttempt
  <2>3. CASE how = "act"
    <3>1. v = [u EXCEPT !.done[o] = @ + 1]
      BY <1>1, <2>0, <2>3 DEF Walks!MoveAttempt
    <3>2. v = [u EXCEPT !.done[o] = @ + 1, !.cancel = u.cancel]
      BY <1>4, <3>1 DEF WalkStates
    <3> QED BY <1>4, <1>10, <3>2
  <2>4. CASE how = "refused"
    <3>1. v = u
      BY <1>1, <2>0, <2>4 DEF Walks!MoveAttempt
    <3> QED BY <1>5, <1>6, <3>1
  <2> QED BY <2>1, <2>2, <2>3, <2>4 DEF Walks!Ways
<1>12. CASE sort = "use"
  <2>0. v = Walks!UseAttempt(w, o, how, n)
    BY <1>12 DEF Walks!Attempt
  <2>1. CASE how = "wait"
    BY <1>7, <2>0, <2>1 DEF Walks!UseAttempt
  <2>2. CASE how = "far"
    BY <1>8, <2>0, <2>2 DEF Walks!UseAttempt
  <2>3. CASE how = "act"
    <3>1. v = [u EXCEPT !.done[o] = @ + 1, !.cancel = TRUE]
      BY <1>1, <2>0, <2>3 DEF Walks!UseAttempt
    <3> QED BY <1>10, <3>1
  <2>4. CASE how = "refused"
    <3>1. v = w
      BY <2>0, <2>4 DEF Walks!UseAttempt
    <3> QED BY <1>6, <3>1
  <2> QED BY <2>1, <2>2, <2>3, <2>4 DEF Walks!Ways
<1>13. CASE sort = "rotate"
  <2>0. v = Walks!RotateAttempt(w, o, how, n)
    BY <1>13 DEF Walks!Attempt
  <2>1. CASE how = "far"
    BY <1>8, <2>0, <2>1 DEF Walks!RotateAttempt
  <2>2. CASE how = "act"
    <3>1. v = [w EXCEPT !.done[o] = @ + 1]
      BY <2>0, <2>2 DEF Walks!RotateAttempt
    <3> QED BY <1>9, <3>1
  <2>3. CASE how # "far" /\ how # "act"
    <3>1. v = w
      BY <2>0, <2>3 DEF Walks!RotateAttempt
    <3> QED BY <1>6, <3>1
  <2> QED BY <2>1, <2>2, <2>3
<1> QED BY <1>11, <1>12, <1>13 DEF Walks!Sorts

-----------------------------------------------------------------------------
(* The steps.                                                              *)

LEMMA WalkNow ==
  ASSUME WalkInv
  PROVE  /\ Walks!Walk \in WalkStates /\ Walks!Walk.eventWalk = eventWalk
         /\ Walks!Walk.pending = pending /\ Walks!Walk.posted = posted
         /\ Walks!Walk.route = route /\ Walks!Walk.cancel = cancelNextWalk
         /\ Walks!Walk.walkTask = walkTask /\ Walks!Walk.stranded = stranded
         /\ Walks!Walk.done = ordersDone
         /\ Walks!Walk.walkTaskEvent = walkTaskEvent
         /\ Walks!Walk.actionTaskEvent = actionTaskEvent
         /\ Walks!Walk.following = following
BY DEF WalkInv, Sound, Walks!Walk

LEMMA WalkThen ==
  ASSUME NEW v \in WalkStates, Walks!Become(v)
  PROVE  Walks!Walk' = v /\ pending' = v.pending /\ eventWalk' = v.eventWalk
<1>1. v = [route |-> v.route, eventWalk |-> v.eventWalk, walkTaskEvent |-> v.walkTaskEvent,
           actionTaskEvent |-> v.actionTaskEvent, cancel |-> v.cancel, walkTask |-> v.walkTask,
           following |-> v.following, pending |-> v.pending, posted |-> v.posted, done |-> v.done,
           stranded |-> v.stranded]
  BY DEF WalkStates
<1> QED BY <1>1 DEF Walks!Walk, Walks!Become

(* What a handler has to leave, d being what has fired and is still to run.*)
Leaves(v, d, asked) ==
  /\ Sound(v, d, due) /\ Expected(v, d) /\ Expecting(v, d) /\ Served(v)
  /\ \A o \in ClientOrders \ asked : Idle(v, d, o)

LEMMA WalkLeft ==
  ASSUME WalkInv, NEW v, Walks!Become(v), NEW d, due' = d, d \subseteq due, inHand' = FALSE,
         NEW m \in BOOLEAN, moving' = m,
         NEW asked \in SUBSET ClientOrders, ordersAsked' = asked, Leaves(v, d, asked)
  PROVE  WalkInv'
<1>1. v \in WalkStates
  BY DEF Leaves, Sound
<1>2. Walks!Walk' = v
  BY <1>1, WalkThen
<1>3. Fired(d) /\ Sound(v, d, d)
  BY DEF WalkInv, Fired, Leaves, Sound, Stoppable
<1> QED BY <1>2, <1>3 DEF WalkInv, Leaves

(* A handler that was in progress, or runs when nothing has fired, knows   *)
(* of the walk event that has.                                             *)
LEMMA HandlerKnows ==
  ASSUME WalkInv, Walks!Handler
  PROVE  \A e \in due : e.kind = "walk" => e.id = eventWalk /\ eventWalk # 0
<1>1. \A e \in due : e.id # 0
  BY DEF WalkInv, Fired, WalkEvents
<1> QED BY <1>1 DEF WalkInv, Walks!Handler

LEMMA HandlerEnds ==
  ASSUME WalkInv, Walks!Handler, NEW v, Walks!Become(v), due' = due,
         NEW m \in BOOLEAN, moving' = m,
         NEW asked \in SUBSET ClientOrders, ordersAsked' = asked,
         Sound(v, due, due), Expected(v, due), Served(v),
         v.eventWalk = eventWalk \/ v.eventWalk = 0 \/ eventWalk = 0,
         \A o \in ClientOrders \ asked : Idle(v, due, o)
  PROVE  WalkInv'
<1>1. Expecting(v, due)
  BY HandlerKnows DEF Expecting
<1>2. Leaves(v, due, asked) /\ inHand' = FALSE
  BY <1>1 DEF Leaves, Walks!Handler
<1> QED BY <1>2, WalkLeft

LEMMA AddEventWalkNow ==
  ASSUME Fired(due), NEW w, Sound(w, due, due), Expected(w, due),
         NEW first \in BOOLEAN, NEW s \in Walks!Steps,
         NEW v, v = Walks!AddEventWalk(w, first, s)
  PROVE  /\ Sound(v, due, due) /\ Served(v)
         /\ w.eventWalk # 0 => v.eventWalk = w.eventWalk
         /\ Expected(v, due)
         /\ \A o \in ClientOrders : Idle(w, due, o) => Idle(v, due, o)
<1>1. due \subseteq due
  OBVIOUS
<1>2. Sound(v, due, due) /\ Served(v)
  BY <1>1, AddEventWalkOK, Zenon
<1>3. w.eventWalk # 0 => v.eventWalk = w.eventWalk
  BY <1>1, AddEventWalkOK, Zenon
<1>4. Expected(v, due)
  BY <1>1, AddEventWalkOK, Zenon
<1>5. \A o \in ClientOrders : Idle(w, due, o) => Idle(v, due, o)
  BY <1>1, AddEventWalkOK, Zenon
<1> QED BY <1>2, <1>3, <1>4, <1>5

(* startAutoWalk.                                                          *)
LEMMA StartAutoWalkOK ==
  ASSUME WalkInv, Walks!Handler, NEW w, Sound(w, due, due), Expected(w, due),
         w.eventWalk = eventWalk, NEW n \in Nat, NEW s \in Walks!Steps,
         \A o \in ClientOrders \ ordersAsked : Idle(w, due, o),
         Walks!Become(Walks!StartAutoWalk(w, n, s)), Walks!Same
  PROVE  WalkInv'
<1>1. PICK v : v = Walks!StartAutoWalk(w, n, s)
  OBVIOUS
<1>2. PICK u : u = [w EXCEPT !.route = n]
  OBVIOUS
<1>3. u = [w EXCEPT !.route = n, !.cancel = w.cancel] /\ w.cancel \in BOOLEAN /\ u.eventWalk = w.eventWalk
  BY <1>2 DEF Sound, WalkStates
<1>4. Keeps(w, u, due)
  BY <1>3, KeepsRoute
<1>5. Sound(u, due, due) /\ Expected(u, due)
  BY <1>4 DEF Keeps
<1>6. PICK first \in BOOLEAN : first = (n = 1)
  OBVIOUS
<1>6a. v = Walks!AddEventWalk(u, first, s)
  BY <1>1, <1>2, <1>6 DEF Walks!StartAutoWalk
<1>7. /\ Fired(due) /\ moving \in BOOLEAN /\ ordersAsked \in SUBSET ClientOrders
  BY DEF WalkInv
<1>8. /\ Sound(v, due, due) /\ Served(v)
      /\ u.eventWalk # 0 => v.eventWalk = u.eventWalk
      /\ Expected(v, due)
      /\ \A o \in ClientOrders : Idle(u, due, o) => Idle(v, due, o)
  BY <1>5, <1>6a, <1>7, AddEventWalkNow
<1>9. \A o \in ClientOrders \ ordersAsked : Idle(v, due, o)
  BY <1>4, <1>8 DEF Keeps
<1> QED BY <1>1, <1>3, <1>7, <1>8, <1>9, HandlerEnds DEF Walks!Same

LEMMA WalkInit == Walks!Init => WalkInv
<1> SUFFICES ASSUME Walks!Init PROVE WalkInv
  OBVIOUS
<1>1. PICK w : w = Walks!Walk
  OBVIOUS
<1>2. w = [route |-> 0, eventWalk |-> 0, walkTaskEvent |-> 0, actionTaskEvent |-> 0,
           cancel |-> FALSE, walkTask |-> "none", following |-> FALSE, pending |-> {}, posted |-> <<>>,
           done |-> [o \in ClientOrders |-> 0], stranded |-> FALSE]
  BY <1>1 DEF Walks!Walk, Walks!Init, Walks!NoOrder
<1>3. w \in WalkStates
  BY <1>2, WalkConstants DEF WalkStates
<1>4. Stoppable(w, {})
  BY <1>2 DEF Stoppable
<1>5. Single(w, {})
  BY <1>2, WalkingAssumption DEF Single
<1>6. Expected(w, {}) /\ Expecting(w, {}) /\ Served(w)
  BY <1>2 DEF Expected, Expecting, Served
<1>7. \A o \in ClientOrders : Idle(w, {}, o)
  BY <1>2, WalkingAssumption DEF Idle
<1>8. Fired({})
  BY DEF Fired
<1> QED BY <1>1, <1>3, <1>4, <1>5, <1>6, <1>7, <1>8 DEF WalkInv, Sound, Walks!Init

(* An event fires: its id and its order are still its own.                 *)
LEMMA FireOK ==
  ASSUME WalkInv, NEW e \in pending, Walks!Fire(e)
  PROVE  WalkInv'
<1>1. PICK w : w = Walks!Walk
  OBVIOUS
<1>2. PICK d : d = due \cup {e}
  OBVIOUS
<1>3. PICK v : v = [w EXCEPT !.pending = w.pending \ {e}]
  OBVIOUS
<1>4. /\ w \in WalkStates /\ w.pending = pending /\ w.eventWalk = eventWalk
      /\ Sound(w, due, due) /\ Expected(w, due) /\ Served(w) /\ Fired(due)
      /\ e \in w.pending /\ e \in WalkEvents
  BY <1>1, WalkNow DEF WalkInv, WalkStates
<1>5. /\ v \in WalkStates /\ v.pending = w.pending \ {e} /\ v.eventWalk = w.eventWalk
      /\ v.walkTaskEvent = w.walkTaskEvent /\ v.actionTaskEvent = w.actionTaskEvent
      /\ v.walkTask = w.walkTask /\ v.done = w.done /\ v.posted = w.posted
      /\ v.stranded = w.stranded
  <2>1. PICK q : q = w.pending \ {e}
    OBVIOUS
  <2>2. q \in SUBSET WalkEvents
    BY <1>4, <2>1 DEF WalkStates
  <2>3. v = [w EXCEPT !.pending = q]
    BY <1>3, <2>1
  <2> QED BY <1>4, <2>1, <2>2, <2>3 DEF WalkStates
<1>6. Walks!Walk' = v /\ due' = d /\ inHand' = TRUE
  BY <1>1, <1>2, <1>3, <1>4 DEF Walks!Fire, Walks!Walk
<1>7. \A f \in due : f.kind # e.kind
  BY <1>4 DEF Walks!Fire, WalkInv
<1>8. Fired(d)
  BY <1>2, <1>4, <1>7 DEF Fired, Sound, Stoppable
<1>9. Stoppable(v, d)
  BY <1>2, <1>4, <1>5 DEF Sound, Stoppable
<1>10. v.pending \cup d = w.pending \cup due
  BY <1>2, <1>4, <1>5
<1>11. Single(v, d)
  BY <1>4, <1>5, <1>10 DEF Sound, Single
<1>12. Expected(v, d) /\ Served(v)
  BY <1>4, <1>5, <1>10 DEF Expected, Served
<1>13. \A f \in d : f.kind = "walk" => f.id = v.eventWalk
  BY <1>2, <1>4, <1>5 DEF Walks!Fire, WalkInv, Sound, Stoppable
<1>14. \A f \in v.pending, g \in d : f.kind # g.kind
  <2>1. \A f \in pending, g \in due : f.kind # g.kind
    BY DEF Walks!Fire, WalkInv
  <2>2. \A f \in v.pending : f.kind # e.kind
    <3> SUFFICES ASSUME NEW f \in v.pending, f.kind = e.kind PROVE FALSE
      OBVIOUS
    <3>1. f.id = e.id
      <4>1. e.kind \in {"walk", "task", "action"}
        BY <1>4 DEF WalkEvents, WalkKinds
      <4> QED BY <1>4, <1>5, <4>1 DEF Sound, Stoppable
    <3> QED BY <1>4, <1>5, <3>1 DEF Sound, Stoppable
  <2> QED BY <1>2, <1>4, <1>5, <2>1, <2>2
<1>15. \A o \in ClientOrders \ ordersAsked : Idle(v, d, o)
  BY <1>1, <1>5, <1>10 DEF WalkInv, Idle
<1>16. /\ Sound(v, d, d) /\ Expecting(v, d) /\ eventWalk' = v.eventWalk
       /\ pending' = v.pending
  BY <1>4, <1>5, <1>9, <1>11, <1>13 DEF Sound, Expecting, Walks!Fire
<1>17. UNCHANGED <<moving, following, ordersAsked>>
  BY DEF Walks!Fire
<1> QED BY <1>6, <1>8, <1>12, <1>13, <1>14, <1>15, <1>16, <1>17 DEF WalkInv

LEMMA RunWalkOK ==
  ASSUME WalkInv, NEW e \in due, Walks!RunWalk(e)
  PROVE  WalkInv'
<1>1. PICK w : w = Walks!Walk
  OBVIOUS
<1>2. PICK d : d = due \ {e}
  OBVIOUS
<1>3. PICK s \in Walks!Steps : e.kind = "walk" /\ Walks!Become(Walks!OnWalk(w, s))
  BY <1>1 DEF Walks!RunWalk
<1>4. PICK v : v = Walks!OnWalk(w, s)
  OBVIOUS
<1>5. due' = d /\ inHand' = FALSE /\ moving' = moving /\ ordersAsked' = ordersAsked
  BY <1>2 DEF Walks!RunWalk
<1>6. /\ Fired(due) /\ moving \in BOOLEAN
      /\ ordersAsked \in SUBSET ClientOrders
      /\ Sound(w, due, due) /\ Served(w)
      /\ w.eventWalk = e.id \/ w.eventWalk = 0
      /\ \A o \in ClientOrders \ ordersAsked : Idle(w, due, o)
  BY <1>1, <1>3 DEF WalkInv, Expecting
<1>7. Sound(w, d, due) /\ d \subseteq due
  BY <1>2, <1>6 DEF Sound, Single
<1>8. /\ Sound(v, d, due) /\ Served(v) /\ Expected(v, {})
      /\ \A o \in ClientOrders : Idle(w, d, o) => Idle(v, d, o)
  BY <1>2, <1>3, <1>4, <1>6, <1>7, OnWalkOK
<1>9. \A f \in d : f.kind # "walk"
  BY <1>2, <1>3, <1>6 DEF Fired
<1>10. Expected(v, d) /\ Expecting(v, d)
  BY <1>8, <1>9 DEF Expected, Expecting
<1>11. \A o \in ClientOrders \ ordersAsked : Idle(v, d, o)
  BY <1>2, <1>6, <1>8 DEF Idle
<1>12. Leaves(v, d, ordersAsked)
  BY <1>8, <1>10, <1>11 DEF Leaves
<1> QED BY <1>3, <1>4, <1>5, <1>6, <1>7, <1>12, WalkLeft

LEMMA RunOrderOK ==
  ASSUME WalkInv, NEW e \in due, Walks!RunOrder(e)
  PROVE  WalkInv'
<1>1. PICK w : w = Walks!Walk
  OBVIOUS
<1>2. PICK d : d = due \ {e}
  OBVIOUS
<1>3. PICK sort \in Walks!Sorts, how \in Walks!Ways, n \in 0 .. MaxRoute :
        e.order \in ClientOrders /\ Walks!Become(Walks!Attempt(w, e.order, sort, how, n))
  BY <1>1 DEF Walks!RunOrder
<1>4. PICK o : o = e.order
  OBVIOUS
<1>5. PICK v : v = Walks!Attempt(w, o, sort, how, n)
  OBVIOUS
<1>6. due' = d /\ inHand' = FALSE /\ moving' = moving /\ ordersAsked' = ordersAsked
  BY <1>2 DEF Walks!RunOrder
<1>7. /\ Fired(due) /\ moving \in BOOLEAN
      /\ ordersAsked \in SUBSET ClientOrders
      /\ Sound(w, due, due) /\ Served(w) /\ Expected(w, due) /\ Expecting(w, due)
      /\ \A p \in ClientOrders \ ordersAsked : Idle(w, due, p)
      /\ w \in WalkStates
  BY <1>1 DEF WalkInv, Sound
<1>8. Sound(w, d, due) /\ d \subseteq due
  BY <1>2, <1>7 DEF Sound, Single
<1>9. o \in ClientOrders /\ o # "none" /\ e.kind # "walk"
  BY <1>3, <1>4, <1>7, WalkingAssumption DEF Fired
<1>10. Idle(w, d, o)
  <2>1. w.done[o] \in Nat /\ w.done[o] <= 1
    BY <1>7, <1>9 DEF WalkStates, Sound, Single
  <2>2. w.done[o] # 1 /\ w.walkTask # o
    BY <1>4, <1>7, <1>9 DEF Sound, Single
  <2>3. \A f \in w.pending \cup d : f.order # o
    <3>1. \A f \in w.pending : f # e
      BY <1>7 DEF Sound, Stoppable
    <3> QED BY <1>2, <1>4, <1>7, <1>9, <3>1 DEF Sound, Single
  <2> QED BY <2>1, <2>2, <2>3 DEF Idle
<1>11. n \in Nat
  BY WalkingAssumption
<1>12. /\ Sound(v, d, due) /\ Expected(v, due) /\ Served(v) /\ v.eventWalk = w.eventWalk
       /\ \A p \in ClientOrders : p # o /\ Idle(w, d, p) => Idle(v, d, p)
  <2>1. /\ Fired(due) /\ d \subseteq due /\ Sound(w, d, due) /\ Expected(w, due)
        /\ moving \in BOOLEAN /\ Served(w)
    BY <1>7, <1>8
  <2>2. Tried(w, v, d, o)
    BY <1>5, <1>9, <1>10, <1>11, <2>1, AttemptOK
  <2> QED BY <2>2 DEF Tried
<1>13. Expected(v, d)
  BY <1>2, <1>9, <1>12 DEF Expected
<1>14. Expecting(v, d)
  BY <1>7, <1>8, <1>12 DEF Expecting
<1>15. \A p \in ClientOrders \ ordersAsked : Idle(v, d, p)
  <2>1. \A p \in ClientOrders \ ordersAsked : p # o /\ Idle(w, d, p)
    BY <1>2, <1>4, <1>7 DEF Idle
  <2> QED BY <1>12, <2>1
<1>16. Leaves(v, d, ordersAsked)
  BY <1>12, <1>13, <1>14, <1>15 DEF Leaves
<1>17. Walks!Become(v)
  BY <1>3, <1>4, <1>5
<1> QED BY <1>6, <1>7, <1>8, <1>16, <1>17, WalkLeft

LEMMA RequestOK ==
  ASSUME WalkInv, NEW o \in ClientOrders, Walks!Request(o)
  PROVE  WalkInv'
<1>1. PICK w : w = Walks!Walk
  OBVIOUS
<1>2. PICK sort \in Walks!Sorts, how \in Walks!Ways, n \in 0 .. MaxRoute :
        /\ Walks!Handler /\ o \notin ordersAsked
        /\ ordersAsked' = ordersAsked \cup {o}
        /\ Walks!Become(Walks!Attempt(w, o, sort, how, n))
        /\ UNCHANGED <<moving, due>>
  BY <1>1 DEF Walks!Request
<1>3. PICK v : v = Walks!Attempt(w, o, sort, how, n)
  OBVIOUS
<1>4. /\ Fired(due) /\ moving \in BOOLEAN
      /\ ordersAsked \in SUBSET ClientOrders
      /\ Sound(w, due, due) /\ Served(w) /\ Expected(w, due)
      /\ \A p \in ClientOrders \ ordersAsked : Idle(w, due, p)
      /\ w.eventWalk = eventWalk
  BY <1>1, WalkNow DEF WalkInv
<1>5. n \in Nat /\ Idle(w, due, o) /\ due \subseteq due
  BY <1>2, <1>4, WalkingAssumption
<1>6. /\ Sound(v, due, due) /\ Expected(v, due) /\ Served(v) /\ v.eventWalk = w.eventWalk
      /\ \A p \in ClientOrders : p # o /\ Idle(w, due, p) => Idle(v, due, p)
  <2>1. Tried(w, v, due, o)
    BY <1>3, <1>4, <1>5, AttemptOK
  <2> QED BY <2>1 DEF Tried
<1>7. PICK asked : asked = ordersAsked \cup {o}
  OBVIOUS
<1>8. asked \in SUBSET ClientOrders /\ \A p \in ClientOrders \ asked : Idle(v, due, p)
  BY <1>4, <1>6, <1>7
<1>9. Walks!Become(v) /\ ordersAsked' = asked /\ moving' = moving /\ due' = due
  BY <1>2, <1>3, <1>4, <1>7
<1> QED BY <1>2, <1>4, <1>6, <1>8, <1>9, HandlerEnds

LEMMA AutoWalkOK ==
  ASSUME WalkInv, Walks!AutoWalk
  PROVE  WalkInv'
<1>1. PICK w : w = Walks!Walk
  OBVIOUS
<1>2. PICK n \in 0 .. MaxRoute, s \in Walks!Steps :
        /\ Walks!Handler /\ Walks!Same
        /\ \/ Walks!Become(Walks!StartAutoWalk(w, n, s))
           \/ /\ posted # <<>>
              /\ Walks!Become(Walks!StartAutoWalk([w EXCEPT !.posted = Tail(@)], n, s))
  BY <1>1 DEF Walks!AutoWalk
<1>3. /\ Sound(w, due, due) /\ Expected(w, due) /\ w \in WalkStates
      /\ \A p \in ClientOrders \ ordersAsked : Idle(w, due, p)
      /\ w.eventWalk = eventWalk /\ n \in Nat /\ w.posted = posted
  BY <1>1, WalkNow, WalkingAssumption DEF WalkInv
<1>4. CASE Walks!Become(Walks!StartAutoWalk(w, n, s))
  BY <1>2, <1>3, <1>4, StartAutoWalkOK
<1>5. CASE /\ posted # <<>>
           /\ Walks!Become(Walks!StartAutoWalk([w EXCEPT !.posted = Tail(@)], n, s))
  <2>1. PICK q : q = Tail(w.posted)
    OBVIOUS
  <2>2. PICK u : u = [w EXCEPT !.posted = Tail(@)]
    OBVIOUS
  <2>3. q \in Seq(Nat)
    BY <1>3, <1>5, <2>1 DEF WalkStates
  <2>4. u = [w EXCEPT !.posted = q]
    BY <1>3, <2>1, <2>2 DEF WalkStates
  <2>5. u \in WalkStates
    BY <1>3, <2>3, <2>4 DEF WalkStates
  <2>6. /\ u.pending = w.pending /\ u.eventWalk = w.eventWalk
        /\ u.walkTaskEvent = w.walkTaskEvent /\ u.actionTaskEvent = w.actionTaskEvent
        /\ u.walkTask = w.walkTask /\ u.done = w.done
    BY <1>3, <2>4 DEF WalkStates
  <2>7. Trimmed(w, u)
    BY <2>5, <2>6 DEF Trimmed
  <2>8. Sound(u, due, due) /\ \A p \in ClientOrders : Idle(w, due, p) => Idle(u, due, p)
    BY <1>3, <2>7, TrimmedOK
  <2>9. /\ Expected(u, due) /\ u.eventWalk = eventWalk
        /\ \A p \in ClientOrders \ ordersAsked : Idle(u, due, p)
    BY <1>3, <2>6, <2>8 DEF Expected
  <2> QED BY <1>2, <1>3, <1>5, <2>2, <2>8, <2>9, StartAutoWalkOK
<1> QED BY <1>2, <1>4, <1>5

LEMMA PlayerMoveOK ==
  ASSUME WalkInv, Walks!PlayerMove
  PROVE  WalkInv'
<1>1. PICK w : w = Walks!OnWalkAborted(Walks!Walk)
  OBVIOUS
<1>2. PICK s \in Walks!Steps :
        /\ Walks!Handler /\ Walks!Same
        /\ Walks!Become(Walks!StartAutoWalk(w, 1, s))
  BY <1>1 DEF Walks!PlayerMove, Walks!OnWalkAborted
<1>3. Keeps(Walks!Walk, w, due) /\ w.eventWalk = eventWalk
  BY <1>1, WalkNow, OnWalkAbortedOK DEF WalkInv
<1>4. /\ Sound(w, due, due) /\ Expected(w, due)
      /\ \A p \in ClientOrders \ ordersAsked : Idle(w, due, p)
  BY <1>3 DEF WalkInv, Keeps
<1> QED BY <1>2, <1>3, <1>4, StartAutoWalkOK

LEMMA StopWalkOK ==
  ASSUME WalkInv, Walks!StopWalk
  PROVE  WalkInv'
<1>1. PICK w : w = Walks!Walk
  OBVIOUS
<1>3. /\ w \in WalkStates /\ w.route \in Nat /\ w.following \in BOOLEAN
      /\ w.following = following /\ w.eventWalk = eventWalk /\ Sound(w, due, due)
  BY <1>1, WalkNow DEF WalkInv, WalkStates
<1>2a. PICK f \in BOOLEAN : Walks!Become([w EXCEPT !.cancel = TRUE, !.following = f])
  BY <1>1, <1>3 DEF Walks!StopWalk
<1>2b. PICK v : v = [w EXCEPT !.cancel = TRUE, !.following = f]
  OBVIOUS
<1>2. v = [w EXCEPT !.cancel = TRUE, !.following = f] /\ Walks!Become(v)
  BY <1>2a, <1>2b
<1>4. v = [w EXCEPT !.route = w.route, !.cancel = TRUE, !.following = f]
  BY <1>2, <1>3 DEF WalkStates
<1>5. Keeps(w, v, due)
  BY <1>3, <1>4, KeepsFollowing
<1>6. Walks!Handler /\ due' = due /\ moving' = moving /\ ordersAsked' = ordersAsked
  BY DEF Walks!StopWalk, Walks!Same
<1>7. /\ moving \in BOOLEAN /\ ordersAsked \in SUBSET ClientOrders
      /\ Sound(v, due, due) /\ Expected(v, due) /\ Served(v)
      /\ v.eventWalk = eventWalk \/ v.eventWalk = 0
      /\ \A o \in ClientOrders \ ordersAsked : Idle(v, due, o)
  BY <1>1, <1>3, <1>5 DEF WalkInv, Keeps
<1> QED BY <1>2, <1>6, <1>7, HandlerEnds

LEMMA AttackOK ==
  ASSUME WalkInv, Walks!Attack
  PROVE  WalkInv'
<1>1. PICK w : w = Walks!Walk
  OBVIOUS
<1>2. PICK v : v = Walks!SetNextActionTask(w, "swing")
  OBVIOUS
<1>3. /\ Walks!Handler /\ Walks!Become(v) /\ due' = due /\ moving' = moving
      /\ ordersAsked' = ordersAsked
  BY <1>1, <1>2 DEF Walks!Attack, Walks!Same, Walks!Swing
<1>4. /\ Sound(w, due, due) /\ Expected(w, due) /\ Served(w) /\ Fired(due) /\ due \subseteq due
      /\ w.eventWalk = eventWalk /\ moving \in BOOLEAN /\ ordersAsked \in SUBSET ClientOrders
      /\ \A o \in ClientOrders \ ordersAsked : Idle(w, due, o)
      /\ "swing" \notin ClientOrders
  BY <1>1, WalkNow, WalkingAssumption DEF WalkInv
<1>5. /\ Sound(v, due, due) /\ v.eventWalk = w.eventWalk /\ Expected(v, due) /\ Served(v)
      /\ \A p \in ClientOrders : p # "swing" /\ Idle(w, due, p) => Idle(v, due, p)
  BY <1>2, <1>4, ActionSet
<1>6. \A o \in ClientOrders \ ordersAsked : Idle(v, due, o)
  BY <1>4, <1>5
<1> QED BY <1>3, <1>4, <1>5, <1>6, HandlerEnds

LEMMA RunSwingOK ==
  ASSUME WalkInv, NEW e \in due, Walks!RunSwing(e)
  PROVE  WalkInv'
<1>1. PICK w : w = Walks!Walk
  OBVIOUS
<1>2. PICK d : d = due \ {e}
  OBVIOUS
<1>3. PICK v : Walks!Become(v) /\ (v = Walks!SetNextActionTask(w, "swing") \/ v = w)
  BY <1>1 DEF Walks!RunSwing, Walks!Swing
<1>4. /\ due' = d /\ inHand' = FALSE /\ moving' = moving /\ ordersAsked' = ordersAsked
      /\ e.order = "swing"
  BY <1>2 DEF Walks!RunSwing, Walks!Swing
<1>5. /\ Fired(due) /\ moving \in BOOLEAN /\ ordersAsked \in SUBSET ClientOrders
      /\ Sound(w, due, due) /\ Served(w) /\ Expected(w, due) /\ Expecting(w, due)
      /\ \A p \in ClientOrders \ ordersAsked : Idle(w, due, p)
      /\ "swing" \notin ClientOrders
  BY <1>1, WalkingAssumption DEF WalkInv
<1>6. Sound(w, d, due) /\ d \subseteq due /\ e.kind # "walk"
  BY <1>2, <1>4, <1>5 DEF Sound, Single, Fired
<1>7. /\ Sound(v, d, due) /\ v.eventWalk = w.eventWalk /\ Expected(v, due) /\ Served(v)
      /\ \A p \in ClientOrders : Idle(w, d, p) => Idle(v, d, p)
  <2>1. CASE v = w
    BY <1>5, <1>6, <2>1
  <2>2. CASE v = Walks!SetNextActionTask(w, "swing")
    <3>1. /\ Sound(v, d, due) /\ v.eventWalk = w.eventWalk
          /\ Expected(w, due) => Expected(v, due)
          /\ Served(w) => Served(v)
          /\ \A p \in ClientOrders : p # "swing" /\ Idle(w, d, p) => Idle(v, d, p)
      BY <1>5, <1>6, <2>2, ActionSet
    <3> QED BY <1>5, <3>1
  <2> QED BY <1>3, <2>1, <2>2
<1>8. Expected(v, d) /\ Expecting(v, d)
  BY <1>2, <1>5, <1>6, <1>7 DEF Expected, Expecting
<1>9. \A p \in ClientOrders \ ordersAsked : Idle(v, d, p)
  BY <1>2, <1>5, <1>7 DEF Idle
<1>10. Leaves(v, d, ordersAsked)
  BY <1>7, <1>8, <1>9 DEF Leaves
<1> QED BY <1>3, <1>4, <1>5, <1>6, <1>10, WalkLeft

LEMMA FollowOK ==
  ASSUME WalkInv, Walks!Follow
  PROVE  WalkInv'
<1>1. PICK w : w = Walks!Walk
  OBVIOUS
<1>2. /\ w \in WalkStates /\ w.cancel \in BOOLEAN /\ w.route \in Nat
      /\ w.eventWalk = eventWalk /\ Sound(w, due, due)
  BY <1>1, WalkNow DEF WalkInv, WalkStates
<1>3a. PICK chasing \in BOOLEAN :
         LET t == [w EXCEPT !.cancel = @ \/ (following /\ ~chasing), !.following = TRUE]
         IN Walks!Become(IF route > 0 THEN Walks!OnWalkAborted([t EXCEPT !.route = 0]) ELSE t)
  BY <1>1 DEF Walks!Follow
<1>3b. PICK t : t = [w EXCEPT !.cancel = @ \/ (following /\ ~chasing), !.following = TRUE]
  OBVIOUS
<1>3c. PICK v : v = IF route > 0 THEN Walks!OnWalkAborted([t EXCEPT !.route = 0]) ELSE t
  OBVIOUS
<1>3. /\ t = [w EXCEPT !.cancel = @ \/ (following /\ ~chasing), !.following = TRUE]
      /\ v = IF route > 0 THEN Walks!OnWalkAborted([t EXCEPT !.route = 0]) ELSE t
      /\ Walks!Become(v)
  BY <1>3a, <1>3b, <1>3c
<1>4. PICK c \in BOOLEAN : c = (w.cancel \/ (following /\ ~chasing))
  BY <1>2
<1>5. t = [w EXCEPT !.route = w.route, !.cancel = c, !.following = TRUE]
  BY <1>2, <1>3, <1>4 DEF WalkStates
<1>6. Keeps(w, t, due)
  BY <1>2, <1>5, KeepsFollowing
<1>7. PICK u : u = [t EXCEPT !.route = 0]
  OBVIOUS
<1>8. t \in WalkStates /\ t.cancel \in BOOLEAN /\ Sound(t, due, due)
  BY <1>6 DEF Keeps, Sound, WalkStates
<1>9. u = [t EXCEPT !.route = 0, !.cancel = t.cancel]
  BY <1>7, <1>8 DEF WalkStates
<1>10. Keeps(t, u, due)
  BY <1>8, <1>9, KeepsRoute
<1>11. Keeps(u, Walks!OnWalkAborted(u), due)
  BY <1>10, OnWalkAbortedOK DEF Keeps
<1>12. Keeps(w, Walks!OnWalkAborted(u), due)
  BY <1>6, <1>10, <1>11, KeepsTwice
<1>13. Keeps(w, v, due)
  BY <1>3, <1>6, <1>7, <1>12
<1>14. Walks!Handler /\ due' = due /\ moving' = moving /\ ordersAsked' = ordersAsked
  BY DEF Walks!Follow, Walks!Same
<1>15. /\ moving \in BOOLEAN /\ ordersAsked \in SUBSET ClientOrders
       /\ Sound(v, due, due) /\ Expected(v, due) /\ Served(v)
       /\ v.eventWalk = eventWalk \/ v.eventWalk = 0
       /\ \A o \in ClientOrders \ ordersAsked : Idle(v, due, o)
  BY <1>1, <1>2, <1>13 DEF WalkInv, Keeps
<1> QED BY <1>3, <1>14, <1>15, HandlerEnds

LEMMA UpdateFollowOK ==
  ASSUME WalkInv, Walks!UpdateFollow
  PROVE  WalkInv'
<1>1. PICK w : w = Walks!Walk
  OBVIOUS
<1>2. PICK found \in BOOLEAN, n \in 0 .. MaxRoute, s \in Walks!Steps :
        /\ Walks!Handler /\ Walks!Same
        /\ Walks!Become(Walks!GoToFollow(w, found, n, s))
  BY <1>1 DEF Walks!UpdateFollow
<1>3. /\ Sound(w, due, due) /\ Expected(w, due) /\ w \in WalkStates
      /\ \A p \in ClientOrders \ ordersAsked : Idle(w, due, p)
      /\ w.eventWalk = eventWalk /\ n \in Nat /\ Served(w) /\ w.cancel \in BOOLEAN
  BY <1>1, WalkNow, WalkingAssumption DEF WalkInv, WalkStates
<1>4. CASE w.walkTask = "none" /\ found
  <2>1. Walks!Become(Walks!StartAutoWalk(w, n, s))
    BY <1>2, <1>4 DEF Walks!GoToFollow, Walks!NoOrder
  <2> QED BY <1>2, <1>3, <2>1, StartAutoWalkOK
<1>5. PICK u : u = [w EXCEPT !.route = 0]
  OBVIOUS
<1>6. u = [w EXCEPT !.route = 0, !.cancel = w.cancel]
  BY <1>3, <1>5 DEF WalkStates
<1>6a. Keeps(w, u, due)
  BY <1>3, <1>6, KeepsRoute
<1>7. Keeps(w, u, due) /\ Keeps(w, w, due)
  BY <1>3, <1>6a DEF Keeps
<1>8. CASE w.walkTask # "none" \/ ~found
  <2>1. PICK v : v = (IF w.walkTask # "none" THEN w ELSE u)
    OBVIOUS
  <2>2. Walks!Become(v)
    BY <1>2, <1>5, <1>8, <2>1 DEF Walks!GoToFollow, Walks!NoOrder
  <2>3. Keeps(w, v, due)
    BY <1>7, <2>1
  <2>4. /\ Sound(v, due, due) /\ Expected(v, due) /\ Served(v)
        /\ v.eventWalk = eventWalk \/ v.eventWalk = 0
        /\ \A o \in ClientOrders \ ordersAsked : Idle(v, due, o)
    BY <1>3, <2>3 DEF Keeps
  <2>5. /\ due' = due /\ moving' = moving /\ ordersAsked' = ordersAsked
        /\ moving \in BOOLEAN /\ ordersAsked \in SUBSET ClientOrders
    BY <1>2 DEF Walks!Same, WalkInv
  <2> QED BY <1>2, <2>2, <2>4, <2>5, HandlerEnds
<1> QED BY <1>4, <1>8

LEMMA SetSpeedOK ==
  ASSUME WalkInv, Walks!SetSpeed
  PROVE  WalkInv'
<1>1. PICK w : w = Walks!Walk
  OBVIOUS
<1>2. /\ w \in WalkStates /\ w.eventWalk = eventWalk
      /\ Sound(w, due, due) /\ Expected(w, due) /\ Served(w) /\ Fired(due)
      /\ \A o \in ClientOrders \ ordersAsked : Idle(w, due, o)
  BY <1>1, WalkNow DEF WalkInv
<1>3a. PICK faster \in BOOLEAN :
         /\ moving' = faster
         /\ Walks!Become(IF ~faster THEN [Walks!StopEventWalk(w) EXCEPT !.cancel = TRUE]
                         ELSE IF ~moving /\ route > 0 THEN Walks!AddEventWalk(w, FALSE, Walks!NoStep)
                         ELSE w)
  BY <1>1 DEF Walks!SetSpeed
<1>3b. PICK v : v = IF ~faster THEN [Walks!StopEventWalk(w) EXCEPT !.cancel = TRUE]
                    ELSE IF ~moving /\ route > 0 THEN Walks!AddEventWalk(w, FALSE, Walks!NoStep)
                    ELSE w
  OBVIOUS
<1>3. /\ moving' = faster /\ Walks!Become(v)
      /\ v = IF ~faster THEN [Walks!StopEventWalk(w) EXCEPT !.cancel = TRUE]
             ELSE IF ~moving /\ route > 0 THEN Walks!AddEventWalk(w, FALSE, Walks!NoStep) ELSE w
  BY <1>3a, <1>3b
<1>5. /\ Walks!Handler /\ due' = due /\ ordersAsked' = ordersAsked
      /\ ordersAsked \in SUBSET ClientOrders
  BY DEF Walks!SetSpeed, WalkInv
<1>6. CASE ~faster
  <2>1. PICK u : u = Walks!StopEventWalk(w)
    OBVIOUS
  <2>2. Keeps(w, u, due) /\ u.eventWalk = 0
    BY <1>2, <2>1, StopEventWalkOK
  <2>3. u \in WalkStates /\ u.route \in Nat /\ Sound(u, due, due)
    BY <2>2 DEF Keeps, Sound, WalkStates
  <2>4. v = [u EXCEPT !.route = u.route, !.cancel = TRUE]
    BY <1>3, <1>6, <2>1, <2>3 DEF WalkStates
  <2>5. Keeps(u, v, due)
    BY <2>3, <2>4, KeepsRoute
  <2>6. /\ Sound(v, due, due) /\ Expected(v, due) /\ Served(v) /\ v.eventWalk = 0
        /\ \A o \in ClientOrders \ ordersAsked : Idle(v, due, o)
    BY <1>2, <2>2, <2>5 DEF Keeps
  <2> QED BY <1>3, <1>5, <2>6, HandlerEnds
<1>7. CASE faster /\ ~moving /\ route > 0
  <2>1. Walks!NoStep \in Walks!Steps /\ FALSE \in BOOLEAN
    BY DEF Walks!NoStep, Walks!Steps
  <2>2. v = Walks!AddEventWalk(w, FALSE, Walks!NoStep)
    BY <1>3, <1>7
  <2>3. /\ Sound(v, due, due) /\ Served(v)
        /\ w.eventWalk # 0 => v.eventWalk = w.eventWalk
        /\ Expected(v, due)
        /\ \A o \in ClientOrders : Idle(w, due, o) => Idle(v, due, o)
    BY <1>2, <2>1, <2>2, AddEventWalkNow
  <2>4. v.eventWalk = eventWalk \/ eventWalk = 0
    BY <1>2, <2>3
  <2>5. \A o \in ClientOrders \ ordersAsked : Idle(v, due, o)
    BY <1>2, <2>3
  <2> QED BY <1>3, <1>5, <2>3, <2>4, <2>5, HandlerEnds
<1>8. CASE faster /\ ~(~moving /\ route > 0)
  <2>1. v = w
    BY <1>3, <1>8
  <2> QED BY <1>2, <1>3, <1>5, <2>1, HandlerEnds
<1> QED BY <1>6, <1>7, <1>8

LEMMA TeleportOK ==
  ASSUME WalkInv, Walks!Teleport
  PROVE  WalkInv'
<1>1. PICK w : w = Walks!Walk
  OBVIOUS
<1>2. PICK v : v = Walks!StopEventWalk(w)
  OBVIOUS
<1>3. Sound(w, due, due) /\ Expected(w, due) /\ Served(w)
  BY <1>1 DEF WalkInv
<1>4. Keeps(w, v, due) /\ v.eventWalk = 0
  BY <1>2, <1>3, StopEventWalkOK
<1>5. /\ Walks!Handler /\ Walks!Become(v) /\ due' = due /\ moving' = moving
      /\ ordersAsked' = ordersAsked
      /\ moving \in BOOLEAN /\ ordersAsked \in SUBSET ClientOrders
  BY <1>1, <1>2 DEF Walks!Teleport, Walks!Same, WalkInv
<1>6. /\ Sound(v, due, due) /\ Expected(v, due) /\ Served(v)
      /\ \A o \in ClientOrders \ ordersAsked : Idle(v, due, o)
  BY <1>1, <1>3, <1>4 DEF WalkInv, Keeps
<1> QED BY <1>4, <1>5, <1>6, HandlerEnds

LEMMA WalkStep ==
  ASSUME WalkInv, [Walks!Next]_walkingVars
  PROVE  WalkInv'
<1>1. CASE \E e \in pending : Walks!Fire(e)
  BY <1>1, FireOK
<1>2. CASE \E e \in due : Walks!RunWalk(e) \/ Walks!RunOrder(e) \/ Walks!RunSwing(e)
  BY <1>2, RunWalkOK, RunOrderOK, RunSwingOK
<1>3. CASE \E o \in ClientOrders : Walks!Request(o)
  BY <1>3, RequestOK
<1>4. CASE UNCHANGED walkingVars
  <2>1. /\ UNCHANGED <<moving, following, inHand, ordersAsked, due, pending, eventWalk>>
        /\ Walks!Walk' = Walks!Walk
    BY <1>4 DEF walkingVars, Walks!Walk
  <2> QED BY <2>1 DEF WalkInv
<1> QED BY <1>1, <1>2, <1>3, <1>4, AttackOK, AutoWalkOK, PlayerMoveOK, StopWalkOK, FollowOK,
           UpdateFollowOK, SetSpeedOK, TeleportOK
        DEF Walks!Next

LEMMA AtMostOne ==
  ASSUME NEW S, \A e, f \in S : e = f
  PROVE  Cardinality(S) <= 1 /\ (S = {} => Cardinality(S) = 0)
<1>1. CASE S = {}
  BY <1>1, FS_EmptySet
<1>2. CASE S # {}
  <2>1. PICK x : x \in S
    BY <1>2
  <2>2. S = {x}
    BY <2>1
  <2>3. Cardinality(S) = 1
    BY <2>2, FS_Singleton
  <2> QED BY <1>2, <2>3
<1> QED BY <1>1, <1>2

LEMMA WalkSound ==
  ASSUME WalkInv
  PROVE  Walks!OrdersAgree
<1>1. PICK w : w = Walks!Walk
  OBVIOUS
<1>2. /\ w \in WalkStates /\ w.pending = pending /\ w.eventWalk = eventWalk
      /\ w.walkTask = walkTask /\ w.done = ordersDone /\ w.posted = posted
      /\ w.stranded = stranded /\ w.walkTaskEvent = walkTaskEvent
      /\ w.actionTaskEvent = actionTaskEvent
      /\ Sound(w, due, due) /\ Expected(w, due) /\ Served(w)
  BY <1>1, WalkNow DEF WalkInv
<1>3. Walks!OrderOnce
  <2> SUFFICES ASSUME NEW o \in ClientOrders
               PROVE  ordersDone[o] + Cardinality({e \in pending \cup due : e.order = o})
                        + (IF walkTask = o THEN 1 ELSE 0) <= 1
    BY Zenon DEF Walks!OrderOnce, Walks!Cardinality, Cardinality
  <2>1. PICK S : S = {e \in pending \cup due : e.order = o}
    OBVIOUS
  <2>2. \A e, f \in S : e = f
    BY <1>2, <2>1, WalkingAssumption DEF Sound, Single
  <2>3. Cardinality(S) <= 1 /\ (S = {} => Cardinality(S) = 0)
    BY <2>2, AtMostOne
  <2>4. Cardinality(S) \in Nat
    <3>1. IsFiniteSet(S)
      <4>1. CASE S = {}
        BY <4>1, FS_EmptySet
      <4>2. CASE S # {}
        <5>1. PICK x : S = {x}
          BY <2>2, <4>2
        <5> QED BY <5>1, FS_Singleton
      <4> QED BY <4>1, <4>2
    <3> QED BY <3>1, FS_CardinalityType
  <2>5. ordersDone[o] \in Nat /\ ordersDone[o] <= 1
    BY <1>2 DEF Sound, Single, WalkStates
  <2>6. ordersDone[o] = 1 => S = {} /\ walkTask # o
    BY <1>2, <2>1 DEF Sound, Single
  <2>7. walkTask = o => S = {}
    BY <1>2, <2>1 DEF Sound, Single
  <2>8. CASE walkTask = o
    BY <2>3, <2>5, <2>6, <2>7, <2>8, <2>1
  <2>9. CASE walkTask # o
    <3>1. CASE ordersDone[o] = 1
      BY <2>1, <2>3, <2>6, <2>9, <3>1
    <3>2. CASE ordersDone[o] = 0
      BY <2>1, <2>3, <2>4, <2>9, <3>2
    <3> QED BY <2>5, <3>1, <3>2
  <2> QED BY <2>8, <2>9
<1>4. Walks!EventsStoppable
  BY <1>2 DEF Walks!EventsStoppable, Walks!Ahead, Sound, Stoppable
<1>5. Walks!WalkTaskServed
  <2>1. \A e \in pending \cup due : e.kind = "walk" /\ e.id = eventWalk => e.kind = "walk"
    OBVIOUS
  <2> QED BY <1>2 DEF Walks!WalkTaskServed, Walks!NoOrder, Served, Expected
<1> QED BY <1>3, <1>4, <1>5 DEF Walks!OrdersAgree

(* Whatever the order of requests, steps, stops, teleports and fired       *)
(* events: an order is carried out once at most, an event that is pending  *)
(* can be stopped, and what waits for the end of a walk has a walk to wait *)
(* for unless it was taken away (Player::setNextWalkActionTask,            *)
(* setNextActionTask, onWalkComplete; Creature::onWalk, addEventWalk).     *)
THEOREM OrdersAlwaysAgree == AnySpec => []OrdersAgree
<1> DEFINE Inv == part = "walking" => WalkInv
<1>1. AnyInit => Inv
  BY WalkInit DEF AnyInit
<1>2. Inv /\ [AnyNext]_<<vars, part, conditionsVars, damageVars, itemsVars, progressVars, walkingVars>>
        => Inv'
  <2> SUFFICES ASSUME Inv, part' = "walking",
                      [AnyNext]_<<vars, part, conditionsVars, damageVars, itemsVars, progressVars, walkingVars>>
               PROVE  WalkInv'
    OBVIOUS
  <2>1. part = "walking" /\ [Walks!Next]_walkingVars
    BY DEF AnyNext
  <2> QED BY <2>1, WalkStep
<1>3. Inv => OrdersAgree
  BY WalkSound DEF OrdersAgree
<1> QED BY <1>1, <1>2, <1>3, PTL DEF AnySpec

-----------------------------------------------------------------------------
(* Progress (which MCCharacter calls Prog).  First what the levels take.   *)

LEMMA LeastNat ==
  ASSUME NEW S, S \subseteq Nat, S # {}
  PROVE  \E i \in S : \A j \in S : i <= j
<1>1. IsWellFoundedOn(OpToRel(<, Nat), Nat)
  BY NatLessThanWellFounded
<1>2. PICK i \in S : \A j \in S : ~ (<<j, i>> \in OpToRel(<, Nat))
  BY <1>1, WFMin, Zenon
<1>3. ASSUME NEW j \in S PROVE i <= j
  <2>1. i \in Nat /\ j \in Nat
    OBVIOUS
  <2>2. j < i => <<j, i>> \in OpToRel(<, Nat)
    BY <2>1 DEF OpToRel
  <2>3. ~(<<j, i>> \in OpToRel(<, Nat))
    BY <1>2, Zenon
  <2>4. ~(j < i)
    BY <2>2, <2>3, Zenon
  <2> QED BY <2>1, <2>4
<1> QED BY <1>3

LEMMA CountUp ==
  ASSUME NEW S, 0 \in S, \A k \in Nat : k \in S => k + 1 \in S
  PROVE  Nat \subseteq S
<1> SUFFICES ASSUME Nat \ S # {} PROVE FALSE
  OBVIOUS
<1>1. PICK k \in Nat \ S : \A j \in Nat \ S : k <= j
  BY LeastNat
<1>2. PICK j \in Nat : k = j + 1
  <2>1. k # 0
    BY <1>1
  <2> QED BY <1>1, <2>1
<1>3. j \in S
  BY <1>1, <1>2
<1> QED BY <1>1, <1>2, <1>3

LEMMA ReqIs ==
  ASSUME NEW k \in Prog!Ladders, NEW l \in Nat
  PROVE  Prog!Req(k, l) \in Nat /\ (l # 0 => Prog!Req(k, l) > 0)
<1>1. PICK table \in Seq(Nat \ {0}) : table = ReqTable[k] /\ Len(table) > 0
  BY ProgressAssumption DEF Prog!TablesFit
<1>2. Len(table) \in DOMAIN table /\ (l # 0 /\ l <= Len(table) => l \in DOMAIN table)
  BY <1>1
<1>3. \A i \in DOMAIN table : table[i] \in Nat /\ table[i] > 0
  OBVIOUS
<1> QED BY <1>1, <1>2, <1>3 DEF Prog!Req

LEMMA ReachIs ==
  ASSUME NEW k \in Prog!Ladders
  PROVE  /\ Prog!Reach(k, 0) = 0
         /\ \A n \in Nat : /\ Prog!Reach(k, n) \in Nat
                           /\ Prog!Reach(k, n + 1) = Prog!Reach(k, n) + Prog!Req(k, n + 1)
<1> DEFINE Goes(g, m) == g = [l \in 0 .. m |-> IF l = 0 THEN 0 ELSE g[l - 1] + Prog!Req(k, l)]
           Known(g, m) == /\ g[0] = 0
                          /\ \A l \in 1 .. m : g[l] = g[l - 1] + Prog!Req(k, l)
           S == {m \in Nat : \E g : Goes(g, m)}
<1>1. 0 \in S
  <2>1. PICK g : g = [l \in 0 .. 0 |-> 0]
    OBVIOUS
  <2>2. Goes(g, 0)
    BY <2>1
  <2> QED BY <2>2
<1>2. ASSUME NEW m \in Nat, m \in S PROVE m + 1 \in S
  <2>1. PICK g : Goes(g, m)
    BY <1>2
  <2>2. PICK h : h = [l \in 0 .. m + 1 |-> IF l <= m THEN g[l] ELSE g[m] + Prog!Req(k, m + 1)]
    OBVIOUS
  <2>3. /\ h = [l \in 0 .. m + 1 |-> h[l]]
        /\ \A l \in 0 .. m : h[l] = g[l]
        /\ h[m + 1] = g[m] + Prog!Req(k, m + 1)
    BY <2>2
  <2>4. g[0] = 0 /\ \A l \in 1 .. m : g[l] = g[l - 1] + Prog!Req(k, l)
    BY <2>1
  <2>5. ASSUME NEW l \in 0 .. m + 1
        PROVE  h[l] = IF l = 0 THEN 0 ELSE h[l - 1] + Prog!Req(k, l)
    <3>1. CASE l = 0
      <4>1. 0 \in 0 .. m
        OBVIOUS
      <4> QED BY <2>3, <2>4, <3>1, <4>1
    <3>2. CASE l \in 1 .. m
      <4>1. l - 1 \in 0 .. m /\ l \in 0 .. m /\ l # 0
        BY <3>2
      <4> QED BY <2>3, <2>4, <3>2, <4>1
    <3>3. CASE l = m + 1
      <4>1. l - 1 = m /\ m \in 0 .. m /\ l # 0
        BY <3>3
      <4> QED BY <2>3, <3>3, <4>1
    <3> QED BY <3>1, <3>2, <3>3
  <2>6. Goes(h, m + 1)
    BY <2>3, <2>5
  <2> QED BY <2>6
<1> HIDE DEF S
<1>3. \A m \in Nat : m \in S
  BY <1>1, <1>2, CountUp
<1> DEFINE R(m) == CHOOSE g : Goes(g, m)
<1>4. \A m \in Nat : Prog!Reach(k, m) = R(m)[m]
  BY DEF Prog!Reach
<1>5. \A m \in Nat : Goes(R(m), m)
  <2> HIDE DEF Goes
  <2>1. \A m \in Nat : \E g : Goes(g, m)
    BY <1>3 DEF S
  <2> QED BY <2>1
<1> HIDE DEF R
<1>6. \A m \in Nat : Known(R(m), m)
  BY <1>5
<1> HIDE DEF Goes
<1>7. ASSUME NEW m \in Nat PROVE R(m)[m] = R(m + 1)[m]
  <2> DEFINE T == {l \in Nat : l <= m => R(m)[l] = R(m + 1)[l]}
  <2>1. 0 \in T
    BY <1>6
  <2>2. ASSUME NEW l \in Nat, l \in T PROVE l + 1 \in T
    <3> SUFFICES ASSUME l + 1 <= m PROVE R(m)[l + 1] = R(m + 1)[l + 1]
      OBVIOUS
    <3>1. l + 1 \in 1 .. m /\ l + 1 \in 1 .. m + 1 /\ (l + 1) - 1 = l /\ m + 1 \in Nat
      OBVIOUS
    <3>2. R(m)[l + 1] = R(m)[l] + Prog!Req(k, l + 1)
      BY <1>6, <3>1
    <3>3. R(m + 1)[l + 1] = R(m + 1)[l] + Prog!Req(k, l + 1)
      BY <1>6, <3>1
    <3> QED BY <2>2, <3>2, <3>3
  <2> HIDE DEF T
  <2>3. m \in T
    BY <2>1, <2>2, CountUp
  <2> QED BY <2>3 DEF T
<1>8. \A m \in Nat : Prog!Reach(k, m + 1) = Prog!Reach(k, m) + Prog!Req(k, m + 1)
  <2> TAKE m \in Nat
  <2>1. m + 1 \in 1 .. m + 1 /\ (m + 1) - 1 = m /\ m + 1 \in Nat
    OBVIOUS
  <2>2. R(m + 1)[m + 1] = R(m + 1)[m] + Prog!Req(k, m + 1)
    BY <1>6, <2>1
  <2> QED BY <1>4, <1>7, <2>1, <2>2
<1>9. Prog!Reach(k, 0) = 0
  BY <1>4, <1>6
<1> DEFINE N == {m \in Nat : Prog!Reach(k, m) \in Nat}
<1>10. 0 \in N
  BY <1>9
<1>11. ASSUME NEW m \in Nat, m \in N PROVE m + 1 \in N
  <2>1. Prog!Req(k, m + 1) \in Nat
    BY ReqIs
  <2> QED BY <1>8, <1>11, <2>1
<1> HIDE DEF N
<1>12. \A m \in Nat : m \in N
  BY <1>10, <1>11, CountUp
<1>13. \A m \in Nat : Prog!Reach(k, m) \in Nat
  BY <1>12 DEF N
<1> QED BY <1>8, <1>9, <1>13

-----------------------------------------------------------------------------
(* The calls under way, and what they still have to give to a ladder.      *)

Calls == [ladder : Prog!Ladders \cup {"exp"}, count : Nat, next : Nat, script : BOOLEAN]

For(k, c) == IF c.ladder = k THEN c.count ELSE 0

Sums(C, k, g) ==
  /\ g \in [0 .. Len(C) -> Nat] /\ g[0] = 0
  /\ \A i \in 1 .. Len(C) : g[i] = g[i - 1] + For(k, C[i])

Pends(C, k, n) == \E g : Sums(C, k, g) /\ n = g[Len(C)]

LEMMA PendsNone ==
  ASSUME NEW C \in Seq(Calls), Len(C) = 0, NEW k, NEW n
  PROVE  Pends(C, k, 0) /\ (Pends(C, k, n) => n = 0)
<1>1. PICK g : g = [i \in 0 .. 0 |-> 0]
  OBVIOUS
<1>2. Sums(C, k, g) /\ g[Len(C)] = 0
  BY <1>1 DEF Sums
<1> QED BY <1>2 DEF Pends, Sums

LEMMA PendsMore ==
  ASSUME NEW C \in Seq(Calls), NEW c \in Calls, NEW k, NEW n, Pends(C, k, n),
         NEW D, D = Append(C, c)
  PROVE  Pends(D, k, n + For(k, c))
<1>1. PICK g : Sums(C, k, g) /\ n = g[Len(C)]
  BY DEF Pends
<1>2. PICK L \in Nat : L = Len(C)
  OBVIOUS
<1>3. Len(D) = L + 1 /\ D[L + 1] = c /\ \A i \in 1 .. L : D[i] = C[i]
  BY <1>2
<1>4. For(k, c) \in Nat
  BY DEF For, Calls
<1>5. g \in [0 .. L -> Nat] /\ g[0] = 0 /\ n = g[L] /\ \A i \in 1 .. L : g[i] = g[i - 1] + For(k, C[i])
  BY <1>1, <1>2 DEF Sums
<1>6. n \in Nat
  BY <1>5
<1>7. PICK h : h = [i \in 0 .. L + 1 |-> IF i <= L THEN g[i] ELSE n + For(k, c)]
  OBVIOUS
<1>8. h \in [0 .. L + 1 -> Nat] /\ h[L + 1] = n + For(k, c) /\ \A i \in 0 .. L : h[i] = g[i]
  BY <1>4, <1>5, <1>6, <1>7
<1>9. h[0] = 0
  BY <1>5, <1>8
<1>10. ASSUME NEW i \in 1 .. L + 1 PROVE h[i] = h[i - 1] + For(k, D[i])
  <2>1. CASE i = L + 1
    <3>1. i - 1 = L /\ L \in 0 .. L
      BY <2>1
    <3> QED BY <1>3, <1>5, <1>8, <2>1, <3>1
  <2>2. CASE i # L + 1
    <3>1. i \in 1 .. L /\ i \in 0 .. L /\ i - 1 \in 0 .. L
      BY <2>2
    <3>2. h[i] = g[i] /\ h[i - 1] = g[i - 1] /\ D[i] = C[i]
      BY <1>3, <1>8, <3>1
    <3> QED BY <1>5, <3>1, <3>2
  <2> QED BY <2>1, <2>2
<1>11. Sums(D, k, h) /\ h[Len(D)] = n + For(k, c)
  BY <1>3, <1>8, <1>9, <1>10 DEF Sums
<1> QED BY <1>11 DEF Pends

(* The innermost call ends, or changes.                                    *)
LEMMA PendsLast ==
  ASSUME NEW C \in Seq(Calls), Len(C) > 0, NEW k, NEW n, Pends(C, k, n)
  PROVE  \E m \in Nat :
           /\ n = m + For(k, C[Len(C)])
           /\ Pends(SubSeq(C, 1, Len(C) - 1), k, m)
           /\ \A c \in Calls : Pends([C EXCEPT ![Len(C)] = c], k, m + For(k, c))
<1>1. PICK g : Sums(C, k, g) /\ n = g[Len(C)]
  BY DEF Pends
<1>2. PICK L \in Nat : L + 1 = Len(C)
  <2>1. Len(C) - 1 \in Nat /\ (Len(C) - 1) + 1 = Len(C)
    OBVIOUS
  <2> QED BY <2>1
<1>3. PICK D : D = SubSeq(C, 1, L)
  OBVIOUS
<1>4. D \in Seq(Calls) /\ Len(D) = L /\ \A i \in 1 .. L : D[i] = C[i]
  BY <1>2, <1>3
<1>5. /\ g \in [0 .. L + 1 -> Nat] /\ g[0] = 0 /\ n = g[L + 1]
      /\ \A i \in 1 .. L + 1 : g[i] = g[i - 1] + For(k, C[i])
  BY <1>1, <1>2 DEF Sums
<1>6. PICK m \in Nat : m = g[L]
  BY <1>5
<1>7. n = m + For(k, C[L + 1])
  <2>1. L + 1 \in 1 .. L + 1 /\ (L + 1) - 1 = L
    OBVIOUS
  <2> QED BY <1>5, <1>6, <2>1
<1>8. PICK h : h = [i \in 0 .. L |-> g[i]]
  OBVIOUS
<1>9. h \in [0 .. L -> Nat] /\ \A i \in 0 .. L : h[i] = g[i]
  BY <1>5, <1>8
<1>10. \A i \in 1 .. L : h[i] = h[i - 1] + For(k, D[i])
  <2> TAKE i \in 1 .. L
  <2>1. i \in 1 .. L + 1 /\ i \in 0 .. L /\ i - 1 \in 0 .. L
    OBVIOUS
  <2>2. h[i] = g[i] /\ h[i - 1] = g[i - 1] /\ D[i] = C[i]
    BY <1>4, <1>9, <2>1
  <2> QED BY <1>5, <2>1, <2>2
<1>11. h[0] = 0 /\ h[L] = m
  <2>1. 0 \in 0 .. L /\ L \in 0 .. L
    OBVIOUS
  <2> QED BY <1>5, <1>6, <1>9, <2>1
<1>12. Pends(D, k, m)
  <2>1. Sums(D, k, h)
    BY <1>4, <1>9, <1>10, <1>11 DEF Sums
  <2> QED BY <1>4, <1>11, <2>1 DEF Pends
<1>13. ASSUME NEW c \in Calls, NEW E, E = [C EXCEPT ![L + 1] = c]
       PROVE  Pends(E, k, m + For(k, c))
  <2>1. Append(D, c) \in Seq(Calls) /\ Len(Append(D, c)) = L + 1
        /\ Append(D, c)[L + 1] = c /\ \A i \in 1 .. L : Append(D, c)[i] = D[i]
    BY <1>4
  <2>2. Len(E) = L + 1 /\ E[L + 1] = c /\ \A i \in 1 .. L : E[i] = C[i]
    BY <1>2, <1>13
  <2>3. Pends(Append(D, c), k, m + For(k, c))
    BY <1>4, <1>12, PendsMore
  <2>4. PICK F : F = Append(D, c)
    OBVIOUS
  <2>5. Len(F) = L + 1 /\ Pends(F, k, m + For(k, c)) /\ \A i \in 1 .. L + 1 : F[i] = E[i]
    <3>1. \A i \in 1 .. L + 1 : i = L + 1 \/ i \in 1 .. L
      OBVIOUS
    <3> QED BY <1>4, <2>1, <2>2, <2>3, <2>4, <3>1
  <2>6. PICK f : Sums(F, k, f) /\ m + For(k, c) = f[L + 1]
    BY <2>5 DEF Pends
  <2>7. Sums(E, k, f)
    BY <2>2, <2>5, <2>6 DEF Sums
  <2> QED BY <2>2, <2>6, <2>7 DEF Pends
<1>14. Len(C) - 1 = L
  BY <1>2
<1> QED BY <1>2, <1>3, <1>7, <1>12, <1>13, <1>14

-----------------------------------------------------------------------------
(* Nothing but what a call under way still holds is missing from a ladder, *)
(* and only the innermost call is between two scripts.                     *)

Fits(k, a, b, c) == b < Prog!Req(k, a + 1) \/ (c > 0 /\ b <= Prog!Req(k, a + 1))

Balanced(k, C, a, b, c, d) ==
  \E n \in Nat : Pends(C, k, n) /\ d = Prog!Reach(k, a) + b + n - c

Ledger(C, s, t, l, o) ==
  /\ C \in Seq(Calls)
  /\ s \in [Prog!Ladders -> Nat] /\ t \in [Prog!Ladders -> Nat]
  /\ l \in [Prog!Ladders -> Nat] /\ o \in [Prog!Ladders -> Int]
  /\ \A i \in 1 .. Len(C) : ~C[i].script =>
       /\ i = Len(C) /\ C[i].ladder \in Prog!Ladders
       /\ C[i].next = Prog!Req(C[i].ladder, s[C[i].ladder] + 1)
  /\ \A k \in Prog!Ladders :
       /\ l[k] # 0 => Len(C) = 0
       /\ Fits(k, s[k], t[k], l[k])
       /\ Balanced(k, C, s[k], t[k], l[k], o[k])

LEMMA LedgerCall ==
  ASSUME NEW C, NEW s, NEW t, NEW l, NEW o, Ledger(C, s, t, l, o),
         \A k \in Prog!Ladders : l[k] = 0, Len(C) # 0 => C[Len(C)].script,
         NEW c \in Calls,
         ~c.script => c.ladder \in Prog!Ladders /\ c.next = Prog!Req(c.ladder, s[c.ladder] + 1),
         NEW D, D = Append(C, c),
         NEW p \in [Prog!Ladders -> Int], \A k \in Prog!Ladders : p[k] = o[k] + For(k, c)
  PROVE  Ledger(D, s, t, l, p)
<1>1. /\ C \in Seq(Calls)
      /\ s \in [Prog!Ladders -> Nat] /\ t \in [Prog!Ladders -> Nat]
      /\ l \in [Prog!Ladders -> Nat] /\ o \in [Prog!Ladders -> Int]
  BY DEF Ledger
<1>2. PICK L \in Nat : L = Len(C)
  BY <1>1
<1>3. D \in Seq(Calls) /\ Len(D) = L + 1 /\ D[L + 1] = c /\ \A i \in 1 .. L : D[i] = C[i]
  BY <1>1, <1>2
<1>4. ASSUME NEW i \in 1 .. L + 1, ~D[i].script
      PROVE  /\ i = L + 1 /\ D[i].ladder \in Prog!Ladders
             /\ D[i].next = Prog!Req(D[i].ladder, s[D[i].ladder] + 1)
  <2>1. CASE i = L + 1
    BY <1>3, <1>4, <2>1
  <2>2. CASE i # L + 1
    <3>1. i \in 1 .. L /\ ~C[i].script
      BY <1>3, <1>4, <2>2
    <3>2. i = L
      BY <1>2, <3>1 DEF Ledger
    <3>3. Len(C) # 0
      BY <1>2, <3>1
    <3> QED BY <1>2, <3>1, <3>2, <3>3
  <2> QED BY <2>1, <2>2
<1>5. ASSUME NEW k \in Prog!Ladders
      PROVE  /\ l[k] # 0 => Len(D) = 0
             /\ Fits(k, s[k], t[k], l[k])
             /\ Balanced(k, D, s[k], t[k], l[k], p[k])
  <2>1. Fits(k, s[k], t[k], l[k])
    BY DEF Ledger
  <2>2. PICK n \in Nat : Pends(C, k, n) /\ o[k] = Prog!Reach(k, s[k]) + t[k] + n - l[k]
    BY DEF Ledger, Balanced
  <2>3. Pends(D, k, n + For(k, c))
    BY <1>1, <2>2, PendsMore
  <2>4. For(k, c) \in Nat
    BY DEF For, Calls
  <2>5. p[k] = Prog!Reach(k, s[k]) + t[k] + (n + For(k, c)) - l[k]
    <3>1. p[k] = o[k] + For(k, c)
      OBVIOUS
    <3>2. Prog!Reach(k, s[k]) \in Nat /\ t[k] \in Nat /\ l[k] \in Nat
      BY <1>1, ReachIs
    <3> QED BY <2>2, <2>4, <3>1, <3>2
  <2>6. n + For(k, c) \in Nat
    BY <2>4
  <2>7. Balanced(k, D, s[k], t[k], l[k], p[k])
    BY <2>3, <2>5, <2>6 DEF Balanced
  <2> QED BY <2>1, <2>7
<1> QED BY <1>1, <1>3, <1>4, <1>5 DEF Ledger

LEMMA LastIs ==
  ASSUME NEW C \in Seq(Calls), Len(C) # 0
  PROVE  \E L \in Nat : L + 1 = Len(C) /\ C[L + 1] \in Calls
<1>1. PICK L \in Int : L = Len(C) - 1
  OBVIOUS
<1>2. L \in Nat /\ L + 1 = Len(C)
  BY <1>1
<1> QED BY <1>2

(* What c leaves on a ladder is booked, and what it drops written off.      *)
Booked(k, c, a, b, r, t) == b = a + (r - t) - For(k, c)

LEMMA LedgerEnd ==
  ASSUME NEW C, NEW s, NEW t, NEW l, NEW o, Ledger(C, s, t, l, o),
         Len(C) # 0, NEW D, D = SubSeq(C, 1, Len(C) - 1),
         NEW r \in [Prog!Ladders -> Nat], NEW p \in [Prog!Ladders -> Int],
         \A k \in Prog!Ladders : /\ Fits(k, s[k], r[k], l[k])
                                 /\ Booked(k, C[Len(C)], o[k], p[k], r[k], t[k])
  PROVE  Ledger(D, s, r, l, p)
<1>1. /\ C \in Seq(Calls)
      /\ s \in [Prog!Ladders -> Nat] /\ t \in [Prog!Ladders -> Nat]
      /\ l \in [Prog!Ladders -> Nat] /\ o \in [Prog!Ladders -> Int]
  BY DEF Ledger
<1>2. PICK L \in Nat : L + 1 = Len(C) /\ C[L + 1] \in Calls
  BY <1>1, LastIs, Zenon
<1>3. D \in Seq(Calls) /\ Len(D) = L /\ \A i \in 1 .. L : D[i] = C[i]
  BY <1>1, <1>2
<1>4. ASSUME NEW i \in 1 .. L PROVE D[i].script
  <2>1. i \in 1 .. Len(C) /\ i # Len(C)
    BY <1>2
  <2> QED BY <1>3, <2>1 DEF Ledger
<1>5. ASSUME NEW k \in Prog!Ladders
      PROVE  /\ l[k] # 0 => Len(D) = 0
             /\ Balanced(k, D, s[k], r[k], l[k], p[k])
  <2>1. l[k] = 0
    BY DEF Ledger
  <2>2. PICK n \in Nat : Pends(C, k, n) /\ o[k] = Prog!Reach(k, s[k]) + t[k] + n - l[k]
    BY DEF Ledger, Balanced
  <2>3. PICK m \in Nat : n = m + For(k, C[Len(C)]) /\ Pends(D, k, m)
    <3>1. Len(C) > 0
      BY <1>2
    <3> QED BY <1>1, <2>2, <3>1, PendsLast
  <2>4. For(k, C[Len(C)]) \in Nat
    <3>1. C[Len(C)] \in Calls
      BY <1>1, <1>2
    <3> QED BY <3>1 DEF For, Calls
  <2>5. p[k] = Prog!Reach(k, s[k]) + r[k] + m - l[k]
    <3>1. p[k] = o[k] + (r[k] - t[k]) - For(k, C[Len(C)])
      BY DEF Booked
    <3>2. PICK R \in Nat, a \in Nat, b \in Nat, e \in Nat, x \in Nat :
            R = Prog!Reach(k, s[k]) /\ a = t[k] /\ b = l[k] /\ e = r[k] /\ x = For(k, C[Len(C)])
      BY <1>1, <2>4, ReachIs
    <3>3. n = m + x /\ o[k] = R + a + n - b /\ p[k] = o[k] + (e - a) - x
      BY <2>2, <2>3, <3>1, <3>2
    <3>4. p[k] = R + e + m - b
      BY <3>3
    <3> QED BY <3>2, <3>4
  <2>6. Balanced(k, D, s[k], r[k], l[k], p[k])
    BY <2>3, <2>5 DEF Balanced
  <2> QED BY <2>1, <2>6
<1> QED BY <1>1, <1>3, <1>4, <1>5 DEF Ledger

(* What a ladder holds with c for the innermost call is what it held.      *)
Traded(k, c, q, r, d, s, t) ==
  Prog!Reach(k, q) + r + For(k, c) = Prog!Reach(k, s) + t + For(k, d)

LEMMA TradedIs ==
  ASSUME NEW R \in Nat, NEW S \in Nat, NEW a \in Nat, NEW b \in Nat, NEW e \in Nat,
         NEW x \in Nat, NEW y \in Nat, NEW m \in Nat, NEW o,
         o = R + a + (m + x) - b, S + e + y = R + a + x
  PROVE  o = S + e + (m + y) - b
  OBVIOUS

LEMMA LedgerChange ==
  ASSUME NEW C, NEW s, NEW t, NEW l, NEW o, Ledger(C, s, t, l, o),
         Len(C) # 0, NEW c \in Calls, NEW D, D = [C EXCEPT ![Len(C)] = c],
         NEW q \in [Prog!Ladders -> Nat], NEW r \in [Prog!Ladders -> Nat],
         ~c.script => c.ladder \in Prog!Ladders /\ c.next = Prog!Req(c.ladder, q[c.ladder] + 1),
         \A k \in Prog!Ladders :
           /\ Fits(k, q[k], r[k], l[k])
           /\ Traded(k, c, q[k], r[k], C[Len(C)], s[k], t[k])
  PROVE  Ledger(D, q, r, l, o)
<1>1. /\ C \in Seq(Calls)
      /\ s \in [Prog!Ladders -> Nat] /\ t \in [Prog!Ladders -> Nat]
      /\ l \in [Prog!Ladders -> Nat] /\ o \in [Prog!Ladders -> Int]
  BY DEF Ledger
<1>2. PICK L \in Nat : L + 1 = Len(C) /\ C[L + 1] \in Calls
  BY <1>1, LastIs, Zenon
<1>3. D \in Seq(Calls) /\ Len(D) = L + 1 /\ D[L + 1] = c /\ \A i \in 1 .. L : D[i] = C[i]
  BY <1>1, <1>2
<1>4. ASSUME NEW i \in 1 .. L + 1, ~D[i].script
      PROVE  /\ i = L + 1 /\ D[i].ladder \in Prog!Ladders
             /\ D[i].next = Prog!Req(D[i].ladder, q[D[i].ladder] + 1)
  <2>1. CASE i = L + 1
    BY <1>3, <1>4, <2>1
  <2>2. CASE i # L + 1
    <3>1. i \in 1 .. L /\ ~C[i].script /\ i \in 1 .. Len(C) /\ i # Len(C)
      BY <1>2, <1>3, <1>4, <2>2
    <3> QED BY <3>1 DEF Ledger
  <2> QED BY <2>1, <2>2
<1>5. ASSUME NEW k \in Prog!Ladders
      PROVE  /\ l[k] # 0 => Len(D) = 0
             /\ Balanced(k, D, q[k], r[k], l[k], o[k])
  <2>1. l[k] = 0
    BY DEF Ledger
  <2>2. PICK n \in Nat : Pends(C, k, n) /\ o[k] = Prog!Reach(k, s[k]) + t[k] + n - l[k]
    BY DEF Ledger, Balanced
  <2>3. PICK m \in Nat : n = m + For(k, C[Len(C)]) /\ Pends(D, k, m + For(k, c))
    <3>1. Len(C) > 0
      BY <1>2
    <3> QED BY <1>1, <2>2, <3>1, PendsLast
  <2>4. For(k, C[Len(C)]) \in Nat /\ For(k, c) \in Nat
    <3>1. C[Len(C)] \in Calls
      BY <1>1, <1>2
    <3> QED BY <3>1 DEF For, Calls
  <2>5. o[k] = Prog!Reach(k, q[k]) + r[k] + (m + For(k, c)) - l[k]
    <3>1. Prog!Reach(k, q[k]) + r[k] + For(k, c) = Prog!Reach(k, s[k]) + t[k] + For(k, C[Len(C)])
      BY DEF Traded
    <3>2. PICK R \in Nat, S \in Nat, a \in Nat, b \in Nat, e \in Nat, x \in Nat, y \in Nat :
            /\ R = Prog!Reach(k, s[k]) /\ S = Prog!Reach(k, q[k])
            /\ a = t[k] /\ b = l[k] /\ e = r[k] /\ x = For(k, C[Len(C)]) /\ y = For(k, c)
      BY <1>1, <2>4, ReachIs
    <3>3. o[k] = R + a + (m + x) - b /\ S + e + y = R + a + x
      BY <2>2, <2>3, <3>1, <3>2
    <3>4. o[k] = S + e + (m + y) - b
      BY <3>3, TradedIs
    <3> QED BY <3>2, <3>4
  <2>6. m + For(k, c) \in Nat
    BY <2>4
  <2>7. Balanced(k, D, q[k], r[k], l[k], o[k])
    BY <2>3, <2>5, <2>6 DEF Balanced
  <2> QED BY <2>1, <2>7
<1> QED BY <1>1, <1>3, <1>4, <1>5 DEF Ledger

(* Between calls an account is settled: what is owed is on the books.       *)
AllBooked(k, a, b, d, w) == Fits(k, a, b, d) /\ w = Prog!Reach(k, a) + b - d

LEMMA IdleBooked ==
  ASSUME NEW C \in Seq(Calls), Len(C) = 0,
         NEW s \in [Prog!Ladders -> Nat], NEW t \in [Prog!Ladders -> Nat],
         NEW l \in [Prog!Ladders -> Nat], NEW o \in [Prog!Ladders -> Int],
         Ledger(C, s, t, l, o), NEW k \in Prog!Ladders
  PROVE  AllBooked(k, s[k], t[k], l[k], o[k])
<1>1. Fits(k, s[k], t[k], l[k]) /\ Balanced(k, C, s[k], t[k], l[k], o[k])
  BY DEF Ledger
<1>2. Pends(C, k, 0) /\ \A n : Pends(C, k, n) => n = 0
  BY PendsNone
<1>3. Prog!Reach(k, s[k]) \in Nat /\ t[k] \in Nat /\ l[k] \in Nat
  BY ReachIs
<1>4. o[k] = Prog!Reach(k, s[k]) + t[k] - l[k]
  BY <1>1, <1>2, <1>3 DEF Balanced
<1> QED BY <1>1, <1>4 DEF AllBooked

LEMMA LedgerIdle ==
  ASSUME NEW C \in Seq(Calls), Len(C) = 0,
         NEW s \in [Prog!Ladders -> Nat], NEW t \in [Prog!Ladders -> Nat],
         NEW l \in [Prog!Ladders -> Nat], NEW o \in [Prog!Ladders -> Int]
  PROVE  (\A k \in Prog!Ladders : AllBooked(k, s[k], t[k], l[k], o[k]))
         => Ledger(C, s, t, l, o)
<1>1. ASSUME NEW k \in Prog!Ladders, AllBooked(k, s[k], t[k], l[k], o[k])
      PROVE  Fits(k, s[k], t[k], l[k]) /\ Balanced(k, C, s[k], t[k], l[k], o[k])
  <2>1. Pends(C, k, 0)
    BY PendsNone
  <2>2. PICK x \in Nat, y \in Nat, z \in Nat : x = Prog!Reach(k, s[k]) /\ y = t[k] /\ z = l[k]
    BY ReachIs
  <2>3. o[k] = x + y - z /\ Fits(k, s[k], t[k], l[k])
    BY <1>1, <2>2 DEF AllBooked
  <2>4. o[k] = Prog!Reach(k, s[k]) + t[k] + 0 - l[k]
    BY <2>2, <2>3
  <2> QED BY <2>1, <2>3, <2>4 DEF Balanced
<1> QED BY <1>1 DEF Ledger

-----------------------------------------------------------------------------
(* Experience and levels.                                                  *)

LevelFits(exp, lev) ==
  /\ exp \in Nat /\ lev \in 1 .. Len(ExpTable)
  /\ exp >= Prog!GetExpForLevel(lev)
  /\ lev < Len(ExpTable) => exp < Prog!GetExpForLevel(lev + 1)

LEMMA ExpIs ==
  /\ Len(ExpTable) \in Nat /\ Len(ExpTable) > 0 /\ Prog!GetExpForLevel(1) = 0
  /\ \A l \in 1 .. Len(ExpTable) : Prog!GetExpForLevel(l) \in Nat
<1>1. PICK table \in Seq(Nat) : table = ExpTable /\ Len(table) > 0 /\ table[1] = 0
  BY ProgressAssumption DEF Prog!TablesFit
<1> QED BY <1>1 DEF Prog!GetExpForLevel

LEMMA LevelUpFits ==
  ASSUME LevelFits(experience, level), NEW exp \in Nat, exp >= experience
  PROVE  LevelFits(exp, Prog!LevelUp(exp))
<1>1. PICK M \in Nat : M = Len(ExpTable)
  BY ExpIs
<1>2. /\ experience \in Nat /\ level \in 1 .. M
      /\ experience >= Prog!GetExpForLevel(level)
  BY <1>1 DEF LevelFits
<1>3. \A l \in 1 .. M : Prog!GetExpForLevel(l) \in Nat
  BY <1>1, ExpIs
<1> DEFINE S == {l \in level .. M : \A j \in level + 1 .. l : exp >= Prog!GetExpForLevel(j)}
<1>4. Prog!LevelUp(exp) = CHOOSE x \in S : \A y \in S : x >= y
  BY <1>1, Zenon DEF Prog!LevelUp, Prog!Max
<1>5. level \in S
  BY <1>2
<1>6. PICK m \in S : \A y \in S : m >= y
  <2>1. PICK T : T = {M - l : l \in S}
    OBVIOUS
  <2>2. S \subseteq Nat /\ \A l \in S : l <= M
    BY <1>2
  <2> HIDE DEF S
  <2>3. T \subseteq Nat /\ T # {}
    BY <1>5, <2>1, <2>2
  <2>4. PICK i \in T : \A j \in T : i <= j
    BY <2>3, LeastNat
  <2>5. PICK m \in S : i = M - m
    BY <2>1, <2>4
  <2>6. \A y \in S : m >= y
    <3> TAKE y \in S
    <3>1. M - m <= M - y
      BY <2>1, <2>4, <2>5
    <3>2. m \in Nat /\ y \in Nat
      BY <2>2
    <3> QED BY <3>1, <3>2
  <2> QED BY <2>6
<1>7. PICK n : n = Prog!LevelUp(exp)
  OBVIOUS
<1>8. n \in S /\ \A y \in S : n >= y
  BY <1>4, <1>6, <1>7
<1>9. n \in level .. M /\ n \in Nat /\ n >= level /\ \A j \in level + 1 .. n : exp >= Prog!GetExpForLevel(j)
  BY <1>2, <1>8
<1>10. exp >= Prog!GetExpForLevel(n)
  <2>1. CASE n = level
    BY <1>2, <1>3, <2>1
  <2>2. CASE n # level
    <3>1. n \in level + 1 .. n
      BY <1>2, <1>9, <2>2
    <3> QED BY <1>9, <3>1
  <2> QED BY <2>1, <2>2
<1>11. ASSUME n < M PROVE exp < Prog!GetExpForLevel(n + 1)
  <2>1. n + 1 \notin S /\ n + 1 \in level .. M
    BY <1>2, <1>8, <1>9, <1>11
  <2>2. PICK j \in level + 1 .. n + 1 : ~(exp >= Prog!GetExpForLevel(j))
    BY <2>1
  <2>3. j = n + 1
    <3>1. j \in level + 1 .. n \/ j = n + 1
      BY <1>2, <1>9
    <3> QED BY <1>9, <2>2, <3>1
  <2>4. Prog!GetExpForLevel(n + 1) \in Nat
    BY <1>2, <1>3, <2>1
  <2> QED BY <2>2, <2>3, <2>4
<1>12. n \in 1 .. M
  BY <1>2, <1>9
<1> QED BY <1>1, <1>7, <1>10, <1>11, <1>12 DEF LevelFits

LEMMA LevelDownFits ==
  ASSUME LevelFits(experience, level), NEW exp \in Nat, exp <= experience
  PROVE  LevelFits(exp, Prog!LevelDown(exp))
<1>1. PICK M \in Nat : M = Len(ExpTable)
  BY ExpIs
<1>2. /\ experience \in Nat /\ level \in 1 .. M
      /\ level < M => experience < Prog!GetExpForLevel(level + 1)
  BY <1>1 DEF LevelFits
<1>3. \A l \in 1 .. M : Prog!GetExpForLevel(l) \in Nat
  BY <1>1, ExpIs
<1> DEFINE S == {l \in 1 .. level : \A j \in l + 1 .. level : exp < Prog!GetExpForLevel(j)}
<1>4. Prog!LevelDown(exp) = CHOOSE x \in S : \A y \in S : x <= y
  BY Zenon DEF Prog!LevelDown, Prog!Min
<1>5. level \in S
  BY <1>2
<1>6. S \subseteq Nat
  BY <1>2
<1>7. PICK n : n = Prog!LevelDown(exp)
  OBVIOUS
<1>8. n \in S /\ \A y \in S : n <= y
  <2> HIDE DEF S
  <2>1. \E x \in S : \A y \in S : x <= y
    BY <1>5, <1>6, LeastNat
  <2> QED BY <1>4, <1>7, <2>1
<1>9. n \in 1 .. level /\ n \in Nat /\ \A j \in n + 1 .. level : exp < Prog!GetExpForLevel(j)
  BY <1>2, <1>8
<1>10. exp >= Prog!GetExpForLevel(n)
  <2>1. CASE n = 1
    BY <2>1, ExpIs
  <2>2. CASE n # 1
    <3>1. PICK b \in Nat : b + 1 = n /\ b \in 1 .. level
      <4>1. n - 1 \in Nat /\ (n - 1) + 1 = n /\ n - 1 \in 1 .. level
        BY <1>2, <1>9, <2>2
      <4> QED BY <4>1
    <3>2. b \notin S
      BY <1>6, <1>8, <3>1
    <3>3. PICK j \in b + 1 .. level : ~(exp < Prog!GetExpForLevel(j))
      BY <3>1, <3>2
    <3>4. j = n
      <4>1. j \in n + 1 .. level \/ j = n
        BY <1>2, <1>9, <3>1
      <4> QED BY <1>9, <3>3, <4>1
    <3>5. Prog!GetExpForLevel(n) \in Nat
      BY <1>2, <1>3, <1>9
    <3> QED BY <3>3, <3>4, <3>5
  <2> QED BY <2>1, <2>2
<1>11. ASSUME n < M PROVE exp < Prog!GetExpForLevel(n + 1)
  <2>1. CASE n = level
    <3>1. Prog!GetExpForLevel(n + 1) \in Nat
      BY <1>2, <1>3, <1>11, <2>1
    <3> QED BY <1>2, <1>11, <2>1, <3>1
  <2>2. CASE n # level
    <3>1. n + 1 \in n + 1 .. level
      BY <1>2, <1>9, <2>2
    <3> QED BY <1>9, <3>1
  <2> QED BY <2>1, <2>2
<1>12. n \in 1 .. M
  BY <1>2, <1>9
<1> QED BY <1>1, <1>7, <1>10, <1>11, <1>12 DEF LevelFits

LEMMA ShareIs ==
  ASSUME NEW n \in Nat, NEW percent \in Prog!LostPercents
  PROVE  Prog!Share(n, percent) \in Nat /\ Prog!Share(n, percent) <= n
<1>1. percent = 0 \/ percent = 10 \/ percent = 50
  BY DEF Prog!LostPercents
<1>2. CASE percent = 0
  BY <1>2 DEF Prog!Share
<1>3. CASE percent = 10
  BY <1>3 DEF Prog!Share
<1>4. CASE percent = 50
  BY <1>4 DEF Prog!Share
<1> QED BY <1>1, <1>2, <1>3, <1>4

-----------------------------------------------------------------------------
(* The progress of a player.                                               *)

ProgInv == LevelFits(experience, level) /\ Ledger(calls, rung, tries, losing, triesOwed)

LEMMA ProgInit == ASSUME Prog!Init PROVE ProgInv
<1>1. PICK z : z = [k \in Prog!Ladders |-> 0]
  OBVIOUS
<1>2. /\ experience = 0 /\ level = 1 /\ rung = z /\ tries = z /\ losing = z /\ triesOwed = z
      /\ calls = <<>>
  BY <1>1 DEF Prog!Init
<1>3. z \in [Prog!Ladders -> Nat] /\ z \in [Prog!Ladders -> Int] /\ \A k \in Prog!Ladders : z[k] = 0
  BY <1>1
<1>4. \A k \in Prog!Ladders : Prog!Req(k, 0 + 1) > 0 /\ Prog!Reach(k, 0) = 0
  BY ReqIs, ReachIs
<1>5. Ledger(<<>>, z, z, z, z)
  <2>1. <<>> \in Seq(Calls) /\ Len(<<>>) = 0
    OBVIOUS
  <2>2. \A k \in Prog!Ladders : AllBooked(k, z[k], z[k], z[k], z[k])
    BY <1>3, <1>4 DEF Fits, AllBooked
  <2> QED BY <1>3, <2>1, <2>2, LedgerIdle
<1>6. LevelFits(0, 1)
  <2>1. 1 < Len(ExpTable) => Prog!GetExpForLevel(1 + 1) > 0
    BY ExpIs, ProgressAssumption DEF Prog!TablesFit, Prog!GetExpForLevel
  <2> QED BY <2>1, ExpIs DEF LevelFits
<1> QED BY <1>2, <1>5, <1>6 DEF ProgInv

(* The calls that train a ladder.                                          *)
LEMMA AddTriesKeeps ==
  ASSUME ProgInv, NEW k \in Prog!Ladders, NEW count \in Gains, Prog!AddTries(k, count)
  PROVE  ProgInv'
<1>1. PICK C, s, t, l, o : C = calls /\ s = rung /\ t = tries /\ l = losing /\ o = triesOwed
  OBVIOUS
<1>2. PICK c : c = [ladder |-> k, count |-> count, next |-> Prog!Req(k, s[k] + 1), script |-> FALSE]
  OBVIOUS
<1>3. PICK p : p = [o EXCEPT ![k] = o[k] + count]
  OBVIOUS
<1>4. /\ \A j \in Prog!Ladders : l[j] = 0
      /\ C # <<>> => C[Len(C)].script
      /\ calls' = Append(C, c) /\ triesOwed' = p /\ rung' = s /\ tries' = t /\ losing' = l
      /\ experience' = experience /\ level' = level
  BY <1>1, <1>2, <1>3 DEF Prog!AddTries, Prog!MayCall, Prog!Innermost
<1>5. Ledger(C, s, t, l, o)
  BY <1>1 DEF ProgInv
<1>6. /\ C \in Seq(Calls) /\ s \in [Prog!Ladders -> Nat] /\ o \in [Prog!Ladders -> Int]
  BY <1>5 DEF Ledger
<1>7. count \in Nat
  BY ProgressAssumption DEF Prog!TablesFit
<1>8. c \in Calls /\ ~c.script /\ c.ladder = k /\ c.next = Prog!Req(k, s[k] + 1) /\ c.count = count
  <2>1. Prog!Req(k, s[k] + 1) \in Nat
    BY <1>6, ReqIs
  <2> QED BY <1>2, <1>7, <2>1 DEF Calls
<1>9. p \in [Prog!Ladders -> Int] /\ \A j \in Prog!Ladders : p[j] = o[j] + For(j, c)
  BY <1>3, <1>6, <1>7, <1>8 DEF For
<1>10. Len(C) # 0 => C[Len(C)].script
  BY <1>4
<1>11. Ledger(Append(C, c), s, t, l, p)
  BY <1>4, <1>5, <1>8, <1>9, <1>10, LedgerCall
<1> QED BY <1>4, <1>11 DEF ProgInv

(* What the innermost call looks like while no script of it runs.          *)
LEMMA InnermostIs ==
  ASSUME NEW C, NEW s, NEW t, NEW l, NEW o, Ledger(C, s, t, l, o), C # <<>>,
         NEW c, c = C[Len(C)]
  PROVE  /\ Len(C) # 0 /\ C \in Seq(Calls) /\ c \in Calls
         /\ c.count \in Nat /\ c.next \in Nat /\ c.ladder \in Prog!Ladders \cup {"exp"}
         /\ ~c.script => c.ladder \in Prog!Ladders /\ c.next = Prog!Req(c.ladder, s[c.ladder] + 1)
         /\ s \in [Prog!Ladders -> Nat] /\ t \in [Prog!Ladders -> Nat]
         /\ o \in [Prog!Ladders -> Int] /\ l \in [Prog!Ladders -> Nat]
         /\ \A k \in Prog!Ladders : l[k] = 0 /\ t[k] < Prog!Req(k, s[k] + 1)
                                    /\ For(k, c) \in Nat
<1>1. /\ C \in Seq(Calls)
      /\ s \in [Prog!Ladders -> Nat] /\ t \in [Prog!Ladders -> Nat]
      /\ l \in [Prog!Ladders -> Nat] /\ o \in [Prog!Ladders -> Int]
  BY DEF Ledger
<1>2. Len(C) # 0
  BY <1>1
<1>3. c \in Calls /\ Len(C) \in 1 .. Len(C)
  <2>1. PICK L \in Nat : L + 1 = Len(C) /\ C[L + 1] \in Calls
    BY <1>1, <1>2, LastIs
  <2> QED BY <2>1
<1>4. c.count \in Nat /\ c.next \in Nat /\ c.ladder \in Prog!Ladders \cup {"exp"}
  BY <1>3 DEF Calls
<1>5. ~c.script => c.ladder \in Prog!Ladders /\ c.next = Prog!Req(c.ladder, s[c.ladder] + 1)
  BY <1>3 DEF Ledger
<1>6. ASSUME NEW k \in Prog!Ladders
      PROVE  l[k] = 0 /\ t[k] < Prog!Req(k, s[k] + 1) /\ For(k, c) \in Nat
  <2>1. l[k] = 0 /\ Fits(k, s[k], t[k], l[k])
    BY <1>2 DEF Ledger
  <2> QED BY <1>4, <2>1 DEF Fits, For
<1> QED BY <1>1, <1>2, <1>3, <1>4, <1>5, <1>6

LEMMA AdvanceKeeps == ASSUME ProgInv, Prog!Advance PROVE ProgInv'
<1>1. PICK C, s, t, l, o : C = calls /\ s = rung /\ t = tries /\ l = losing /\ o = triesOwed
  OBVIOUS
<1>2. PICK c, k : c = C[Len(C)] /\ k = c.ladder
  OBVIOUS
<1>3. PICK e : e = [c EXCEPT !.count = c.count - (c.next - t[k]), !.script = TRUE]
  OBVIOUS
<1>4. /\ C # <<>> /\ k # "exp" /\ ~c.script /\ t[k] + c.count >= c.next
      /\ rung' = [s EXCEPT ![k] = s[k] + 1] /\ tries' = [t EXCEPT ![k] = 0]
      /\ calls' = [C EXCEPT ![Len(C)] = e] /\ losing' = l /\ triesOwed' = o
      /\ experience' = experience /\ level' = level
  BY <1>1, <1>2, <1>3 DEF Prog!Advance, Prog!Innermost, Prog!SpendOnLevel
<1>5. PICK q, r : q = [s EXCEPT ![k] = s[k] + 1] /\ r = [t EXCEPT ![k] = 0]
  OBVIOUS
<1>6. Ledger(C, s, t, l, o)
  BY <1>1 DEF ProgInv
<1>7. /\ Len(C) # 0 /\ C \in Seq(Calls) /\ c \in Calls
      /\ c.count \in Nat /\ c.next \in Nat /\ c.ladder \in Prog!Ladders \cup {"exp"}
      /\ ~c.script => c.ladder \in Prog!Ladders /\ c.next = Prog!Req(c.ladder, s[c.ladder] + 1)
      /\ s \in [Prog!Ladders -> Nat] /\ t \in [Prog!Ladders -> Nat]
      /\ o \in [Prog!Ladders -> Int] /\ l \in [Prog!Ladders -> Nat]
      /\ \A j \in Prog!Ladders : l[j] = 0 /\ t[j] < Prog!Req(j, s[j] + 1)
                                 /\ For(j, c) \in Nat
  BY <1>2, <1>4, <1>6, InnermostIs
<1>8. k \in Prog!Ladders /\ c.next = Prog!Req(k, s[k] + 1)
  BY <1>2, <1>4, <1>7
<1>9. PICK a \in Nat, b \in Nat, x \in Nat, y \in Nat :
        a = s[k] /\ b = t[k] /\ x = c.count /\ y = c.next /\ b + x >= y
  BY <1>4, <1>7, <1>8
<1>10. PICK d \in Nat : d = x - (y - b)
  <2>1. x - (y - b) \in Nat
    BY <1>9
  <2> QED BY <2>1
<1>11. e \in Calls /\ e.ladder = k /\ e.count = d /\ e.script
  BY <1>2, <1>3, <1>7, <1>9, <1>10 DEF Calls
<1>12. /\ q \in [Prog!Ladders -> Nat] /\ r \in [Prog!Ladders -> Nat]
       /\ q[k] = a + 1 /\ r[k] = 0
       /\ \A j \in Prog!Ladders : j # k => q[j] = s[j] /\ r[j] = t[j]
  BY <1>5, <1>7, <1>8, <1>9
<1>13. ASSUME NEW j \in Prog!Ladders
       PROVE  Fits(j, q[j], r[j], l[j]) /\ Traded(j, e, q[j], r[j], C[Len(C)], s[j], t[j])
  <2>1. CASE j = k
    <3>1. Prog!Req(k, (a + 1) + 1) > 0
      BY ReqIs, <1>8
    <3>2. Prog!Reach(k, a + 1) = Prog!Reach(k, a) + y /\ Prog!Reach(k, a) \in Nat
      BY <1>8, <1>9, ReachIs
    <3>3. For(k, c) = x /\ For(k, e) = d
      BY <1>2, <1>9, <1>11 DEF For
    <3>4. Fits(j, q[j], r[j], l[j])
      BY <1>12, <2>1, <3>1 DEF Fits
    <3>5. Prog!Reach(k, a + 1) + 0 + d = Prog!Reach(k, a) + b + x
      BY <1>10, <3>2
    <3> QED BY <1>2, <1>9, <1>12, <2>1, <3>3, <3>4, <3>5 DEF Traded
  <2>2. CASE j # k
    <3>1. For(j, c) = 0 /\ For(j, e) = 0
      BY <1>2, <1>11, <2>2 DEF For
    <3> QED BY <1>2, <1>7, <1>12, <2>2, <3>1 DEF Traded, Fits
  <2> QED BY <2>1, <2>2
<1>14. PICK D : D = [C EXCEPT ![Len(C)] = e]
  OBVIOUS
<1>15. Ledger(D, q, r, l, o)
  BY <1>6, <1>7, <1>11, <1>12, <1>13, <1>14, LedgerChange
<1> QED BY <1>4, <1>5, <1>14, <1>15 DEF ProgInv

LEMMA AdvanceDoneKeeps == ASSUME ProgInv, Prog!AdvanceDone PROVE ProgInv'
<1>1. PICK C, s, t, l, o : C = calls /\ s = rung /\ t = tries /\ l = losing /\ o = triesOwed
  OBVIOUS
<1>2. PICK c, k : c = C[Len(C)] /\ k = c.ladder
  OBVIOUS
<1>3. PICK next : next = Prog!Req(k, s[k] + 1)
  OBVIOUS
<1>4. /\ C # <<>> /\ k # "exp"
      /\ \/ calls' = SubSeq(C, 1, Len(C) - 1) /\ triesOwed' = [o EXCEPT ![k] = o[k] - c.count]
         \/ /\ calls' = [C EXCEPT ![Len(C)] = [c EXCEPT !.next = next, !.script = FALSE]]
            /\ triesOwed' = o
      /\ rung' = s /\ tries' = t /\ losing' = l
      /\ experience' = experience /\ level' = level
  BY <1>1, <1>2, <1>3 DEF Prog!AdvanceDone, Prog!Innermost
<1>5. Ledger(C, s, t, l, o)
  BY <1>1 DEF ProgInv
<1>6. /\ Len(C) # 0 /\ C \in Seq(Calls) /\ c \in Calls
      /\ c.count \in Nat /\ c.next \in Nat /\ c.ladder \in Prog!Ladders \cup {"exp"}
      /\ s \in [Prog!Ladders -> Nat] /\ t \in [Prog!Ladders -> Nat]
      /\ o \in [Prog!Ladders -> Int] /\ l \in [Prog!Ladders -> Nat]
      /\ \A j \in Prog!Ladders : l[j] = 0 /\ t[j] < Prog!Req(j, s[j] + 1)
                                 /\ For(j, c) \in Nat
  BY <1>2, <1>4, <1>5, InnermostIs
<1>7. k \in Prog!Ladders /\ next \in Nat
  <2>1. k \in Prog!Ladders
    BY <1>2, <1>4, <1>6
  <2> QED BY <1>3, <1>6, <2>1, ReqIs
<1>8. \A j \in Prog!Ladders : Fits(j, s[j], t[j], l[j])
  BY <1>6 DEF Fits
<1>9. CASE calls' = SubSeq(C, 1, Len(C) - 1) /\ triesOwed' = [o EXCEPT ![k] = o[k] - c.count]
  <2>1. PICK p, D : p = [o EXCEPT ![k] = o[k] - c.count] /\ D = SubSeq(C, 1, Len(C) - 1)
    OBVIOUS
  <2>2. p \in [Prog!Ladders -> Int] /\ \A j \in Prog!Ladders : p[j] = o[j] - For(j, c)
    BY <1>2, <1>6, <1>7, <2>1 DEF For
  <2>3. \A j \in Prog!Ladders : Booked(j, C[Len(C)], o[j], p[j], t[j], t[j])
    <3> TAKE j \in Prog!Ladders
    <3>1. PICK x \in Int, y \in Nat, z \in Nat : x = o[j] /\ y = t[j] /\ z = For(j, c)
      BY <1>6
    <3>2. x - z = x + (y - y) - z
      OBVIOUS
    <3> QED BY <1>2, <2>2, <3>1, <3>2 DEF Booked
  <2>4. Ledger(D, s, t, l, p)
    BY <1>5, <1>6, <1>8, <2>1, <2>2, <2>3, LedgerEnd
  <2> QED BY <1>4, <1>9, <2>1, <2>4 DEF ProgInv
<1>10. CASE /\ calls' = [C EXCEPT ![Len(C)] = [c EXCEPT !.next = next, !.script = FALSE]]
            /\ triesOwed' = o
  <2>1. PICK e : e = [c EXCEPT !.next = next, !.script = FALSE]
    OBVIOUS
  <2>2. PICK D : D = [C EXCEPT ![Len(C)] = e]
    OBVIOUS
  <2>3. /\ e \in Calls /\ ~e.script /\ e.ladder = k /\ e.next = next /\ e.count = c.count
    BY <1>2, <1>6, <1>7, <2>1 DEF Calls
  <2>4. \A j \in Prog!Ladders : Traded(j, e, s[j], t[j], C[Len(C)], s[j], t[j])
    BY <1>2, <2>3 DEF Traded, For
  <2>5. Ledger(D, s, t, l, o)
    BY <1>3, <1>5, <1>6, <1>7, <1>8, <2>2, <2>3, <2>4, LedgerChange
  <2> QED BY <1>4, <1>10, <2>1, <2>2, <2>5 DEF ProgInv
<1> QED BY <1>4, <1>9, <1>10

LEMMA KeepRestKeeps == ASSUME ProgInv, Prog!KeepRest PROVE ProgInv'
<1>1. PICK C, s, t, l, o : C = calls /\ s = rung /\ t = tries /\ l = losing /\ o = triesOwed
  OBVIOUS
<1>2. PICK c, k : c = C[Len(C)] /\ k = c.ladder
  OBVIOUS
<1>3. PICK r, D : r = [t EXCEPT ![k] = t[k] + c.count] /\ D = SubSeq(C, 1, Len(C) - 1)
  OBVIOUS
<1>4. /\ C # <<>> /\ k # "exp" /\ ~c.script /\ t[k] + c.count < c.next
      /\ rung' = s /\ tries' = r /\ calls' = D /\ losing' = l /\ triesOwed' = o
      /\ experience' = experience /\ level' = level
  BY <1>1, <1>2, <1>3 DEF Prog!KeepRest, Prog!Innermost
<1>5. Ledger(C, s, t, l, o)
  BY <1>1 DEF ProgInv
<1>6. /\ Len(C) # 0 /\ C \in Seq(Calls) /\ c \in Calls
      /\ c.count \in Nat /\ c.next \in Nat /\ c.ladder \in Prog!Ladders \cup {"exp"}
      /\ ~c.script => c.ladder \in Prog!Ladders /\ c.next = Prog!Req(c.ladder, s[c.ladder] + 1)
      /\ s \in [Prog!Ladders -> Nat] /\ t \in [Prog!Ladders -> Nat]
      /\ o \in [Prog!Ladders -> Int] /\ l \in [Prog!Ladders -> Nat]
      /\ \A j \in Prog!Ladders : l[j] = 0 /\ t[j] < Prog!Req(j, s[j] + 1)
                                 /\ For(j, c) \in Nat
  <2>1. C # <<>> /\ c = C[Len(C)]
    BY <1>2, <1>4
  <2> QED BY <1>5, <2>1, InnermostIs
<1>7. k \in Prog!Ladders /\ c.next = Prog!Req(k, s[k] + 1)
  BY <1>2, <1>4, <1>6
<1>8. /\ r \in [Prog!Ladders -> Nat] /\ r[k] = t[k] + c.count
      /\ \A j \in Prog!Ladders : j # k => r[j] = t[j]
  <2>1. t[k] \in Nat /\ c.count \in Nat
    BY <1>6, <1>7
  <2>2. PICK n \in Nat : n = t[k] + c.count
    BY <2>1
  <2>3. r = [t EXCEPT ![k] = n] /\ t \in [Prog!Ladders -> Nat]
    BY <1>3, <1>6, <2>2
  <2> QED BY <1>7, <2>2, <2>3
<1>9. ASSUME NEW j \in Prog!Ladders
      PROVE  /\ Fits(j, s[j], r[j], l[j])
             /\ Booked(j, C[Len(C)], o[j], o[j], r[j], t[j])
  <2>1. PICK x \in Int, y \in Nat, z \in Nat : x = o[j] /\ y = t[j] /\ z = For(j, c)
    BY <1>6
  <2>2. CASE j = k
    <3>1. z = c.count /\ r[j] = y + z
      BY <1>2, <1>8, <2>1, <2>2 DEF For
    <3>2. Fits(j, s[j], r[j], l[j])
      BY <1>4, <1>7, <1>8, <2>2 DEF Fits
    <3>3. x = x + ((y + z) - y) - z
      OBVIOUS
    <3> QED BY <1>2, <2>1, <3>1, <3>2, <3>3 DEF Booked
  <2>3. CASE j # k
    <3>1. z = 0 /\ r[j] = y
      BY <1>2, <1>8, <2>1, <2>3 DEF For
    <3>2. Fits(j, s[j], r[j], l[j])
      BY <1>6, <1>8, <2>3 DEF Fits
    <3>3. x = x + (y - y) - 0
      OBVIOUS
    <3> QED BY <1>2, <2>1, <3>1, <3>2, <3>3 DEF Booked
  <2> QED BY <2>2, <2>3
<1>10. Ledger(D, s, r, l, o)
  BY <1>3, <1>5, <1>6, <1>8, <1>9, LedgerEnd
<1> QED BY <1>4, <1>10 DEF ProgInv

(* Experience, and its advance script.                                     *)
LEMMA AddExperienceKeeps ==
  ASSUME ProgInv, NEW exp \in Gains, Prog!AddExperience(exp) PROVE ProgInv'
<1>1. PICK C, s, t, l, o : C = calls /\ s = rung /\ t = tries /\ l = losing /\ o = triesOwed
  OBVIOUS
<1>2. PICK c : c = [ladder |-> "exp", count |-> 0, next |-> 0, script |-> TRUE]
  OBVIOUS
<1>3. /\ \A j \in Prog!Ladders : l[j] = 0
      /\ C # <<>> => C[Len(C)].script
      /\ calls' = Append(C, c) \/ calls' = C
      /\ triesOwed' = o /\ rung' = s /\ tries' = t /\ losing' = l
      /\ experience' = experience + exp /\ level' = Prog!LevelUp(experience + exp)
  BY <1>1, <1>2 DEF Prog!AddExperience, Prog!MayCall, Prog!Innermost
<1>4. Ledger(C, s, t, l, o) /\ LevelFits(experience, level)
  BY <1>1 DEF ProgInv
<1>5. exp \in Nat /\ experience \in Nat
  BY <1>4, ProgressAssumption DEF Prog!TablesFit, LevelFits
<1>6. LevelFits(experience', level')
  <2>1. experience + exp \in Nat /\ experience + exp >= experience
    BY <1>5
  <2> QED BY <1>3, <1>4, <2>1, LevelUpFits
<1>7. C \in Seq(Calls) /\ o \in [Prog!Ladders -> Int]
  BY <1>4 DEF Ledger
<1>8. c \in Calls /\ c.script
  BY <1>2 DEF Calls
<1>9. \A j \in Prog!Ladders : o[j] = o[j] + For(j, c)
  BY <1>2, <1>7 DEF For, Prog!Ladders
<1>10. Len(C) # 0 => C[Len(C)].script
  BY <1>3
<1>11. Ledger(Append(C, c), s, t, l, o)
  BY <1>3, <1>4, <1>7, <1>8, <1>9, <1>10, LedgerCall
<1> QED BY <1>3, <1>4, <1>6, <1>11 DEF ProgInv

LEMMA AddExperienceDoneKeeps == ASSUME ProgInv, Prog!AddExperienceDone PROVE ProgInv'
<1>1. PICK C, s, t, l, o : C = calls /\ s = rung /\ t = tries /\ l = losing /\ o = triesOwed
  OBVIOUS
<1>2. PICK c, D : c = C[Len(C)] /\ D = SubSeq(C, 1, Len(C) - 1)
  OBVIOUS
<1>3. /\ C # <<>> /\ c.ladder = "exp" /\ calls' = D
      /\ triesOwed' = o /\ rung' = s /\ tries' = t /\ losing' = l
      /\ experience' = experience /\ level' = level
  BY <1>1, <1>2 DEF Prog!AddExperienceDone, Prog!Innermost
<1>4. Ledger(C, s, t, l, o)
  BY <1>1 DEF ProgInv
<1>5. /\ Len(C) # 0
      /\ s \in [Prog!Ladders -> Nat] /\ t \in [Prog!Ladders -> Nat]
      /\ o \in [Prog!Ladders -> Int] /\ l \in [Prog!Ladders -> Nat]
      /\ \A j \in Prog!Ladders : l[j] = 0 /\ t[j] < Prog!Req(j, s[j] + 1)
  BY <1>2, <1>3, <1>4, InnermostIs
<1>6. ASSUME NEW j \in Prog!Ladders
      PROVE  Fits(j, s[j], t[j], l[j]) /\ Booked(j, C[Len(C)], o[j], o[j], t[j], t[j])
  <2>1. For(j, c) = 0
    BY <1>3 DEF For, Prog!Ladders
  <2>2. PICK x \in Int, y \in Nat : x = o[j] /\ y = t[j]
    BY <1>5
  <2>3. x = x + (y - y) - 0
    OBVIOUS
  <2> QED BY <1>2, <1>5, <2>1, <2>2, <2>3 DEF Booked, Fits
<1>7. Ledger(D, s, t, l, o)
  BY <1>2, <1>4, <1>5, <1>6, LedgerEnd
<1> QED BY <1>3, <1>7 DEF ProgInv

LEMMA RemoveExperienceKeeps ==
  ASSUME ProgInv, NEW exp \in Gains, Prog!RemoveExperience(exp) PROVE ProgInv'
<1>1. /\ experience' = IF exp > experience THEN 0 ELSE experience - exp
      /\ level' = Prog!LevelDown(experience')
      /\ calls' = calls /\ triesOwed' = triesOwed /\ rung' = rung /\ tries' = tries /\ losing' = losing
  BY DEF Prog!RemoveExperience, Prog!LevelDown
<1>2. LevelFits(experience, level) /\ Ledger(calls, rung, tries, losing, triesOwed)
  BY DEF ProgInv
<1>3. exp \in Nat /\ experience \in Nat
  BY <1>2, ProgressAssumption DEF Prog!TablesFit, LevelFits
<1>4. experience' \in Nat /\ experience' <= experience
  BY <1>1, <1>3
<1>5. PICK e : e = experience'
  OBVIOUS
<1>6. LevelFits(e, Prog!LevelDown(e))
  BY <1>2, <1>4, <1>5, LevelDownFits
<1>7. level' = Prog!LevelDown(e)
  BY <1>5 DEF Prog!RemoveExperience, Prog!LevelDown
<1> QED BY <1>1, <1>2, <1>5, <1>6, <1>7 DEF ProgInv

(* Death, and what it takes off the ladders.                               *)
LEMMA DeathKeeps ==
  ASSUME ProgInv, NEW percent \in Prog!LostPercents, NEW keeps \in BOOLEAN,
         Prog!Death(percent, keeps)
  PROVE  ProgInv'
<1>1. PICK C, s, t, l, o : C = calls /\ s = rung /\ t = tries /\ l = losing /\ o = triesOwed
  OBVIOUS
<1>2. PICK g : g = [k \in Prog!Ladders |-> Prog!Share(Prog!Reach(k, s[k]) + t[k], percent)]
  OBVIOUS
<1>3. PICK p : p = [k \in Prog!Ladders |-> o[k] - g[k]]
  OBVIOUS
<1>4. PICK e : e = experience'
  OBVIOUS
<1>5. /\ C = <<>> /\ \A k \in Prog!Ladders : l[k] = 0
      /\ losing' = [k \in Prog!Ladders |-> Prog!Share(Prog!Reach(k, s[k]) + t[k], percent)]
      /\ triesOwed' = [k \in Prog!Ladders |-> o[k] - Prog!Share(Prog!Reach(k, s[k]) + t[k], percent)]
      /\ e = IF keeps THEN experience ELSE experience - Prog!Share(experience, percent)
      /\ level' = Prog!LevelDown(e)
      /\ calls' = C /\ rung' = s /\ tries' = t
  BY <1>1, <1>4 DEF Prog!Death, Prog!Idle, Prog!Total, Prog!LevelDown
<1>6. losing' = g /\ triesOwed' = p
  BY <1>2, <1>3, <1>5
<1>7. Ledger(C, s, t, l, o) /\ LevelFits(experience, level)
  BY <1>1 DEF ProgInv
<1>8. /\ C \in Seq(Calls) /\ Len(C) = 0
      /\ s \in [Prog!Ladders -> Nat] /\ t \in [Prog!Ladders -> Nat]
      /\ o \in [Prog!Ladders -> Int] /\ l \in [Prog!Ladders -> Nat]
  BY <1>5, <1>7 DEF Ledger
<1>9. /\ e \in Nat /\ e <= experience
  <2>1. experience \in Nat
    BY <1>7 DEF LevelFits
  <2>2. PICK x \in Nat : x = Prog!Share(experience, percent) /\ x <= experience
    BY <2>1, ShareIs
  <2> QED BY <1>5, <2>1, <2>2
<1>10. LevelFits(e, Prog!LevelDown(e))
  BY <1>7, <1>9, LevelDownFits
<1>11. g \in [Prog!Ladders -> Nat]
  <2>1. ASSUME NEW k \in Prog!Ladders
        PROVE  Prog!Share(Prog!Reach(k, s[k]) + t[k], percent) \in Nat
    <3>1. PICK n \in Nat : n = Prog!Reach(k, s[k]) + t[k]
      <4>1. Prog!Reach(k, s[k]) \in Nat /\ t[k] \in Nat
        BY <1>8, ReachIs
      <4> QED BY <4>1
    <3> QED BY <3>1, ShareIs
  <2> QED BY <1>2, <2>1
<1>12. p \in [Prog!Ladders -> Int] /\ \A k \in Prog!Ladders : p[k] = o[k] - g[k]
  BY <1>3, <1>8, <1>11
<1>13. ASSUME NEW k \in Prog!Ladders
       PROVE  Fits(k, s[k], t[k], g[k]) /\ p[k] = Prog!Reach(k, s[k]) + t[k] - g[k]
  <2>1. Fits(k, s[k], t[k], l[k]) /\ o[k] = Prog!Reach(k, s[k]) + t[k] - l[k]
    <3>1. AllBooked(k, s[k], t[k], l[k], o[k])
      BY <1>7, <1>8, IdleBooked
    <3> QED BY <3>1 DEF AllBooked
  <2>2. PICK a \in Nat, b \in Nat, d \in Nat : a = Prog!Reach(k, s[k]) /\ b = t[k] /\ d = g[k]
    BY <1>8, <1>11, ReachIs
  <2>3. o[k] = a + b
    BY <1>5, <2>1, <2>2
  <2> QED BY <1>5, <1>12, <2>1, <2>2, <2>3 DEF Fits
<1>14. Ledger(C, s, t, g, p)
  <2>1. \A k \in Prog!Ladders : AllBooked(k, s[k], t[k], g[k], p[k])
    BY <1>13 DEF AllBooked
  <2> QED BY <1>8, <1>11, <1>12, <2>1, LedgerIdle
<1> QED BY <1>4, <1>5, <1>6, <1>10, <1>14 DEF ProgInv

LEMMA LoseLevelKeeps ==
  ASSUME ProgInv, NEW k \in Prog!Ladders, Prog!LoseLevel(k) PROVE ProgInv'
<1>1. PICK C, s, t, l, o : C = calls /\ s = rung /\ t = tries /\ l = losing /\ o = triesOwed
  OBVIOUS
<1>2. PICK q, r, g : /\ q = [s EXCEPT ![k] = s[k] - 1] /\ r = [t EXCEPT ![k] = Prog!Req(k, s[k])]
                     /\ g = [l EXCEPT ![k] = l[k] - t[k]]
  OBVIOUS
<1>3. /\ l[k] > t[k] /\ s[k] > 0
      /\ losing' = g /\ tries' = r /\ rung' = q /\ calls' = C /\ triesOwed' = o
      /\ experience' = experience /\ level' = level
  BY <1>1, <1>2 DEF Prog!LoseLevel
<1>4. Ledger(C, s, t, l, o)
  BY <1>1 DEF ProgInv
<1>5. /\ C \in Seq(Calls)
      /\ s \in [Prog!Ladders -> Nat] /\ t \in [Prog!Ladders -> Nat]
      /\ o \in [Prog!Ladders -> Int] /\ l \in [Prog!Ladders -> Nat]
  BY <1>4 DEF Ledger
<1>6. Len(C) = 0
  BY <1>3, <1>4, <1>5 DEF Ledger
<1>7. PICK a \in Nat, b \in Nat, d \in Nat, e \in Nat :
        a + 1 = s[k] /\ b = t[k] /\ d = Prog!Req(k, s[k]) /\ b + e = l[k] /\ e > 0
  <2>1. s[k] - 1 \in Nat /\ l[k] - t[k] \in Nat /\ l[k] - t[k] > 0 /\ t[k] + (l[k] - t[k]) = l[k]
        /\ (s[k] - 1) + 1 = s[k]
    BY <1>3, <1>5
  <2>2. Prog!Req(k, s[k]) \in Nat
    BY <1>5, ReqIs
  <2> QED BY <1>5, <2>1, <2>2
<1>8. /\ q \in [Prog!Ladders -> Nat] /\ r \in [Prog!Ladders -> Nat] /\ g \in [Prog!Ladders -> Nat]
      /\ q[k] = a /\ r[k] = d /\ g[k] = e
      /\ \A j \in Prog!Ladders : j # k => q[j] = s[j] /\ r[j] = t[j] /\ g[j] = l[j]
  <2>1. q = [s EXCEPT ![k] = a]
    <3>1. s[k] - 1 = a
      BY <1>5, <1>7
    <3> QED BY <1>2, <3>1, Zenon
  <2>2. r = [t EXCEPT ![k] = d]
    BY <1>2, <1>7
  <2>3. g = [l EXCEPT ![k] = e]
    <3>1. l[k] - t[k] = e
      BY <1>5, <1>7
    <3> QED BY <1>2, <3>1, Zenon
  <2>4. q \in [Prog!Ladders -> Nat] /\ q[k] = a /\ \A j \in Prog!Ladders : j # k => q[j] = s[j]
    BY <1>5, <2>1
  <2>5. r \in [Prog!Ladders -> Nat] /\ r[k] = d /\ \A j \in Prog!Ladders : j # k => r[j] = t[j]
    BY <1>5, <2>2
  <2>6. g \in [Prog!Ladders -> Nat] /\ g[k] = e /\ \A j \in Prog!Ladders : j # k => g[j] = l[j]
    BY <1>5, <2>3
  <2> QED BY <2>4, <2>5, <2>6
<1>9. ASSUME NEW j \in Prog!Ladders
      PROVE  Fits(j, q[j], r[j], g[j]) /\ o[j] = Prog!Reach(j, q[j]) + r[j] - g[j]
  <2>1. Fits(j, s[j], t[j], l[j]) /\ o[j] = Prog!Reach(j, s[j]) + t[j] - l[j]
    <3>1. AllBooked(j, s[j], t[j], l[j], o[j])
      BY <1>4, <1>5, <1>6, IdleBooked
    <3> QED BY <3>1 DEF AllBooked
  <2>2. CASE j = k
    <3>1. Fits(j, q[j], r[j], g[j])
      BY <1>7, <1>8, <2>2 DEF Fits
    <3>2. PICK x \in Nat : x = Prog!Reach(k, a) /\ Prog!Reach(k, a + 1) = x + d
      BY <1>7, ReachIs
    <3>3. o[j] = x + d + b - (b + e)
      BY <1>7, <2>1, <2>2, <3>2
    <3>4. o[j] = x + d - e
      BY <3>3
    <3> QED BY <1>8, <2>2, <3>1, <3>2, <3>4
  <2>3. CASE j # k
    BY <1>8, <2>1, <2>3
  <2> QED BY <2>2, <2>3
<1>10. Ledger(C, q, r, g, o)
  <2>1. \A j \in Prog!Ladders : AllBooked(j, q[j], r[j], g[j], o[j])
    BY <1>9 DEF AllBooked
  <2> QED BY <1>5, <1>6, <1>8, <2>1, LedgerIdle
<1> QED BY <1>3, <1>10 DEF ProgInv

LEMMA LoseRestKeeps ==
  ASSUME ProgInv, NEW k \in Prog!Ladders, Prog!LoseRest(k) PROVE ProgInv'
<1>1. PICK C, s, t, l, o : C = calls /\ s = rung /\ t = tries /\ l = losing /\ o = triesOwed
  OBVIOUS
<1>2. PICK r, g : r = [t EXCEPT ![k] = t[k] - l[k]] /\ g = [l EXCEPT ![k] = 0]
  OBVIOUS
<1>3. /\ l[k] > 0 /\ l[k] <= t[k]
      /\ losing' = g /\ tries' = r /\ rung' = s /\ calls' = C /\ triesOwed' = o
      /\ experience' = experience /\ level' = level
  BY <1>1, <1>2 DEF Prog!LoseRest
<1>4. Ledger(C, s, t, l, o)
  BY <1>1 DEF ProgInv
<1>5. /\ C \in Seq(Calls)
      /\ s \in [Prog!Ladders -> Nat] /\ t \in [Prog!Ladders -> Nat]
      /\ o \in [Prog!Ladders -> Int] /\ l \in [Prog!Ladders -> Nat]
  BY <1>4 DEF Ledger
<1>6. Len(C) = 0
  BY <1>3, <1>4, <1>5 DEF Ledger
<1>7. PICK b \in Nat, e \in Nat : e = l[k] /\ b + e = t[k] /\ e > 0
  <2>1. t[k] - l[k] \in Nat /\ (t[k] - l[k]) + l[k] = t[k]
    BY <1>3, <1>5
  <2> QED BY <1>3, <1>5, <2>1
<1>8. /\ r \in [Prog!Ladders -> Nat] /\ g \in [Prog!Ladders -> Nat]
      /\ r[k] = b /\ g[k] = 0
      /\ \A j \in Prog!Ladders : j # k => r[j] = t[j] /\ g[j] = l[j]
  BY <1>2, <1>5, <1>7
<1>9. ASSUME NEW j \in Prog!Ladders
      PROVE  Fits(j, s[j], r[j], g[j]) /\ o[j] = Prog!Reach(j, s[j]) + r[j] - g[j]
  <2>1. Fits(j, s[j], t[j], l[j]) /\ o[j] = Prog!Reach(j, s[j]) + t[j] - l[j]
    <3>1. AllBooked(j, s[j], t[j], l[j], o[j])
      BY <1>4, <1>5, <1>6, IdleBooked
    <3> QED BY <3>1 DEF AllBooked
  <2>2. CASE j = k
    <3>1. PICK x \in Nat, y \in Nat : x = Prog!Reach(k, s[k]) /\ y = Prog!Req(k, s[k] + 1)
      <4>1. Prog!Reach(k, s[k]) \in Nat
        BY <1>5, ReachIs
      <4>2. s[k] + 1 \in Nat
        BY <1>5
      <4>3. Prog!Req(k, s[k] + 1) \in Nat
        BY <4>2, ReqIs
      <4> QED BY <4>1, <4>3
    <3>2. b + e <= y
      BY <1>7, <2>1, <2>2, <3>1 DEF Fits
    <3>3. b < y
      BY <1>7, <3>2
    <3>4. o[j] = x + (b + e) - e
      BY <1>7, <2>1, <2>2, <3>1
    <3>5. o[j] = x + b - 0
      BY <3>4
    <3> QED BY <1>8, <2>2, <3>1, <3>3, <3>5 DEF Fits
  <2>3. CASE j # k
    BY <1>8, <2>1, <2>3
  <2> QED BY <2>2, <2>3
<1>10. Ledger(C, s, r, g, o)
  <2>1. \A j \in Prog!Ladders : AllBooked(j, s[j], r[j], g[j], o[j])
    BY <1>9 DEF AllBooked
  <2> QED BY <1>5, <1>6, <1>8, <2>1, LedgerIdle
<1> QED BY <1>3, <1>10 DEF ProgInv

LEMMA LoginKeeps == ASSUME ProgInv, Prog!Login PROVE ProgInv'
<1>1. PICK C, s, t, l, o : C = calls /\ s = rung /\ t = tries /\ l = losing /\ o = triesOwed
  OBVIOUS
<1>2. /\ \A k \in Prog!Ladders : l[k] = 0
      /\ tries' = [k \in Prog!Ladders |-> IF t[k] > Prog!Req(k, s[k] + 1) THEN 0 ELSE t[k]]
      /\ losing' = l /\ rung' = s /\ calls' = C /\ triesOwed' = o
      /\ experience' = experience /\ level' = level
  BY <1>1 DEF Prog!Login, Prog!Idle
<1>3. Ledger(C, s, t, l, o)
  BY <1>1 DEF ProgInv
<1>4. s \in [Prog!Ladders -> Nat] /\ t \in [Prog!Ladders -> Nat]
  BY <1>3 DEF Ledger
<1>5. \A k \in Prog!Ladders : ~(t[k] > Prog!Req(k, s[k] + 1))
  <2> TAKE k \in Prog!Ladders
  <2>1. Fits(k, s[k], t[k], l[k])
    BY <1>3 DEF Ledger
  <2>2. PICK x \in Nat, y \in Nat : x = t[k] /\ y = Prog!Req(k, s[k] + 1)
    BY <1>4, ReqIs
  <2> QED BY <1>2, <2>1, <2>2 DEF Fits
<1>6. tries' = t
  BY <1>2, <1>4, <1>5
<1> QED BY <1>2, <1>3, <1>6 DEF ProgInv

LEMMA ProgAccounted == ASSUME ProgInv PROVE Prog!ProgressAccounted
<1>1. PICK C, s, t, l, o : C = calls /\ s = rung /\ t = tries /\ l = losing /\ o = triesOwed
  OBVIOUS
<1>2. Ledger(C, s, t, l, o) /\ LevelFits(experience, level)
  BY <1>1 DEF ProgInv
<1>3. /\ C \in Seq(Calls)
      /\ s \in [Prog!Ladders -> Nat] /\ t \in [Prog!Ladders -> Nat]
      /\ o \in [Prog!Ladders -> Int] /\ l \in [Prog!Ladders -> Nat]
  BY <1>2 DEF Ledger
<1>4. Prog!LevelMatches
  BY <1>2 DEF LevelFits, Prog!LevelMatches
<1>5. ASSUME C = <<>>, \A k \in Prog!Ladders : l[k] = 0, NEW k \in Prog!Ladders
      PROVE  Prog!Reach(k, s[k]) + t[k] = o[k] /\ t[k] < Prog!Req(k, s[k] + 1)
  <2>1. Len(C) = 0
    BY <1>5
  <2>2. Fits(k, s[k], t[k], l[k]) /\ o[k] = Prog!Reach(k, s[k]) + t[k] - l[k]
    <3>1. AllBooked(k, s[k], t[k], l[k], o[k])
      BY <1>2, <1>3, <2>1, IdleBooked
    <3> QED BY <3>1 DEF AllBooked
  <2>3. PICK x \in Nat, y \in Nat : x = Prog!Reach(k, s[k]) /\ y = t[k]
    BY <1>3, ReachIs
  <2>4. o[k] = x + y - 0
    BY <1>5, <2>2, <2>3
  <2> QED BY <1>5, <2>2, <2>3, <2>4 DEF Fits
<1>6. Prog!TriesAccounted
  BY <1>1, <1>5 DEF Prog!TriesAccounted, Prog!Idle, Prog!Total
<1> QED BY <1>4, <1>6 DEF Prog!ProgressAccounted

(* Tries, mana and experience are accounted for, with any tables, for any  *)
(* amounts gained, however deep advance scripts nest and whatever they call*)
(* (addSkillAdvance, addManaSpent, addExperience), and through deaths and  *)
(* logins; and the level is the one the experience gives.                  *)
THEOREM ProgressAlwaysAccounted == AnySpec => []ProgressAccounted
<1> DEFINE Kept == part = "progress" => ProgInv
<1>1. AnyInit => Kept
  BY ProgInit DEF AnyInit
<1>2. Kept /\ [AnyNext]_<<vars, part, conditionsVars, damageVars, itemsVars, progressVars, walkingVars>> => Kept'
  <2> SUFFICES ASSUME Kept, part' = "progress",
                      [AnyNext]_<<vars, part, conditionsVars, damageVars, itemsVars, progressVars, walkingVars>>
               PROVE  ProgInv'
    OBVIOUS
  <2>1. ASSUME part = "progress", Prog!Next PROVE ProgInv'
    <3>1. ProgInv
      BY <2>1
    <3> QED
      BY <2>1, <3>1, AddTriesKeeps, AddExperienceKeeps, RemoveExperienceKeeps, AdvanceKeeps,
         AdvanceDoneKeeps, KeepRestKeeps, AddExperienceDoneKeeps, LoginKeeps, DeathKeeps,
         LoseLevelKeeps, LoseRestKeeps, Zenon DEF Prog!Next
  <2>2. CASE part' = part /\ UNCHANGED progressVars
    BY <2>2 DEF progressVars, ProgInv
  <2> QED BY <2>1, <2>2 DEF AnyNext
<1>3. Kept => ProgressAccounted
  BY ProgAccounted DEF ProgressAccounted
<1> HIDE DEF Kept
<1> QED
  BY <1>1, <1>2, <1>3, PTL DEF AnySpec
=============================================================================
