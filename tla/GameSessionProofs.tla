-------------------------- MODULE GameSessionProofs --------------------------
(***************************************************************************)
(* Proofs about GameSession, for any number of connections and of Player   *)
(* objects, and about Creatures, for any map and any creatures on it.      *)
(*                                                                         *)
(* Reference counting is exact because a protocol is attached at most      *)
(* once: a connection sends one login, which becomes at most one connect   *)
(* event, and until that has run nobody sets ProtocolGame::player.  The    *)
(* rest is the order of the dispatcher's list: close() posts release() in  *)
(* the step that ends OPEN, behind the login, and connect events, which go *)
(* in front, do not touch the autosend list.                               *)
(*                                                                         *)
(* The creatures' invariant is Good: who is in the game has its targets on *)
(* its floor, its master in the game, and a visit of checkCreatures if it  *)
(* must act; masters and summons know each other; an object not made yet   *)
(* is blank; the spawn has an event if it must fill a block.  A handler is *)
(* a function on the world, so each gets a lemma on what it may do to it:  *)
(* Drops, targets are let go of; Turns, and others on the floor taken;     *)
(* Passes and Leaves, and creatures removed.  A loop over spectators or    *)
(* summons is proved by induction on the set it goes over (OneByOne).      *)
(***************************************************************************)
EXTENDS GameSession, Creatures, TLAPS, FiniteSetTheorems, WellFoundedInduction

Tasks == [kind : TaskKinds \ {"connect"}, c : Conns, o : Objs \cup {None}]
           \cup [kind : {"connect"}, c : Conns, o : Objs]

(* The tasks that may set ProtocolGame::player.                            *)
Enters(t) == t.kind \in {"login", "connect"}

(* A task of that kind for connection c is in the list s.                  *)
Has(s, kind, c) == \E i \in 1 .. Len(s) : s[i].kind = kind /\ s[i].c = c

EntersOnce(s) ==
  \A i, j \in 1 .. Len(s) : Enters(s[i]) /\ Enters(s[j]) /\ s[i].c = s[j].c => i = j

(* The login of a connection is in front of its release.                   *)
LoginsFirst(s) ==
  \A i, j \in 1 .. Len(s) :
    s[i].kind = "login" /\ s[j].kind = "release" /\ s[i].c = s[j].c => i < j

WellFormed ==
  /\ TypeOK
  /\ tasks \in Seq(Tasks)
  /\ netPc = "idle" <=> netIn = None

(* The list, and what it says of the connections.                          *)
ListInOrder ==
  /\ EntersOnce(tasks)
  /\ LoginsFirst(tasks)
  /\ \A c \in Conns :
       /\ Has(tasks, "release", c) \/ c \in released => connState[c] = "CLOSED"
       /\ Has(tasks, "login", c) => c \notin released

(* Connection c has a login or a connect on the way.                       *)
Awaited(c) ==
  \/ Has(tasks, "login", c)
  \/ Has(tasks, "connect", c)
  \/ \E e \in connectEvents : e.c = c

(* It has one of them only, and no player before that has run.             *)
AttachedOnce ==
  /\ \A e \in connectEvents : ~Has(tasks, "login", e.c) /\ ~Has(tasks, "connect", e.c)
  /\ \A e, f \in connectEvents : e.c = f.c => e = f
  /\ \A c \in Conns : Awaited(c) => c \in receivedFirst /\ player[c] = None
  /\ \A c \in Conns : c \notin receivedFirst => player[c] = None

(* Players and the protocols they are attached to.                         *)
PlayersCounted ==
  /\ RefsAccounted
  /\ \A o \in Objs : client[o] # None => player[client[o]] = o
  /\ \A o, x \in Online : o = x
  /\ \A o \in Objs : life[o] = "unused" => refs[o] = 0

IInv ==
  /\ WellFormed
  /\ ListInOrder
  /\ AttachedOnce
  /\ PlayersCounted
  /\ AutosendServed

-----------------------------------------------------------------------------
(* The dispatcher's list.                                                  *)

(* addTask: behind the others.                                             *)
LEMMA ListAppend ==
  ASSUME NEW s \in Seq(Tasks), NEW t \in Tasks
  PROVE  LET a == Append(s, t) IN
         /\ a \in Seq(Tasks)
         /\ \A kind, c : Has(a, kind, c) <=> Has(s, kind, c) \/ (t.kind = kind /\ t.c = c)
         /\ EntersOnce(s)
              /\ (Enters(t) => ~Has(s, "login", t.c) /\ ~Has(s, "connect", t.c))
              => EntersOnce(a)
         /\ LoginsFirst(s) /\ (t.kind = "login" => ~Has(s, "release", t.c))
              => LoginsFirst(a)
<1> DEFINE a == Append(s, t)
           n == Len(s)
<1>1. /\ a \in Seq(Tasks) /\ n \in Nat /\ Len(a) = n + 1
      /\ \A i \in 1 .. n : a[i] = s[i]
      /\ a[n + 1] = t
  OBVIOUS
<1> HIDE DEF a
<1>2. \A i \in 1 .. Len(a) : i \in 1 .. n \/ i = n + 1
  BY <1>1
<1>3. ASSUME NEW kind, NEW c
      PROVE  Has(a, kind, c) <=> Has(s, kind, c) \/ (t.kind = kind /\ t.c = c)
  <2>1. Has(a, kind, c) => Has(s, kind, c) \/ (t.kind = kind /\ t.c = c)
    BY <1>1, <1>2 DEF Has
  <2>2. Has(s, kind, c) => Has(a, kind, c)
    <3> SUFFICES ASSUME NEW i \in 1 .. n, s[i].kind = kind, s[i].c = c
                 PROVE  Has(a, kind, c)
      BY DEF Has
    <3>1. i \in 1 .. Len(a) /\ a[i] = s[i]
      BY <1>1
    <3> QED BY <3>1 DEF Has
  <2>3. t.kind = kind /\ t.c = c => Has(a, kind, c)
    <3>1. n + 1 \in 1 .. Len(a)
      BY <1>1
    <3> QED BY <1>1, <3>1 DEF Has
  <2> QED BY <2>1, <2>2, <2>3
<1>4. ASSUME EntersOnce(s), Enters(t) => ~Has(s, "login", t.c) /\ ~Has(s, "connect", t.c)
      PROVE  EntersOnce(a)
  <2>1. ASSUME NEW i \in 1 .. n, Enters(s[i]), Enters(t), s[i].c = t.c PROVE FALSE
    BY <1>4, <2>1 DEF Enters, Has
  <2> QED BY <1>1, <1>2, <1>4, <2>1 DEF EntersOnce
<1>5. ASSUME LoginsFirst(s), t.kind = "login" => ~Has(s, "release", t.c)
      PROVE  LoginsFirst(a)
  <2> SUFFICES ASSUME NEW i \in 1 .. Len(a), NEW j \in 1 .. Len(a),
                      a[i].kind = "login", a[j].kind = "release", a[i].c = a[j].c
               PROVE  i < j
    BY DEF LoginsFirst
  <2>1. CASE i \in 1 .. n /\ j \in 1 .. n
    BY <1>1, <1>5, <2>1 DEF LoginsFirst
  <2>2. CASE i \in 1 .. n /\ j = n + 1
    BY <1>1, <2>2
  <2>3. CASE i = n + 1 /\ j \in 1 .. n
    BY <1>1, <1>5, <2>3 DEF Has
  <2>4. CASE i = n + 1 /\ j = n + 1
    BY <1>1, <2>4
  <2> QED BY <1>2, <2>1, <2>2, <2>3, <2>4
<1> QED
  BY <1>1, <1>3, <1>4, <1>5 DEF a

(* The dispatcher takes the first task.                                    *)
LEMMA ListTail ==
  ASSUME NEW s \in Seq(Tasks), s # <<>>
  PROVE  LET h == Head(s)
             r == Tail(s) IN
         /\ r \in Seq(Tasks) /\ h \in Tasks
         /\ Has(s, h.kind, h.c)
         /\ \A kind, c : Has(r, kind, c) => Has(s, kind, c)
         /\ EntersOnce(s) =>
              /\ EntersOnce(r)
              /\ Enters(h) => ~Has(r, "login", h.c) /\ ~Has(r, "connect", h.c)
         /\ LoginsFirst(s) =>
              /\ LoginsFirst(r)
              /\ h.kind = "release" => ~Has(r, "login", h.c)
<1> DEFINE h == Head(s)
           r == Tail(s)
           n == Len(r)
<1>1. r \in Seq(Tasks) /\ n \in Nat /\ Len(s) = n + 1 /\ h = s[1] /\ s[1] \in Tasks
  OBVIOUS
<1>2. \A i \in 1 .. n : r[i] = s[i + 1]
  OBVIOUS
<1> HIDE DEF r, h, n
<1>3. \A i \in 1 .. n : i + 1 \in 1 .. Len(s) /\ i + 1 # 1
  BY <1>1
<1>4. 1 \in 1 .. Len(s)
  BY <1>1
<1>5. Has(s, h.kind, h.c)
  BY <1>1, <1>4 DEF Has
<1>6. \A kind, c : Has(r, kind, c) => Has(s, kind, c)
  BY <1>2, <1>3 DEF Has, n
<1>7. ASSUME EntersOnce(s)
      PROVE  /\ EntersOnce(r)
             /\ Enters(h) => ~Has(r, "login", h.c) /\ ~Has(r, "connect", h.c)
  <2>1. EntersOnce(r)
    <3> SUFFICES ASSUME NEW i \in 1 .. n, NEW j \in 1 .. n,
                        Enters(r[i]), Enters(r[j]), r[i].c = r[j].c
                 PROVE  i = j
      BY DEF EntersOnce, n
    <3>1. i + 1 = j + 1
      BY <1>2, <1>3, <1>7 DEF EntersOnce
    <3> QED BY <1>1, <3>1
  <2>2. ASSUME NEW i \in 1 .. n, Enters(r[i]), Enters(h), r[i].c = h.c PROVE FALSE
    <3>1. i + 1 = 1
      BY <1>1, <1>2, <1>3, <1>4, <1>7, <2>2 DEF EntersOnce
    <3> QED BY <1>3, <3>1
  <2>3. Enters(h) => ~Has(r, "login", h.c) /\ ~Has(r, "connect", h.c)
    BY <2>2 DEF Has, Enters, n
  <2> QED BY <2>1, <2>3
<1>8. ASSUME LoginsFirst(s)
      PROVE  LoginsFirst(r) /\ (h.kind = "release" => ~Has(r, "login", h.c))
  <2>1. LoginsFirst(r)
    <3> SUFFICES ASSUME NEW i \in 1 .. n, NEW j \in 1 .. n,
                        r[i].kind = "login", r[j].kind = "release", r[i].c = r[j].c
                 PROVE  i < j
      BY DEF LoginsFirst, n
    <3>1. i + 1 < j + 1
      BY <1>2, <1>3, <1>8 DEF LoginsFirst
    <3> QED BY <1>1, <3>1
  <2>2. ASSUME NEW i \in 1 .. n, r[i].kind = "login", h.kind = "release", r[i].c = h.c
        PROVE  FALSE
    <3>1. i + 1 < 1
      BY <1>1, <1>2, <1>3, <1>4, <1>8, <2>2 DEF LoginsFirst
    <3> QED BY <1>1, <3>1
  <2>3. h.kind = "release" => ~Has(r, "login", h.c)
    BY <2>2 DEF Has, n
  <2> QED BY <2>1, <2>3
<1> QED
  BY <1>1, <1>5, <1>6, <1>7, <1>8 DEF r, h

(* The scheduler puts an event in front.                                   *)
LEMMA ListPrepend ==
  ASSUME NEW s \in Seq(Tasks), NEW t \in Tasks, t.kind = "connect",
         EntersOnce(s), LoginsFirst(s),
         ~Has(s, "login", t.c), ~Has(s, "connect", t.c)
  PROVE  LET a == <<t>> \o s IN
         /\ a \in Seq(Tasks)
         /\ \A kind, c : Has(a, kind, c) <=> Has(s, kind, c) \/ (t.kind = kind /\ t.c = c)
         /\ EntersOnce(a) /\ LoginsFirst(a)
<1> DEFINE a == <<t>> \o s
           n == Len(s)
<1>1. /\ a \in Seq(Tasks) /\ n \in Nat /\ Len(a) = n + 1 /\ a[1] = t
      /\ \A i \in 1 .. n : a[i + 1] = s[i]
  OBVIOUS
<1> HIDE DEF a
<1>2. \A i \in 1 .. Len(a) : i = 1 \/ (i - 1 \in 1 .. n /\ a[i] = s[i - 1])
  <2> TAKE i \in 1 .. Len(a)
  <2>1. i # 1 => i - 1 \in 1 .. n /\ (i - 1) + 1 = i
    BY <1>1
  <2> QED BY <1>1, <2>1
<1>3. \A i \in 1 .. n : i + 1 \in 1 .. Len(a)
  BY <1>1
<1>4. 1 \in 1 .. Len(a)
  BY <1>1
<1>5. ASSUME NEW kind, NEW c
      PROVE  Has(a, kind, c) <=> Has(s, kind, c) \/ (t.kind = kind /\ t.c = c)
  <2>1. Has(a, kind, c) => Has(s, kind, c) \/ (t.kind = kind /\ t.c = c)
    BY <1>1, <1>2 DEF Has
  <2>2. Has(s, kind, c) => Has(a, kind, c)
    BY <1>1, <1>3 DEF Has
  <2>3. t.kind = kind /\ t.c = c => Has(a, kind, c)
    BY <1>1, <1>4 DEF Has
  <2> QED BY <2>1, <2>2, <2>3
<1>6. EntersOnce(a)
  <2>1. ASSUME NEW i \in 1 .. n, Enters(s[i]), s[i].c = t.c PROVE FALSE
    BY <2>1 DEF Enters, Has
  <2> SUFFICES ASSUME NEW i \in 1 .. Len(a), NEW j \in 1 .. Len(a),
                      Enters(a[i]), Enters(a[j]), a[i].c = a[j].c
               PROVE  i = j
    BY DEF EntersOnce
  <2>2. CASE i = 1 \/ j = 1
    BY <1>1, <1>2, <2>1, <2>2
  <2>3. CASE i # 1 /\ j # 1
    <3>1. i - 1 = j - 1
      BY <1>2, <2>3 DEF EntersOnce
    <3> QED BY <1>1, <3>1
  <2> QED BY <2>2, <2>3
<1>7. LoginsFirst(a)
  <2> SUFFICES ASSUME NEW i \in 1 .. Len(a), NEW j \in 1 .. Len(a),
                      a[i].kind = "login", a[j].kind = "release", a[i].c = a[j].c
               PROVE  i < j
    BY DEF LoginsFirst
  <2>1. i # 1 /\ j # 1
    BY <1>1
  <2>2. i - 1 < j - 1
    BY <1>2, <2>1 DEF LoginsFirst
  <2> QED BY <1>1, <2>2
<1> QED
  BY <1>1, <1>5, <1>6, <1>7 DEF a

-----------------------------------------------------------------------------
(* References.                                                             *)

LEMMA HoldersFinite ==
  ASSUME NEW o PROVE IsFiniteSet(Holders(o)) /\ Cardinality(Holders(o)) \in Nat
<1>1. Holders(o) \subseteq Conns
  BY DEF Holders
<1>2. IsFiniteSet(Holders(o))
  BY <1>1, FS_Subset, SessionAssumption
<1> QED
  BY <1>2, FS_CardinalityType

(* A protocol that had no player is attached to o.                         *)
LEMMA HoldersAttach ==
  ASSUME player \in [Conns -> Objs \cup {None}], NEW c \in Conns, NEW o \in Objs,
         player[c] = None, player' = [player EXCEPT ![c] = o]
  PROVE  /\ Cardinality(Holders(o)') = Cardinality(Holders(o)) + 1
         /\ \A x \in Objs \ {o} : Holders(x)' = Holders(x)
<1>1. None \notin Objs
  BY SessionAssumption
<1>2. Holders(o)' = Holders(o) \cup {c} /\ c \notin Holders(o)
  BY <1>1 DEF Holders
<1>3. Cardinality(Holders(o) \cup {c}) = Cardinality(Holders(o)) + 1
  BY <1>2, HoldersFinite, FS_AddElement
<1>4. \A x \in Objs \ {o} : Holders(x)' = Holders(x)
  BY <1>1 DEF Holders
<1> QED
  BY <1>2, <1>3, <1>4

(* The protocol that is attached to o lets go of it.                       *)
LEMMA HoldersDetach ==
  ASSUME player \in [Conns -> Objs \cup {None}], NEW c \in Conns, NEW o \in Objs,
         player[c] = o, player' = [player EXCEPT ![c] = None]
  PROVE  /\ Cardinality(Holders(o)') = Cardinality(Holders(o)) - 1
         /\ Cardinality(Holders(o)) >= 1
         /\ \A x \in Objs \ {o} : Holders(x)' = Holders(x)
<1>1. None \notin Objs
  BY SessionAssumption
<1>2. Holders(o)' = Holders(o) \ {c} /\ c \in Holders(o)
  BY <1>1 DEF Holders
<1>3. Cardinality(Holders(o) \ {c}) = Cardinality(Holders(o)) - 1
  BY <1>2, HoldersFinite, FS_RemoveElement
<1>4. \A x \in Objs \ {o} : Holders(x)' = Holders(x)
  BY <1>1 DEF Holders
<1>5. Cardinality(Holders(o)) >= 1
  <2>1. Cardinality(Holders(o) \ {c}) \in Nat
    BY <1>2, HoldersFinite, FS_RemoveElement, FS_CardinalityType
  <2> QED BY <1>3, <2>1, HoldersFinite
<1> QED
  BY <1>2, <1>3, <1>4, <1>5

(* A Player with a protocol attached to it is not freed.                   *)
LEMMA HeldNotFreed ==
  ASSUME PlayersCounted, TypeOK, NEW c \in Conns, player[c] # None
  PROVE  player[c] \in Objs /\ life[player[c]] # "freed" /\ refs[player[c]] >= 1
<1> DEFINE o == player[c]
<1>1. o \in Objs /\ c \in Holders(o)
  BY DEF TypeOK, Holders
<1> HIDE DEF o
<1>2. Cardinality(Holders(o)) # 0 /\ Cardinality(Holders(o)) \in Nat
  BY <1>1, HoldersFinite, FS_EmptySet
<1>3. refs[o] = Cardinality(Holders(o))
                  + (IF life[o] = "online" THEN 1 ELSE 0) + toRelease[o]
                  + (IF o \in checked THEN 1 ELSE 0)
      /\ (life[o] = "freed" => refs[o] = 0) /\ toRelease[o] \in Nat
  BY <1>1 DEF PlayersCounted, RefsAccounted, TypeOK
<1> QED
  BY <1>1, <1>2, <1>3 DEF o

(* Connection and list, when the action that is under way has left rest of *)
(* the list: nothing else is sent ...                                      *)
LEMMA ListShorter ==
  ASSUME WellFormed, ListInOrder, NEW rest \in Seq(Tasks),
         EntersOnce(rest), LoginsFirst(rest),
         \A kind, c : Has(rest, kind, c) => Has(tasks, kind, c),
         tasks' = rest, UNCHANGED <<connState, released>>
  PROVE  ListInOrder'
BY DEF ListInOrder

(* ... or the connection is closed.                                        *)
LEMMA ListClosing ==
  ASSUME WellFormed, ListInOrder, NEW d \in Conns, NEW rest \in Seq(Tasks),
         EntersOnce(rest), LoginsFirst(rest),
         \A kind, c : Has(rest, kind, c) => Has(tasks, kind, c),
         Shut(d, rest), UNCHANGED released
  PROVE  /\ ListInOrder'
         /\ tasks' \in Seq(Tasks)
         /\ managed' \subseteq Conns
         /\ connState' \in [Conns -> {"none", "OPEN", "CLOSED"}]
         /\ connState'[d] = "CLOSED"
         /\ \A c : Has(tasks', "login", c) => Has(rest, "login", c)
         /\ \A c : Has(tasks', "connect", c) => Has(rest, "connect", c)
<1> DEFINE t == Task("release", d, None)
<1>1. t \in Tasks /\ t.kind = "release" /\ t.c = d
  BY DEF Task, Tasks, TaskKinds
<1>2. connState \in [Conns -> {"none", "OPEN", "CLOSED"}] /\ managed \subseteq Conns
  BY DEF WellFormed, TypeOK
<1>3. /\ connState' = [connState EXCEPT ![d] = "CLOSED"]
      /\ managed' = managed \ {d}
      /\ tasks' = IF connState[d] = "OPEN" THEN Append(rest, t) ELSE rest
  BY DEF Shut
<1> HIDE DEF t
<1>4. /\ tasks' \in Seq(Tasks) /\ EntersOnce(tasks') /\ LoginsFirst(tasks')
      /\ \A kind, c : Has(tasks', kind, c)
                       => Has(rest, kind, c) \/ (kind = "release" /\ c = d)
  <2>1. CASE connState[d] = "OPEN"
    BY <1>1, <1>3, <2>1, ListAppend DEF Enters
  <2>2. CASE connState[d] # "OPEN"
    BY <1>3, <2>2
  <2> QED BY <2>1, <2>2
<1>5. /\ connState' \in [Conns -> {"none", "OPEN", "CLOSED"}]
      /\ connState'[d] = "CLOSED"
      /\ \A c \in Conns \ {d} : connState'[c] = connState[c]
  BY <1>2, <1>3
<1>6. ListInOrder'
  <2> SUFFICES ASSUME NEW c \in Conns
               PROVE  /\ Has(tasks', "release", c) \/ c \in released'
                            => connState'[c] = "CLOSED"
                      /\ Has(tasks', "login", c) => c \notin released'
    BY <1>4 DEF ListInOrder
  <2> QED BY <1>4, <1>5 DEF ListInOrder
<1> QED
  BY <1>2, <1>3, <1>4, <1>5, <1>6

(* Nothing new is on the way, and what has got a player has nothing on the *)
(* way any more.                                                           *)
LEMMA AwaitedFewer ==
  ASSUME AttachedOnce, UNCHANGED connectEvents, receivedFirst \subseteq receivedFirst',
         \A c : Has(tasks', "login", c) => Has(tasks, "login", c),
         \A c : Has(tasks', "connect", c) => Has(tasks, "connect", c),
         \A c \in Conns :
           \/ player'[c] = player[c] \/ player'[c] = None
           \/ /\ c \in receivedFirst
              /\ ~Has(tasks', "login", c) /\ ~Has(tasks', "connect", c)
              /\ \A e \in connectEvents : e.c # c
  PROVE  AttachedOnce'
<1>1. \A c \in Conns : Awaited(c)' =>
        /\ Awaited(c)
        /\ Has(tasks', "login", c) \/ Has(tasks', "connect", c) \/ \E e \in connectEvents : e.c = c
  BY DEF Awaited
<1> QED
  BY <1>1 DEF AttachedOnce

LEMMA PlayersStay ==
  ASSUME PlayersCounted, UNCHANGED <<player, client, life, refs, checked, toRelease>>
  PROVE  PlayersCounted'
BY DEF PlayersCounted, RefsAccounted, Holders, Online

(* Game::removeCreature: the reference of the world becomes that of the    *)
(* release list.                                                           *)
LEMMA RemoveOK ==
  ASSUME TypeOK, PlayersCounted, NEW o \in Objs, Remove(o),
         UNCHANGED <<player, client, refs, checked>>
  PROVE  /\ PlayersCounted'
         /\ life' \in [Objs -> {"unused", "loaded", "online", "removed", "freed"}]
         /\ toRelease' \in [Objs -> Nat]
<1>1. /\ life \in [Objs -> {"unused", "loaded", "online", "removed", "freed"}]
      /\ toRelease \in [Objs -> Nat] /\ refs \in [Objs -> Nat]
  BY DEF TypeOK
<1>2. CASE life[o] = "online"
  <2>1. /\ life' = [life EXCEPT ![o] = "removed"]
        /\ toRelease' = [toRelease EXCEPT ![o] = toRelease[o] + 1]
    BY <1>2 DEF Remove
  <2>2. \A x \in Objs : Holders(x)' = Holders(x)
    BY DEF Holders
  <2>3. RefsAccounted'
    <3> SUFFICES ASSUME NEW x \in Objs
                 PROVE  /\ refs'[x] = Cardinality(Holders(x)')
                              + (IF life'[x] = "online" THEN 1 ELSE 0) + toRelease'[x]
                              + (IF x \in checked' THEN 1 ELSE 0)
                        /\ life'[x] = "freed" => refs'[x] = 0
      BY DEF RefsAccounted
    <3>1. /\ refs[x] = Cardinality(Holders(x))
                        + (IF life[x] = "online" THEN 1 ELSE 0) + toRelease[x]
                        + (IF x \in checked THEN 1 ELSE 0)
          /\ life[x] = "freed" => refs[x] = 0
      BY DEF PlayersCounted, RefsAccounted
    <3>2. CASE x = o
      BY <1>1, <1>2, <2>1, <2>2, <3>1, <3>2, HoldersFinite
    <3>3. CASE x # o
      BY <1>1, <2>1, <2>2, <3>1, <3>3
    <3> QED BY <3>2, <3>3
  <2> QED BY <1>1, <2>1, <2>3 DEF PlayersCounted, Online
<1>3. CASE life[o] # "online"
  <2>1. UNCHANGED <<life, toRelease>>
    BY <1>1, <1>3 DEF Remove
  <2> QED BY <1>1, <2>1, PlayersStay
<1> QED BY <1>2, <1>3

(* ProtocolGame::login with a new Player: what it is counted for.          *)
LEMMA NewPlayerOK ==
  ASSUME TypeOK, PlayersCounted, NEW c \in Conns, NEW o \in Objs,
         life[o] = "unused", Online = {}, player[c] = None,
         player' = [player EXCEPT ![c] = o], client' = [client EXCEPT ![o] = c],
         refs' \in [Objs -> Nat], toRelease' \in [Objs -> Nat], checked' \subseteq Objs,
         life' \in [Objs -> {"unused", "loaded", "online", "removed", "freed"}],
         \A x \in Objs \ {o} : refs'[x] = refs[x],
         \A x \in Objs \ {o} : life'[x] = life[x],
         \A x \in Objs \ {o} : toRelease'[x] = toRelease[x],
         \A x \in Objs \ {o} : x \in checked' <=> x \in checked,
         life'[o] \in {"loaded", "online", "removed"},
         refs'[o] = 1 + (IF life'[o] = "online" THEN 1 ELSE 0) + toRelease'[o]
                      + (IF o \in checked' THEN 1 ELSE 0)
  PROVE  /\ PlayersCounted'
         /\ player' \in [Conns -> Objs \cup {None}]
         /\ client' \in [Objs -> Conns \cup {None}]
<1>1. /\ player \in [Conns -> Objs \cup {None}] /\ client \in [Objs -> Conns \cup {None}]
      /\ life \in [Objs -> {"unused", "loaded", "online", "removed", "freed"}]
      /\ toRelease \in [Objs -> Nat] /\ refs \in [Objs -> Nat]
      /\ None \notin Conns \cup Objs
  BY SessionAssumption DEF TypeOK
<1>2. /\ Cardinality(Holders(o)') = Cardinality(Holders(o)) + 1
      /\ \A x \in Objs \ {o} : Holders(x)' = Holders(x)
  BY <1>1, HoldersAttach
<1>3. Cardinality(Holders(o)) = 0
  BY <1>1, HoldersFinite DEF PlayersCounted, RefsAccounted
<1>4. /\ player'[c] = o /\ \A d \in Conns \ {c} : player'[d] = player[d]
      /\ client'[o] = c /\ \A x \in Objs \ {o} : client'[x] = client[x]
  BY <1>1
<1>5. RefsAccounted'
  <2> SUFFICES ASSUME NEW x \in Objs
               PROVE  /\ refs'[x] = Cardinality(Holders(x)')
                            + (IF life'[x] = "online" THEN 1 ELSE 0) + toRelease'[x]
                            + (IF x \in checked' THEN 1 ELSE 0)
                      /\ life'[x] = "freed" => refs'[x] = 0
    BY DEF RefsAccounted
  <2>1. CASE x = o
    BY <1>2, <1>3, <1>4, <2>1
  <2>2. CASE x # o
    <3>1. /\ refs[x] = Cardinality(Holders(x))
                        + (IF life[x] = "online" THEN 1 ELSE 0) + toRelease[x]
                        + (IF x \in checked THEN 1 ELSE 0)
          /\ life[x] = "freed" => refs[x] = 0
      BY DEF PlayersCounted, RefsAccounted
    <3>2. x \in Objs \ {o}
      BY <2>2
    <3>3. Holders(x)' = Holders(x)
      BY <1>2, <3>2
    <3>4. refs'[x] = refs[x] /\ life'[x] = life[x]
      BY <1>4, <3>2
    <3>5. toRelease'[x] = toRelease[x] /\ (x \in checked' <=> x \in checked)
      BY <3>2
    <3> QED BY <3>1, <3>3, <3>4, <3>5
  <2> QED BY <2>1, <2>2
<1>6. \A x \in Objs : client'[x] # None => player'[client'[x]] = x
  BY <1>1, <1>4 DEF PlayersCounted
<1>7. \A x, y \in Objs : life'[x] = "online" /\ life'[y] = "online" => x = y
  BY <1>4 DEF Online
<1>8. \A x \in Objs : life'[x] = "unused" => refs'[x] = 0
  BY <1>4 DEF PlayersCounted
<1> QED
  BY <1>1, <1>5, <1>6, <1>7, <1>8 DEF PlayersCounted, Online

(* ProtocolGame::connect.                                                  *)
LEMMA AttachOK ==
  ASSUME TypeOK, PlayersCounted, NEW c \in Conns, NEW o \in Objs,
         life[o] = "online", player[c] = None, Attach(c, o),
         UNCHANGED <<life, checked, toRelease>>
  PROVE  /\ PlayersCounted'
         /\ player' \in [Conns -> Objs \cup {None}]
         /\ client' \in [Objs -> Conns \cup {None}]
         /\ refs' \in [Objs -> Nat]
         /\ acceptPackets' \subseteq Conns
<1>1. /\ player \in [Conns -> Objs \cup {None}] /\ client \in [Objs -> Conns \cup {None}]
      /\ toRelease \in [Objs -> Nat] /\ refs \in [Objs -> Nat]
      /\ acceptPackets \subseteq Conns
      /\ None \notin Conns \cup Objs
  BY SessionAssumption DEF TypeOK
<1>2. /\ player' = [player EXCEPT ![c] = o] /\ client' = [client EXCEPT ![o] = c]
      /\ refs' = [refs EXCEPT ![o] = refs[o] + 1]
      /\ acceptPackets' = acceptPackets \cup {c}
  BY DEF Attach
<1>3. /\ Cardinality(Holders(o)') = Cardinality(Holders(o)) + 1
      /\ \A x \in Objs \ {o} : Holders(x)' = Holders(x)
  BY <1>1, <1>2, HoldersAttach
<1>4. /\ player'[c] = o /\ \A d \in Conns \ {c} : player'[d] = player[d]
      /\ client'[o] = c /\ \A x \in Objs \ {o} : client'[x] = client[x]
      /\ refs'[o] = refs[o] + 1 /\ \A x \in Objs \ {o} : refs'[x] = refs[x]
  BY <1>1, <1>2
<1>5. RefsAccounted'
  <2> SUFFICES ASSUME NEW x \in Objs
               PROVE  /\ refs'[x] = Cardinality(Holders(x)')
                            + (IF life[x] = "online" THEN 1 ELSE 0) + toRelease[x]
                            + (IF x \in checked THEN 1 ELSE 0)
                      /\ life[x] = "freed" => refs'[x] = 0
    BY DEF RefsAccounted
  <2>1. /\ refs[x] = Cardinality(Holders(x))
                      + (IF life[x] = "online" THEN 1 ELSE 0) + toRelease[x]
                      + (IF x \in checked THEN 1 ELSE 0)
        /\ life[x] = "freed" => refs[x] = 0
    BY DEF PlayersCounted, RefsAccounted
  <2>2. CASE x = o
    BY <1>1, <1>3, <1>4, <2>1, <2>2, HoldersFinite
  <2>3. CASE x # o
    BY <1>3, <1>4, <2>1, <2>3
  <2> QED BY <2>2, <2>3
<1>6. \A x \in Objs : client'[x] # None => player'[client'[x]] = x
  BY <1>1, <1>4 DEF PlayersCounted
<1>7. \A x \in Objs : life[x] = "unused" => refs'[x] = 0
  BY <1>4 DEF PlayersCounted
<1> QED
  BY <1>1, <1>2, <1>5, <1>6, <1>7 DEF PlayersCounted, Online

(* Creature::decrementReferenceCounter, n times, for references that are   *)
(* counted.                                                                *)
LEMMA DecrementedOK ==
  ASSUME TypeOK, PlayersCounted, NEW o \in Objs, NEW n \in Nat \ {0}, Decremented(o, n),
         n <= refs[o],
         \A x \in Objs :
           Cardinality(Holders(x)') + toRelease'[x] + (IF x \in checked' THEN 1 ELSE 0)
             = Cardinality(Holders(x)) + toRelease[x] + (IF x \in checked THEN 1 ELSE 0)
                 - (IF x = o THEN n ELSE 0),
         \A x \in Objs : Cardinality(Holders(x)') \in Nat,
         toRelease' \in [Objs -> Nat]
  PROVE  /\ RefsAccounted'
         /\ refs' \in [Objs -> Nat]
         /\ life' \in [Objs -> {"unused", "loaded", "online", "removed", "freed"}]
         /\ \A x, y \in Objs : life'[x] = "online" /\ life'[y] = "online" => x = y
         /\ \A x \in Objs : life'[x] = "unused" => refs'[x] = 0
<1>1. /\ toRelease \in [Objs -> Nat] /\ refs \in [Objs -> Nat]
      /\ life \in [Objs -> {"unused", "loaded", "online", "removed", "freed"}]
  BY DEF TypeOK
<1>2. /\ refs'[o] = refs[o] - n /\ \A x \in Objs \ {o} : refs'[x] = refs[x]
      /\ life'[o] = (IF refs[o] = n THEN "freed" ELSE life[o])
      /\ \A x \in Objs \ {o} : life'[x] = life[x]
      /\ refs' \in [Objs -> Nat]
      /\ life' \in [Objs -> {"unused", "loaded", "online", "removed", "freed"}]
  BY <1>1 DEF Decremented
<1>3. RefsAccounted'
  <2> SUFFICES ASSUME NEW x \in Objs
               PROVE  /\ refs'[x] = Cardinality(Holders(x)')
                            + (IF life'[x] = "online" THEN 1 ELSE 0) + toRelease'[x]
                            + (IF x \in checked' THEN 1 ELSE 0)
                      /\ life'[x] = "freed" => refs'[x] = 0
    BY DEF RefsAccounted
  <2>1. /\ refs[x] = Cardinality(Holders(x))
                      + (IF life[x] = "online" THEN 1 ELSE 0) + toRelease[x]
                      + (IF x \in checked THEN 1 ELSE 0)
        /\ life[x] = "freed" => refs[x] = 0
    BY DEF PlayersCounted, RefsAccounted
  <2>2. /\ Cardinality(Holders(x)) \in Nat /\ Cardinality(Holders(x)') \in Nat
        /\ toRelease[x] \in Nat /\ toRelease'[x] \in Nat
    BY <1>1, HoldersFinite
  <2>3. CASE x # o
    BY <1>2, <2>1, <2>2, <2>3
  <2>4. CASE x = o
    <3> DEFINE k == IF o \in checked THEN 1 ELSE 0
               kk == IF o \in checked' THEN 1 ELSE 0
               w == IF life[o] = "online" THEN 1 ELSE 0
               h == Cardinality(Holders(o))
               hh == Cardinality(Holders(o)')
    <3>1. /\ k \in {0, 1} /\ kk \in {0, 1} /\ w \in {0, 1}
          /\ h \in Nat /\ hh \in Nat /\ toRelease[o] \in Nat /\ toRelease'[o] \in Nat
          /\ refs[o] \in Nat
      BY <1>1, <2>2, <2>4
    <3>2. hh + toRelease'[o] + kk = h + toRelease[o] + k - n
      OBVIOUS
    <3>3. refs[o] = h + w + toRelease[o] + k
      BY <2>1, <2>4
    <3> HIDE DEF h, hh, k, kk, w
    <3>4. refs'[o] = hh + w + toRelease'[o] + kk
      BY <1>2, <3>1, <3>2, <3>3
    <3>5. refs[o] = n => w = 0
      BY <3>1, <3>2, <3>3
    <3>6. (IF life'[o] = "online" THEN 1 ELSE 0) = w
      BY <1>2, <3>5 DEF w
    <3>7. life'[o] = "freed" => refs'[o] = 0
      BY <1>1, <1>2, <2>1, <2>4
    <3> QED BY <2>4, <3>4, <3>6, <3>7 DEF hh, kk
  <2> QED BY <2>3, <2>4
<1>4. \A x, y \in Objs : life'[x] = "online" /\ life'[y] = "online" => x = y
  <2>1. \A x \in Objs : life'[x] = "online" => life[x] = "online"
    BY <1>2
  <2> QED BY <2>1 DEF PlayersCounted, Online
<1>5. \A x \in Objs : life'[x] = "unused" => refs'[x] = 0
  BY <1>1, <1>2 DEF PlayersCounted
<1> QED
  BY <1>2, <1>3, <1>4, <1>5

-----------------------------------------------------------------------------
(* What each action starts from.                                           *)

LEMMA TasksTyped ==
  ASSUME NEW s \in Seq(Tasks)
  PROVE  s \in Seq([kind : TaskKinds, c : Conns, o : Objs \cup {None}])
<1>1. Tasks \subseteq [kind : TaskKinds, c : Conns, o : Objs \cup {None}]
  BY DEF Tasks, TaskKinds
<1>2. ASSUME NEW S, NEW T, S \subseteq T, s \in Seq(S) PROVE s \in Seq(T)
  BY <1>2
<1> QED
  BY <1>1, <1>2, Zenon

(* WellFormed without its quantifier over sets of connections.             *)
Plain ==
  /\ connState \in [Conns -> {"none", "OPEN", "CLOSED"}]
  /\ managed \subseteq Conns /\ readPending \subseteq Conns /\ writePending \subseteq Conns
  /\ sockets \subseteq Conns /\ receivedFirst \subseteq Conns /\ acceptPackets \subseteq Conns
  /\ released \subseteq Conns /\ buffered \subseteq Conns
  /\ netIn \in Conns \cup {None} /\ netPc \in {"idle", "in", "out"}
  /\ netPc = "idle" <=> netIn = None
  /\ player \in [Conns -> Objs \cup {None}]
  /\ connectEvents \subseteq [c : Conns, o : Objs]
  /\ sendAlls \in Nat
  /\ client \in [Objs -> Conns \cup {None}]
  /\ life \in [Objs -> {"unused", "loaded", "online", "removed", "freed"}]
  /\ refs \in [Objs -> Nat]
  /\ checked \subseteq Objs
  /\ toRelease \in [Objs -> Nat]
  /\ tasks \in Seq(Tasks)

LEMMA PlainNow == ASSUME IInv PROVE Plain
BY DEF IInv, WellFormed, TypeOK, Plain

LEMMA PlainThen == ASSUME Plain' PROVE WellFormed'
<1>1. tasks' \in Seq([kind : TaskKinds, c : Conns, o : Objs \cup {None}])
  BY TasksTyped DEF Plain
<1>2. \A s \in {managed, readPending, writePending, sockets, receivedFirst,
               acceptPackets, released, buffered}' : s \subseteq Conns
  BY DEF Plain
<1>3. TypeOK'
  BY <1>1, <1>2 DEF Plain, TypeOK
<1> QED
  BY <1>3 DEF Plain, WellFormed

(* The dispatcher is about to run a task.                                  *)
LEMMA TaskTaken ==
  ASSUME IInv, tasks # <<>>
  PROVE  LET kind == Head(tasks).kind IN
         /\ Rest \in Seq(Tasks) /\ C \in Conns /\ kind \in TaskKinds
         /\ kind = "connect" => Head(tasks).o \in Objs
         /\ EntersOnce(Rest) /\ LoginsFirst(Rest)
         /\ \A k, c : Has(Rest, k, c) => Has(tasks, k, c)
         /\ kind \in {"login", "connect"} =>
              /\ C \in receivedFirst /\ player[C] = None
              /\ ~Has(Rest, "login", C) /\ ~Has(Rest, "connect", C)
              /\ \A e \in connectEvents : e.c # C
         /\ kind = "login" => C \notin released
         /\ kind = "release" => connState[C] = "CLOSED" /\ ~Has(Rest, "login", C)
<1> DEFINE h == Head(tasks)
<1>1. tasks \in Seq(Tasks) /\ EntersOnce(tasks) /\ LoginsFirst(tasks)
  BY DEF IInv, WellFormed, ListInOrder
<1>2. /\ Rest \in Seq(Tasks) /\ h \in Tasks
      /\ Has(tasks, h.kind, C)
      /\ EntersOnce(Rest) /\ LoginsFirst(Rest)
      /\ \A k, c : Has(Rest, k, c) => Has(tasks, k, c)
      /\ Enters(h) => ~Has(Rest, "login", C) /\ ~Has(Rest, "connect", C)
      /\ h.kind = "release" => ~Has(Rest, "login", C)
  BY <1>1, ListTail DEF C, Rest
<1>3. h.kind \in TaskKinds /\ C \in Conns /\ (h.kind = "connect" => h.o \in Objs)
  BY <1>2 DEF C, Tasks, TaskKinds
<1> HIDE DEF h
<1>4. h.kind \in {"login", "connect"} =>
        /\ C \in receivedFirst /\ player[C] = None
        /\ ~Has(Rest, "login", C) /\ ~Has(Rest, "connect", C)
        /\ \A e \in connectEvents : e.c # C
  BY <1>2, <1>3 DEF IInv, AttachedOnce, Awaited, Enters
<1>5. /\ h.kind = "login" => C \notin released
      /\ h.kind = "release" => connState[C] = "CLOSED"
  BY <1>2, <1>3 DEF IInv, ListInOrder
<1> QED
  BY <1>2, <1>3, <1>4, <1>5 DEF h

-----------------------------------------------------------------------------
(* The network thread.                                                     *)

LEMMA AcceptOK ==
  ASSUME IInv, sockets' \subseteq Conns, NEW c \in Conns, Accept(c) PROVE IInv'
<1> DEFINE t == Task("onConnect", c, None)
<1>1. /\ connState[c] = "none" /\ connState' = [connState EXCEPT ![c] = "OPEN"]
      /\ tasks' = Append(tasks, t)
      /\ UNCHANGED <<receivedFirst, player, released, connectEvents, buffered, sendAlls>>
      /\ UNCHANGED <<client, life, refs, checked, toRelease>>
  BY DEF Accept, protoVars, poolVars, playerVars
<1>2. tasks \in Seq(Tasks) /\ t \in Tasks /\ t.kind = "onConnect"
  BY DEF IInv, WellFormed, Tasks, TaskKinds, Task
<1> HIDE DEF t
<1>3. /\ tasks' \in Seq(Tasks) /\ EntersOnce(tasks') /\ LoginsFirst(tasks')
      /\ \A kind, d : Has(tasks', kind, d) => Has(tasks, kind, d) \/ kind = "onConnect"
  BY <1>1, <1>2, ListAppend DEF Enters, IInv, ListInOrder
<1>4. WellFormed'
  BY <1>1, <1>3, PlainNow, PlainThen DEF Plain, Accept, netVars, protoVars, poolVars, playerVars
<1>5. ListInOrder'
  <2>1. connState \in [Conns -> {"none", "OPEN", "CLOSED"}]
    BY DEF IInv, WellFormed, TypeOK
  <2> QED BY <1>1, <1>3, <2>1 DEF IInv, ListInOrder
<1>6. AttachedOnce'
  BY <1>1, <1>3, AwaitedFewer DEF IInv
<1>7. PlayersCounted'
  BY <1>1, PlayersStay DEF IInv
<1> QED
  BY <1>1, <1>4, <1>5, <1>6, <1>7 DEF IInv, AutosendServed

(* A step that concerns neither the list nor players nor connections'      *)
(* states.                                                                 *)
LEMMA NothingElse ==
  ASSUME IInv, WellFormed',
         UNCHANGED <<connState, receivedFirst, player, released, connectEvents, tasks>>,
         UNCHANGED <<client, life, refs, checked, toRelease>>,
         AutosendServed'
  PROVE  IInv'
<1>1. ListInOrder' /\ AttachedOnce'
  BY DEF IInv, ListInOrder, AttachedOnce, Awaited
<1>2. PlayersCounted'
  BY PlayersStay DEF IInv
<1> QED
  BY <1>1, <1>2 DEF IInv

LEMMA ReadsAndWritesOK ==
  ASSUME IInv, sockets' \subseteq Conns,
         \/ \E c \in Conns : BeginRead(c) \/ WriteDone(c)
         \/ ReadClosed
         \/ HandlerReturns
         \/ SendAll
  PROVE  IInv'
<1>1. /\ UNCHANGED <<connState, receivedFirst, player, released, connectEvents, tasks>>
      /\ UNCHANGED <<client, life, refs, checked, toRelease>>
      /\ UNCHANGED <<managed, acceptPackets, buffered>>
  BY DEF BeginRead, WriteDone, ReadClosed, HandlerReturns, SendAll, connVars, netVars,
         protoVars, poolVars, playerVars
<1>2. CASE \E c \in Conns : BeginRead(c)
  <2>1. WellFormed'
    BY <1>1, <1>2, SessionAssumption DEF IInv, WellFormed, TypeOK, BeginRead, poolVars
  <2> QED BY <1>1, <1>2, <2>1, NothingElse DEF IInv, AutosendServed, BeginRead, poolVars
<1>3. CASE \E c \in Conns : WriteDone(c)
  <2>1. WellFormed'
    BY <1>1, <1>3 DEF IInv, WellFormed, TypeOK, WriteDone, poolVars, netVars
  <2> QED BY <1>1, <1>3, <2>1, NothingElse DEF IInv, AutosendServed, WriteDone, poolVars
<1>4. CASE ReadClosed
  <2>1. WellFormed'
    BY <1>1, <1>4 DEF IInv, WellFormed, TypeOK, ReadClosed, poolVars, connVars
  <2> QED BY <1>1, <1>4, <2>1, NothingElse DEF IInv, AutosendServed, ReadClosed, poolVars
<1>5. CASE HandlerReturns
  <2>1. WellFormed'
    BY <1>1, <1>5 DEF IInv, WellFormed, TypeOK, HandlerReturns, poolVars, connVars
  <2> QED BY <1>1, <1>5, <2>1, NothingElse DEF IInv, AutosendServed, HandlerReturns, poolVars
<1>6. CASE SendAll
  <2>1. /\ sendAlls' = IF buffered = {} THEN sendAlls - 1 ELSE sendAlls
        /\ sendAlls > 0 /\ sendAlls \in Nat
        /\ UNCHANGED <<readPending, netIn, netPc>>
    BY <1>6 DEF SendAll, IInv, WellFormed, TypeOK, netVars
  <2>2. writePending' \subseteq Conns
    BY <1>6 DEF SendAll, IInv, WellFormed, TypeOK
  <2>3. WellFormed'
    BY <1>1, <2>1, <2>2 DEF IInv, WellFormed, TypeOK
  <2> QED BY <1>1, <2>1, <2>3, NothingElse DEF IInv, AutosendServed
<1> QED
  BY <1>2, <1>3, <1>4, <1>5, <1>6

(* close() in a handler or a task that leaves rest of the list.            *)
LEMMA ClosingOK ==
  ASSUME IInv, NEW d \in Conns, NEW rest \in Seq(Tasks),
         EntersOnce(rest), LoginsFirst(rest),
         \A kind, c : Has(rest, kind, c) => Has(tasks, kind, c),
         Shut(d, rest),
         UNCHANGED <<released, connectEvents, player>>, receivedFirst \subseteq receivedFirst'
  PROVE  /\ ListInOrder' /\ AttachedOnce'
         /\ tasks' \in Seq(Tasks)
         /\ managed' \subseteq Conns
         /\ connState' \in [Conns -> {"none", "OPEN", "CLOSED"}]
<1>1. /\ ListInOrder'
      /\ tasks' \in Seq(Tasks)
      /\ managed' \subseteq Conns
      /\ connState' \in [Conns -> {"none", "OPEN", "CLOSED"}]
      /\ \A c : Has(tasks', "login", c) => Has(rest, "login", c)
      /\ \A c : Has(tasks', "connect", c) => Has(rest, "connect", c)
  BY ListClosing DEF IInv
<1>2. /\ \A c : Has(tasks', "login", c) => Has(tasks, "login", c)
      /\ \A c : Has(tasks', "connect", c) => Has(tasks, "connect", c)
  BY <1>1
<1>3. AttachedOnce'
  BY <1>2, AwaitedFewer DEF IInv
<1> QED
  BY <1>1, <1>3

(* close() in one of the network thread's handlers.                        *)
LEMMA NetworkCloseOK ==
  ASSUME IInv, sockets' \subseteq Conns, NEW d \in Conns, Shut(d, tasks),
         UNCHANGED <<protoVars, poolVars, playerVars>>,
         receivedFirst \subseteq receivedFirst', receivedFirst' \subseteq Conns,
         readPending' \subseteq Conns, writePending' \subseteq Conns,
         \/ netIn' \in Conns /\ netPc' \in {"in", "out"}
         \/ netIn' = None /\ netPc' = "idle"
  PROVE  IInv'
<1>1. /\ UNCHANGED <<player, acceptPackets, released, connectEvents>>
      /\ UNCHANGED <<buffered, sendAlls, client, life, refs, checked, toRelease>>
  BY DEF protoVars, poolVars, playerVars
<1>2. tasks \in Seq(Tasks) /\ EntersOnce(tasks) /\ LoginsFirst(tasks)
  BY DEF IInv, WellFormed, ListInOrder
<1>3. /\ ListInOrder' /\ AttachedOnce'
      /\ tasks' \in Seq(Tasks)
      /\ managed' \subseteq Conns
      /\ connState' \in [Conns -> {"none", "OPEN", "CLOSED"}]
  BY <1>1, <1>2, ClosingOK
<1>4. WellFormed'
  BY <1>1, <1>3, PlainNow, PlainThen, SessionAssumption DEF Plain
<1>5. PlayersCounted'
  BY <1>1, PlayersStay DEF IInv
<1> QED
  BY <1>1, <1>3, <1>4, <1>5 DEF IInv, AutosendServed

LEMMA Reading ==
  ASSUME IInv, netPc = "in"
  PROVE  /\ netIn \in Conns
         /\ readPending \subseteq Conns /\ writePending \subseteq Conns
         /\ receivedFirst \subseteq Conns
BY DEF IInv, WellFormed, TypeOK

LEMMA ReadErrorOK ==
  ASSUME IInv, sockets' \subseteq Conns, ReadError PROVE IInv'
<1>1. netPc = "in" /\ Shut(netIn, tasks)
      /\ netPc' = "out"
      /\ UNCHANGED <<readPending, writePending, receivedFirst, netIn>>
      /\ UNCHANGED <<protoVars, poolVars, playerVars>>
  BY DEF ReadError, Close
<1> QED
  BY <1>1, Reading, NetworkCloseOK

LEMMA WriteErrorOK ==
  ASSUME IInv, sockets' \subseteq Conns, NEW c \in Conns, WriteError(c) \/ IOTimeout(c) PROVE IInv'
<1>1. /\ Shut(c, tasks) /\ netIn' = c /\ netPc' = "out"
      /\ writePending' \subseteq writePending
      /\ UNCHANGED <<readPending, receivedFirst>>
      /\ UNCHANGED <<protoVars, poolVars, playerVars>>
  BY DEF WriteError, IOTimeout, Close
<1>2. /\ readPending \subseteq Conns /\ writePending \subseteq Conns
      /\ receivedFirst \subseteq Conns
  BY DEF IInv, WellFormed, TypeOK
<1> QED
  BY <1>1, <1>2, NetworkCloseOK

(* onRecvFirstMessage: a login is posted once, by a connection that has no *)
(* player and is not on its way to one.                                    *)
LEMMA ReadFirstOK ==
  ASSUME IInv, sockets' \subseteq Conns, ReadFirst PROVE IInv'
<1> DEFINE c == netIn
           t == Task("login", c, None)
<1>1. /\ netPc = "in" /\ connState[c] = "OPEN" /\ c \notin receivedFirst
      /\ receivedFirst' = receivedFirst \cup {c}
      /\ readPending' = readPending \cup {c}
      /\ netIn' = None /\ netPc' = "idle"
      /\ UNCHANGED <<protoVars, poolVars, playerVars>>
  BY DEF ReadFirst, ReturnArmed
<1>2. /\ c \in Conns
      /\ readPending \subseteq Conns /\ writePending \subseteq Conns
      /\ receivedFirst \subseteq Conns
  BY <1>1, Reading
<1>3. CASE Shut(c, tasks) /\ (Send(c) \/ UNCHANGED writePending)
  <2>1. writePending' \subseteq Conns
    BY <1>2, <1>3 DEF Send
  <2> QED BY <1>1, <1>2, <1>3, <2>1, NetworkCloseOK
<1>4. CASE tasks' = Append(tasks, t) /\ UNCHANGED <<connState, managed, writePending>>
  <2>1. /\ UNCHANGED <<player, acceptPackets, released, connectEvents>>
        /\ UNCHANGED <<buffered, sendAlls, client, life, refs, checked, toRelease>>
    BY <1>1 DEF protoVars, poolVars, playerVars
  <2>2. tasks \in Seq(Tasks) /\ t \in Tasks /\ t.kind = "login" /\ t.c = c
    BY <1>2 DEF IInv, WellFormed, Tasks, TaskKinds, Task
  <2>3. ~Awaited(c) /\ player[c] = None
    BY <1>1, <1>2 DEF IInv, AttachedOnce
  <2>4. ~Has(tasks, "release", c) /\ c \notin released
    BY <1>1, <1>2 DEF IInv, ListInOrder
  <2> HIDE DEF t, c
  <2>5. /\ tasks' \in Seq(Tasks) /\ EntersOnce(tasks') /\ LoginsFirst(tasks')
        /\ \A kind, d : Has(tasks', kind, d)
                          <=> Has(tasks, kind, d) \/ (kind = "login" /\ d = c)
    BY <1>4, <2>2, <2>3, <2>4, ListAppend DEF IInv, ListInOrder, Awaited
  <2>6. WellFormed'
    BY <1>1, <1>2, <1>4, <2>1, <2>5, PlainNow, PlainThen, SessionAssumption
    DEF Plain
  <2>7. ListInOrder'
    BY <1>4, <2>1, <2>4, <2>5 DEF IInv, ListInOrder
  <2>8. AttachedOnce'
    <3>1. \A e \in connectEvents' : ~Has(tasks', "login", e.c) /\ ~Has(tasks', "connect", e.c)
      BY <2>1, <2>3, <2>5 DEF IInv, AttachedOnce, Awaited
    <3>2. \A d \in Conns : Awaited(d)' => Awaited(d) \/ d = c
      BY <2>1, <2>5 DEF Awaited
    <3>3. \A d \in Conns : Awaited(d)' => d \in receivedFirst' /\ player'[d] = None
      BY <1>1, <2>1, <2>3, <3>2 DEF IInv, AttachedOnce
    <3> QED BY <1>1, <2>1, <3>1, <3>3 DEF IInv, AttachedOnce, c
  <2>9. PlayersCounted'
    BY <2>1, PlayersStay DEF IInv
  <2> QED BY <2>1, <2>6, <2>7, <2>8, <2>9 DEF IInv, AutosendServed
<1> QED
  BY <1>3, <1>4 DEF ReadFirst, Close

LEMMA ReadPacketOK ==
  ASSUME IInv, sockets' \subseteq Conns, ReadPacket PROVE IInv'
<1> DEFINE c == netIn
           t == Task("logout", c, None)
<1>1. /\ netPc = "in"
      /\ readPending' = readPending \cup {c}
      /\ netIn' = None /\ netPc' = "idle"
      /\ UNCHANGED <<writePending, receivedFirst>>
      /\ UNCHANGED <<protoVars, poolVars, playerVars>>
  BY DEF ReadPacket, ReturnArmed
<1>2. /\ c \in Conns
      /\ readPending \subseteq Conns /\ writePending \subseteq Conns
      /\ receivedFirst \subseteq Conns
  BY <1>1, Reading
<1>3. CASE Shut(c, tasks)
  BY <1>1, <1>2, <1>3, NetworkCloseOK
<1>4. CASE (tasks' = Append(tasks, t) \/ UNCHANGED tasks) /\ UNCHANGED <<connState, managed>>
  <2>1. /\ UNCHANGED <<player, acceptPackets, released, connectEvents>>
        /\ UNCHANGED <<buffered, sendAlls, client, life, refs, checked, toRelease>>
    BY <1>1 DEF protoVars, poolVars, playerVars
  <2>2. tasks \in Seq(Tasks) /\ t \in Tasks /\ t.kind = "logout"
    BY <1>2 DEF IInv, WellFormed, Tasks, TaskKinds, Task
  <2> HIDE DEF t, c
  <2>3. /\ tasks' \in Seq(Tasks) /\ EntersOnce(tasks') /\ LoginsFirst(tasks')
        /\ \A kind, d : Has(tasks', kind, d) => Has(tasks, kind, d) \/ kind = "logout"
    <3>1. CASE tasks' = Append(tasks, t)
      BY <2>2, <3>1, ListAppend DEF IInv, ListInOrder, Enters
    <3>2. CASE UNCHANGED tasks
      BY <2>2, <3>2 DEF IInv, ListInOrder
    <3> QED BY <1>4, <3>1, <3>2
  <2>4. WellFormed'
    BY <1>1, <1>2, <1>4, <2>1, <2>3, PlainNow, PlainThen, SessionAssumption
    DEF Plain
  <2>5. ListInOrder'
    BY <1>4, <2>1, <2>3 DEF IInv, ListInOrder
  <2>6. AttachedOnce'
    BY <1>1, <2>1, <2>3, AwaitedFewer DEF IInv
  <2>7. PlayersCounted'
    BY <2>1, PlayersStay DEF IInv
  <2> QED BY <2>1, <2>4, <2>5, <2>6, <2>7 DEF IInv, AutosendServed
<1> QED
  BY <1>3, <1>4 DEF ReadPacket, Close

-----------------------------------------------------------------------------
(* The dispatcher's tasks.                                                 *)

(* A task ends without a player for a protocol.                            *)
LEMMA TaskEndsOK ==
  ASSUME IInv, tasks # <<>>,
         UNCHANGED <<released, connectEvents, player, receivedFirst>>,
         \/ tasks' = Rest /\ UNCHANGED <<connState, managed>>
         \/ \E d \in Conns : Shut(d, Rest)
  PROVE  /\ ListInOrder' /\ AttachedOnce'
         /\ tasks' \in Seq(Tasks)
         /\ managed' \subseteq Conns
         /\ connState' \in [Conns -> {"none", "OPEN", "CLOSED"}]
<1>1. /\ Rest \in Seq(Tasks) /\ EntersOnce(Rest) /\ LoginsFirst(Rest)
      /\ \A k, c : Has(Rest, k, c) => Has(tasks, k, c)
  BY TaskTaken
<1>2. CASE tasks' = Rest /\ UNCHANGED <<connState, managed>>
  <2>1. ListInOrder'
    BY <1>1, <1>2, ListShorter DEF IInv
  <2>2. AttachedOnce'
    BY <1>1, <1>2, AwaitedFewer DEF IInv
  <2>3. /\ managed \subseteq Conns
        /\ connState \in [Conns -> {"none", "OPEN", "CLOSED"}]
    BY DEF IInv, WellFormed, TypeOK
  <2> QED BY <1>1, <1>2, <2>1, <2>2, <2>3
<1>3. ASSUME NEW d \in Conns, Shut(d, Rest)
      PROVE  /\ ListInOrder' /\ AttachedOnce'
             /\ tasks' \in Seq(Tasks)
             /\ managed' \subseteq Conns
             /\ connState' \in [Conns -> {"none", "OPEN", "CLOSED"}]
  BY <1>1, <1>3, ClosingOK
<1> QED
  BY <1>2, <1>3

LEMMA OnConnectOK ==
  ASSUME IInv, sockets' \subseteq Conns, OnConnect PROVE IInv'
<1>1. /\ tasks # <<>> /\ tasks' = Rest
      /\ UNCHANGED <<connState, managed, readPending, receivedFirst, netIn, netPc>>
      /\ UNCHANGED <<player, acceptPackets, released, connectEvents, buffered, sendAlls>>
      /\ UNCHANGED <<client, life, refs, checked, toRelease>>
  BY DEF OnConnect, Next1, netVars, protoVars, poolVars, playerVars
<1>2. writePending' \subseteq Conns
  <2>1. C \in Conns /\ writePending \subseteq Conns
    BY <1>1, TaskTaken DEF IInv, WellFormed, TypeOK
  <2> QED BY <2>1 DEF OnConnect, Send
<1>3. ListInOrder' /\ AttachedOnce' /\ tasks' \in Seq(Tasks)
  BY <1>1, TaskEndsOK
<1>4. WellFormed'
  BY <1>1, <1>2, <1>3, PlainNow, PlainThen DEF Plain
<1>5. PlayersCounted'
  BY <1>1, PlayersStay DEF IInv
<1> QED
  BY <1>1, <1>3, <1>4, <1>5 DEF IInv, AutosendServed

LEMMA LogoutTaskOK ==
  ASSUME IInv, sockets' \subseteq Conns, LogoutTask PROVE IInv'
<1> DEFINE o == player[C]
<1>1. /\ tasks # <<>>
      /\ UNCHANGED <<readPending, writePending, receivedFirst, netIn, netPc>>
      /\ UNCHANGED <<player, acceptPackets, released, connectEvents, buffered, sendAlls>>
      /\ UNCHANGED <<client, refs, checked>>
  BY DEF LogoutTask, Next1, netVars, protoVars, poolVars
<1>2. C \in Conns
  BY <1>1, TaskTaken
<1>3. \/ tasks' = Rest /\ UNCHANGED <<connState, managed, life, toRelease>>
      \/ o # None /\ Shut(C, Rest) /\ Remove(o)
  BY DEF LogoutTask, Close
<1>4. /\ ListInOrder' /\ AttachedOnce'
      /\ tasks' \in Seq(Tasks)
      /\ managed' \subseteq Conns
      /\ connState' \in [Conns -> {"none", "OPEN", "CLOSED"}]
  BY <1>1, <1>2, <1>3, TaskEndsOK
<1>5. /\ PlayersCounted'
      /\ life' \in [Objs -> {"unused", "loaded", "online", "removed", "freed"}]
      /\ toRelease' \in [Objs -> Nat]
  <2>1. CASE UNCHANGED <<life, toRelease>>
    BY <1>1, <2>1, PlayersStay DEF IInv, WellFormed, TypeOK
  <2>2. CASE o # None /\ Remove(o)
    <3>1. o \in Objs
      BY <1>2, <2>2 DEF IInv, WellFormed, TypeOK
    <3> QED BY <1>1, <2>2, <3>1, RemoveOK DEF IInv, WellFormed
  <2> QED BY <1>3, <2>1, <2>2
<1>6. WellFormed'
  BY <1>1, <1>4, <1>5, PlainNow, PlainThen DEF Plain
<1> QED
  BY <1>1, <1>4, <1>5, <1>6 DEF IInv, AutosendServed

(* The game removes the player.                                            *)
LEMMA KickOK ==
  ASSUME IInv, sockets' \subseteq Conns, NEW o \in Objs, Kick(o) \/ Death(o) PROVE IInv'
<1>1. /\ Remove(o)
      /\ UNCHANGED <<readPending, writePending, receivedFirst, netIn, netPc>>
      /\ UNCHANGED <<player, acceptPackets, released, connectEvents, buffered, sendAlls>>
      /\ UNCHANGED <<client, refs, checked>>
  BY DEF Kick, Death, connVars, netVars, protoVars, poolVars
<1>2. \/ UNCHANGED <<connState, managed, tasks>>
      \/ client[o] # None /\ Shut(client[o], tasks)
  BY DEF Kick, Death, connVars, Close
<1>3. /\ ListInOrder' /\ AttachedOnce'
      /\ tasks' \in Seq(Tasks)
      /\ managed' \subseteq Conns
      /\ connState' \in [Conns -> {"none", "OPEN", "CLOSED"}]
  <2>1. CASE UNCHANGED <<connState, managed, tasks>>
    BY <1>1, <2>1 DEF IInv, WellFormed, TypeOK, ListInOrder, AttachedOnce, Awaited
  <2>2. CASE client[o] # None /\ Shut(client[o], tasks)
    <3>1. client[o] \in Conns /\ tasks \in Seq(Tasks) /\ EntersOnce(tasks) /\ LoginsFirst(tasks)
      BY <2>2 DEF IInv, WellFormed, TypeOK, ListInOrder
    <3> QED BY <1>1, <2>2, <3>1, ClosingOK
  <2> QED BY <1>2, <2>1, <2>2
<1>4. /\ PlayersCounted'
      /\ life' \in [Objs -> {"unused", "loaded", "online", "removed", "freed"}]
      /\ toRelease' \in [Objs -> Nat]
  BY <1>1, RemoveOK DEF IInv, WellFormed
<1>5. WellFormed'
  BY <1>1, <1>3, <1>4, PlainNow, PlainThen DEF Plain
<1> QED
  BY <1>1, <1>3, <1>4, <1>5 DEF IInv, AutosendServed

(* Game::checkCreatures and cleanup().                                     *)
LEMMA CheckCreaturesOK ==
  ASSUME IInv, sockets' \subseteq Conns, NEW o \in Objs, CheckCreatures(o) PROVE IInv'
<1> DEFINE dropped == IF o \in checked /\ life[o] = "removed" THEN 1 ELSE 0
           n == toRelease[o] + dropped
<1>1. /\ n > 0 /\ Decremented(o, n)
      /\ checked' = IF dropped = 1 THEN checked \ {o} ELSE checked
      /\ toRelease' = [toRelease EXCEPT ![o] = 0]
      /\ UNCHANGED <<connState, managed, readPending, writePending, receivedFirst>>
      /\ UNCHANGED <<netIn, netPc, client, tasks>>
      /\ UNCHANGED <<player, acceptPackets, released, connectEvents, buffered, sendAlls>>
  BY DEF CheckCreatures, connVars, netVars, protoVars, poolVars
<1>2. /\ toRelease \in [Objs -> Nat] /\ checked \subseteq Objs /\ refs \in [Objs -> Nat]
      /\ PlayersCounted /\ TypeOK
  BY DEF IInv, WellFormed, TypeOK
<1>3. /\ dropped \in {0, 1} /\ toRelease[o] \in Nat
      /\ dropped = 1 => o \in checked
  BY <1>2
<1> HIDE DEF dropped
<1>4. n \in Nat \ {0}
  BY <1>1, <1>3
<1>5. refs[o] = Cardinality(Holders(o))
                  + (IF life[o] = "online" THEN 1 ELSE 0) + toRelease[o]
                  + (IF o \in checked THEN 1 ELSE 0)
  BY <1>2 DEF PlayersCounted, RefsAccounted
<1>6. n <= refs[o]
  BY <1>3, <1>5, HoldersFinite
<1>7. /\ checked' \subseteq Objs /\ toRelease' \in [Objs -> Nat]
      /\ \A x \in Objs : Holders(x)' = Holders(x)
  BY <1>1, <1>2 DEF Holders
<1>8. ASSUME NEW x \in Objs
      PROVE  /\ Cardinality(Holders(x)') + toRelease'[x] + (IF x \in checked' THEN 1 ELSE 0)
                  = Cardinality(Holders(x)) + toRelease[x] + (IF x \in checked THEN 1 ELSE 0)
                      - (IF x = o THEN n ELSE 0)
             /\ Cardinality(Holders(x)') \in Nat
  <2>1. Cardinality(Holders(x)') = Cardinality(Holders(x))
    BY <1>7
  <2>2. Cardinality(Holders(x)) \in Nat /\ toRelease[x] \in Nat
    BY <1>2, HoldersFinite
  <2>3. CASE x # o
    BY <1>1, <1>2, <2>1, <2>2, <2>3
  <2>4. CASE x = o /\ dropped = 1
    BY <1>1, <1>2, <1>3, <2>1, <2>2, <2>4
  <2>5. CASE x = o /\ dropped = 0
    BY <1>1, <1>2, <1>3, <2>1, <2>2, <2>5
  <2> QED BY <1>3, <2>3, <2>4, <2>5
<1> HIDE DEF n
<1>9. /\ RefsAccounted'
      /\ refs' \in [Objs -> Nat]
      /\ life' \in [Objs -> {"unused", "loaded", "online", "removed", "freed"}]
      /\ \A x, y \in Objs : life'[x] = "online" /\ life'[y] = "online" => x = y
      /\ \A x \in Objs : life'[x] = "unused" => refs'[x] = 0
  BY <1>1, <1>2, <1>4, <1>6, <1>7, <1>8, DecrementedOK
<1>10. PlayersCounted'
  BY <1>1, <1>2, <1>9 DEF PlayersCounted, Online
<1>11. WellFormed'
  BY <1>1, <1>2, <1>7, <1>9 DEF IInv, WellFormed, TypeOK
<1>12. ListInOrder' /\ AttachedOnce'
  BY <1>1 DEF IInv, ListInOrder, AttachedOnce, Awaited
<1> QED
  BY <1>1, <1>10, <1>11, <1>12 DEF IInv, AutosendServed

(* A login or connect gives its protocol a player, or nothing.             *)
LEMMA EntersOK ==
  ASSUME IInv, tasks # <<>>, Head(tasks).kind \in {"login", "connect"},
         UNCHANGED <<released, connectEvents, receivedFirst>>,
         \A c \in Conns \ {C} : player'[c] = player[c],
         \/ tasks' = Rest /\ UNCHANGED <<connState, managed>>
         \/ Shut(C, Rest)
  PROVE  /\ ListInOrder' /\ AttachedOnce'
         /\ tasks' \in Seq(Tasks)
         /\ managed' \subseteq Conns
         /\ connState' \in [Conns -> {"none", "OPEN", "CLOSED"}]
<1>1. /\ Rest \in Seq(Tasks) /\ EntersOnce(Rest) /\ LoginsFirst(Rest) /\ C \in Conns
      /\ \A k, c : Has(Rest, k, c) => Has(tasks, k, c)
      /\ C \in receivedFirst
      /\ ~Has(Rest, "login", C) /\ ~Has(Rest, "connect", C)
      /\ \A e \in connectEvents : e.c # C
  BY TaskTaken
<1>2. /\ ListInOrder'
      /\ tasks' \in Seq(Tasks)
      /\ managed' \subseteq Conns
      /\ connState' \in [Conns -> {"none", "OPEN", "CLOSED"}]
      /\ \A c : Has(tasks', "login", c) => Has(Rest, "login", c)
      /\ \A c : Has(tasks', "connect", c) => Has(Rest, "connect", c)
  <2>1. CASE tasks' = Rest /\ UNCHANGED <<connState, managed>>
    <3>1. ListInOrder'
      BY <1>1, <2>1, ListShorter DEF IInv
    <3> QED BY <1>1, <2>1, <3>1 DEF IInv, WellFormed, TypeOK
  <2>2. CASE Shut(C, Rest)
    BY <1>1, <2>2, ListClosing DEF IInv
  <2> QED BY <2>1, <2>2
<1>3. AttachedOnce'
  <2>1. /\ \A c : Has(tasks', "login", c) => Has(tasks, "login", c)
        /\ \A c : Has(tasks', "connect", c) => Has(tasks, "connect", c)
        /\ ~Has(tasks', "login", C) /\ ~Has(tasks', "connect", C)
    BY <1>1, <1>2
  <2> QED BY <1>1, <2>1, AwaitedFewer DEF IInv
<1> QED
  BY <1>2, <1>3

(* Nothing counts a reference to an object that does not exist yet.        *)
LEMMA UnusedUncounted ==
  ASSUME IInv, NEW o \in Objs, life[o] = "unused"
  PROVE  toRelease[o] = 0 /\ o \notin checked
<1>1. /\ refs[o] = Cardinality(Holders(o))
                     + (IF life[o] = "online" THEN 1 ELSE 0) + toRelease[o]
                     + (IF o \in checked THEN 1 ELSE 0)
      /\ refs[o] = 0 /\ toRelease[o] \in Nat
  BY DEF IInv, WellFormed, TypeOK, PlayersCounted, RefsAccounted
<1> QED
  BY <1>1, HoldersFinite

LEMMA LoginRefusedOK ==
  ASSUME IInv, sockets' \subseteq Conns, NEW o \in Objs, LoginRefused(o) PROVE IInv'
<1>1. /\ tasks # <<>> /\ Head(tasks).kind = "login" /\ Online = {} /\ life[o] = "unused"
      /\ player' = [player EXCEPT ![C] = o] /\ client' = [client EXCEPT ![o] = C]
      /\ refs' = [refs EXCEPT ![o] = 1] /\ life' = [life EXCEPT ![o] = "loaded"]
      /\ Send(C) /\ Shut(C, Rest)
      /\ UNCHANGED <<readPending, receivedFirst, netIn, netPc, acceptPackets, released>>
      /\ UNCHANGED <<connectEvents, buffered, sendAlls, checked, toRelease>>
  BY DEF LoginRefused, Next1, IsNew, DisconnectClient, netVars, poolVars
<1>2. C \in Conns /\ player[C] = None
  BY <1>1, TaskTaken
<1>3. /\ player \in [Conns -> Objs \cup {None}] /\ writePending \subseteq Conns
      /\ toRelease \in [Objs -> Nat] /\ checked \subseteq Objs
      /\ PlayersCounted /\ TypeOK
  BY DEF IInv, WellFormed, TypeOK
<1>4. writePending' \subseteq Conns
  BY <1>1, <1>2, <1>3 DEF Send
<1>5. /\ ListInOrder' /\ AttachedOnce'
      /\ tasks' \in Seq(Tasks)
      /\ managed' \subseteq Conns
      /\ connState' \in [Conns -> {"none", "OPEN", "CLOSED"}]
  BY <1>1, <1>2, <1>3, EntersOK
<1>6. toRelease[o] = 0 /\ o \notin checked
  BY <1>1, UnusedUncounted
<1>7. /\ PlayersCounted'
      /\ player' \in [Conns -> Objs \cup {None}]
      /\ client' \in [Objs -> Conns \cup {None}]
      /\ refs' \in [Objs -> Nat]
      /\ life' \in [Objs -> {"unused", "loaded", "online", "removed", "freed"}]
  <2>1. /\ refs' \in [Objs -> Nat] /\ refs'[o] = 1
        /\ life' \in [Objs -> {"unused", "loaded", "online", "removed", "freed"}]
        /\ life'[o] = "loaded"
        /\ \A x \in Objs \ {o} : refs'[x] = refs[x] /\ life'[x] = life[x]
    BY <1>1, <1>3 DEF TypeOK
  <2>2. /\ toRelease' \in [Objs -> Nat] /\ toRelease'[o] = 0
        /\ checked' \subseteq Objs /\ o \notin checked'
        /\ \A x \in Objs : toRelease'[x] = toRelease[x] /\ (x \in checked' <=> x \in checked)
    BY <1>1, <1>3, <1>6
  <2>3. refs'[o] = 1 + (IF life'[o] = "online" THEN 1 ELSE 0) + toRelease'[o]
                     + (IF o \in checked' THEN 1 ELSE 0)
    BY <2>1, <2>2
  <2> QED BY <1>1, <1>2, <1>3, <2>1, <2>2, <2>3, NewPlayerOK
<1>8. WellFormed'
  BY <1>1, <1>4, <1>5, <1>7, PlainNow, PlainThen DEF Plain
<1> QED
  BY <1>1, <1>5, <1>7, <1>8 DEF IInv, AutosendServed

(* addProtocolToAutosend, of a protocol that was not released.             *)
LEMMA AutosendOK ==
  ASSUME IInv, NEW c \in Conns, c \notin released, AddToAutosend(c), UNCHANGED released
  PROVE  AutosendServed' /\ buffered' \subseteq Conns /\ sendAlls' \in Nat
<1>1. buffered \subseteq Conns /\ sendAlls \in Nat
  BY DEF IInv, WellFormed, TypeOK
<1> QED
  BY <1>1 DEF IInv, AutosendServed, AddToAutosend

LEMMA LoginNewOK ==
  ASSUME IInv, sockets' \subseteq Conns, NEW o \in Objs, LoginNew(o) PROVE IInv'
<1>1. /\ tasks # <<>> /\ Head(tasks).kind = "login" /\ Online = {} /\ life[o] = "unused"
      /\ player' = [player EXCEPT ![C] = o] /\ client' = [client EXCEPT ![o] = C]
      /\ refs' = [refs EXCEPT ![o] = 3] /\ checked' = checked \cup {o}
      /\ acceptPackets' = acceptPackets \cup {C} /\ AddToAutosend(C)
      /\ UNCHANGED <<readPending, writePending, receivedFirst, netIn, netPc>>
      /\ UNCHANGED <<released, connectEvents>>
  BY DEF LoginNew, Next1, IsNew, netVars
<1>2. \/ /\ life' = [life EXCEPT ![o] = "online"] /\ tasks' = Rest
         /\ UNCHANGED <<connState, managed, toRelease>>
      \/ /\ Shut(C, Rest) /\ life' = [life EXCEPT ![o] = "removed"]
         /\ toRelease' = [toRelease EXCEPT ![o] = 1]
  BY DEF LoginNew, Close
<1>3. C \in Conns /\ player[C] = None /\ C \notin released
  BY <1>1, TaskTaken
<1>4. /\ player \in [Conns -> Objs \cup {None}]
      /\ toRelease \in [Objs -> Nat] /\ checked \subseteq Objs
      /\ PlayersCounted /\ TypeOK
  BY DEF IInv, WellFormed, TypeOK
<1>5. /\ ListInOrder' /\ AttachedOnce'
      /\ tasks' \in Seq(Tasks)
      /\ managed' \subseteq Conns
      /\ connState' \in [Conns -> {"none", "OPEN", "CLOSED"}]
  <2>1. \A c \in Conns \ {C} : player'[c] = player[c]
    BY <1>1, <1>4
  <2> QED BY <1>1, <1>2, <2>1, EntersOK
<1>6. toRelease[o] = 0 /\ o \notin checked
  BY <1>1, UnusedUncounted
<1>7. /\ PlayersCounted'
      /\ player' \in [Conns -> Objs \cup {None}]
      /\ client' \in [Objs -> Conns \cup {None}]
      /\ refs' \in [Objs -> Nat] /\ toRelease' \in [Objs -> Nat]
      /\ life' \in [Objs -> {"unused", "loaded", "online", "removed", "freed"}]
  <2>1. /\ checked' \subseteq Objs /\ o \in checked'
        /\ \A x \in Objs \ {o} : x \in checked' <=> x \in checked
    BY <1>1, <1>4
  <2>2. /\ refs' \in [Objs -> Nat] /\ refs'[o] = 3
        /\ \A x \in Objs \ {o} : refs'[x] = refs[x]
    BY <1>1, <1>4 DEF TypeOK
  <2>3. /\ life' \in [Objs -> {"unused", "loaded", "online", "removed", "freed"}]
        /\ toRelease' \in [Objs -> Nat]
        /\ \A x \in Objs \ {o} : life'[x] = life[x] /\ toRelease'[x] = toRelease[x]
        /\ \/ life'[o] = "online" /\ toRelease'[o] = 0
           \/ life'[o] = "removed" /\ toRelease'[o] = 1
    <3>1. life \in [Objs -> {"unused", "loaded", "online", "removed", "freed"}]
      BY <1>4 DEF TypeOK
    <3>2. CASE life' = [life EXCEPT ![o] = "online"] /\ toRelease' = toRelease
      BY <1>4, <1>6, <3>1, <3>2
    <3>3. CASE /\ life' = [life EXCEPT ![o] = "removed"]
               /\ toRelease' = [toRelease EXCEPT ![o] = 1]
      BY <1>4, <1>6, <3>1, <3>3
    <3> QED BY <1>2, <3>2, <3>3
  <2>4. refs'[o] = 1 + (IF life'[o] = "online" THEN 1 ELSE 0) + toRelease'[o]
                     + (IF o \in checked' THEN 1 ELSE 0)
    BY <2>1, <2>2, <2>3
  <2>5. life'[o] \in {"loaded", "online", "removed"}
    BY <2>3
  <2> QED BY <1>1, <1>3, <1>4, <2>1, <2>2, <2>3, <2>4, <2>5, NewPlayerOK
<1>8. AutosendServed' /\ buffered' \subseteq Conns /\ sendAlls' \in Nat
  BY <1>1, <1>3, AutosendOK
<1>9. WellFormed'
  <2>1. checked' \subseteq Objs /\ acceptPackets' \subseteq Conns
    BY <1>1, <1>3, <1>4 DEF TypeOK
  <2> QED BY <1>1, <1>5, <1>7, <1>8, <2>1, PlainNow, PlainThen DEF Plain
<1> QED
  BY <1>5, <1>7, <1>8, <1>9 DEF IInv

LEMMA LoginReplaceOK ==
  ASSUME IInv, sockets' \subseteq Conns, NEW o \in Objs, LoginReplace(o) PROVE IInv'
<1> DEFINE d == client[o]
           e == [c |-> C, o |-> o]
<1>1. /\ tasks # <<>> /\ Head(tasks).kind = "login"
      /\ d # None /\ Shut(d, Rest)
      /\ connectEvents' = connectEvents \cup {e} /\ AddToAutosend(C)
      /\ UNCHANGED <<readPending, writePending, receivedFirst, netIn, netPc, player>>
      /\ UNCHANGED <<acceptPackets, released, client, life, refs, checked, toRelease>>
  BY DEF LoginReplace, Next1, netVars, Close
<1>2. /\ Rest \in Seq(Tasks) /\ EntersOnce(Rest) /\ LoginsFirst(Rest) /\ C \in Conns
      /\ \A k, c : Has(Rest, k, c) => Has(tasks, k, c)
      /\ C \in receivedFirst /\ C \notin released /\ player[C] = None
      /\ ~Has(Rest, "login", C) /\ ~Has(Rest, "connect", C)
      /\ \A f \in connectEvents : f.c # C
  BY <1>1, TaskTaken
<1>3. d \in Conns
  BY <1>1 DEF IInv, WellFormed, TypeOK
<1>4. e.c = C /\ e \in [c : Conns, o : Objs]
  BY <1>2
<1> HIDE DEF d, e
<1>5. /\ ListInOrder'
      /\ tasks' \in Seq(Tasks)
      /\ managed' \subseteq Conns
      /\ connState' \in [Conns -> {"none", "OPEN", "CLOSED"}]
      /\ \A c : Has(tasks', "login", c) => Has(Rest, "login", c)
      /\ \A c : Has(tasks', "connect", c) => Has(Rest, "connect", c)
  BY <1>1, <1>2, <1>3, ListClosing DEF IInv
<1>6. AttachedOnce'
  <2>1. \A f \in connectEvents' : ~Has(tasks', "login", f.c) /\ ~Has(tasks', "connect", f.c)
    BY <1>1, <1>2, <1>4, <1>5 DEF IInv, AttachedOnce
  <2>2. \A f, g \in connectEvents' : f.c = g.c => f = g
    BY <1>1, <1>2, <1>4 DEF IInv, AttachedOnce
  <2>3. \A c \in Conns : Awaited(c)' => Awaited(c) \/ c = C
    BY <1>1, <1>2, <1>4, <1>5 DEF Awaited
  <2>4. \A c \in Conns : Awaited(c)' => c \in receivedFirst' /\ player'[c] = None
    BY <1>1, <1>2, <2>3 DEF IInv, AttachedOnce
  <2> QED BY <1>1, <2>1, <2>2, <2>4 DEF IInv, AttachedOnce
<1>7. PlayersCounted'
  BY <1>1, PlayersStay DEF IInv
<1>8. AutosendServed' /\ buffered' \subseteq Conns /\ sendAlls' \in Nat
  BY <1>1, <1>2, AutosendOK
<1>9. WellFormed'
  BY <1>1, <1>4, <1>5, <1>8, PlainNow, PlainThen DEF Plain
<1> QED
  BY <1>5, <1>6, <1>7, <1>8, <1>9 DEF IInv

LEMMA LoginReconnectOK ==
  ASSUME IInv, sockets' \subseteq Conns, NEW o \in Objs, LoginReconnect(o) PROVE IInv'
<1>1. /\ tasks # <<>> /\ Head(tasks).kind = "login" /\ life[o] = "online"
      /\ tasks' = Rest /\ AddToAutosend(C)
      /\ UNCHANGED <<connState, managed, readPending, writePending, receivedFirst>>
      /\ UNCHANGED <<netIn, netPc, released, connectEvents, life, checked, toRelease>>
  BY DEF LoginReconnect, Next1, Online, connVars, netVars
<1>2. UNCHANGED <<player, refs, client, acceptPackets>> \/ Attach(C, o)
  BY DEF LoginReconnect
<1>3. C \in Conns /\ player[C] = None /\ C \notin released
  BY <1>1, TaskTaken
<1>4. PlayersCounted /\ TypeOK
  BY DEF IInv, WellFormed
<1>5. /\ PlayersCounted'
      /\ player' \in [Conns -> Objs \cup {None}]
      /\ client' \in [Objs -> Conns \cup {None}]
      /\ refs' \in [Objs -> Nat]
      /\ acceptPackets' \subseteq Conns
  <2>1. CASE UNCHANGED <<player, refs, client, acceptPackets>>
    BY <1>1, <1>4, <2>1, PlayersStay DEF TypeOK
  <2>2. CASE Attach(C, o)
    BY <1>1, <1>3, <1>4, <2>2, AttachOK
  <2> QED BY <1>2, <2>1, <2>2
<1>6. /\ ListInOrder' /\ AttachedOnce' /\ tasks' \in Seq(Tasks)
  <2>1. \A c \in Conns \ {C} : player'[c] = player[c]
    BY <1>2, <1>4 DEF Attach, TypeOK
  <2> QED BY <1>1, <2>1, EntersOK
<1>7. AutosendServed' /\ buffered' \subseteq Conns /\ sendAlls' \in Nat
  BY <1>1, <1>3, AutosendOK
<1>8. WellFormed'
  BY <1>1, <1>5, <1>6, <1>7, PlainNow, PlainThen DEF Plain
<1> QED
  BY <1>5, <1>6, <1>7, <1>8 DEF IInv

(* The event of a connection becomes its task.                             *)
LEMMA FireConnectOK ==
  ASSUME IInv, sockets' \subseteq Conns, FireConnect PROVE IInv'
<1>1. PICK e \in connectEvents : /\ connectEvents' = connectEvents \ {e}
                                 /\ tasks' = <<Task("connect", e.c, e.o)>> \o tasks
  BY DEF FireConnect
<1>2. /\ UNCHANGED <<connState, managed, readPending, writePending, receivedFirst>>
      /\ UNCHANGED <<netIn, netPc, player, acceptPackets, released, buffered, sendAlls>>
      /\ UNCHANGED <<client, life, refs, checked, toRelease>>
  BY DEF FireConnect, connVars, netVars, poolVars, playerVars
<1> DEFINE t == Task("connect", e.c, e.o)
<1>3. /\ e.c \in Conns /\ t \in Tasks /\ t.kind = "connect" /\ t.c = e.c
      /\ tasks \in Seq(Tasks)
  BY DEF IInv, WellFormed, TypeOK, Tasks, Task
<1> HIDE DEF t
<1>4. ~Has(tasks, "login", e.c) /\ ~Has(tasks, "connect", e.c)
  BY DEF IInv, AttachedOnce
<1>5. /\ tasks' \in Seq(Tasks) /\ EntersOnce(tasks') /\ LoginsFirst(tasks')
      /\ \A kind, c : Has(tasks', kind, c)
                        <=> Has(tasks, kind, c) \/ (kind = "connect" /\ c = e.c)
  <2>1. tasks' = <<t>> \o tasks
    BY <1>1 DEF t
  <2> QED BY <1>3, <1>4, <2>1, ListPrepend DEF IInv, ListInOrder
<1>6. WellFormed'
  BY <1>1, <1>2, <1>5, PlainNow, PlainThen DEF Plain
<1>7. ListInOrder'
  BY <1>2, <1>5 DEF IInv, ListInOrder
<1>8. AttachedOnce'
  <2>1. \A f \in connectEvents' : f \in connectEvents /\ f.c # e.c
    BY <1>1 DEF IInv, AttachedOnce
  <2>2. \A f \in connectEvents' : ~Has(tasks', "login", f.c) /\ ~Has(tasks', "connect", f.c)
    BY <1>5, <2>1 DEF IInv, AttachedOnce
  <2>3. \A c \in Conns : Awaited(c)' => Awaited(c)
    BY <1>5, <2>1 DEF Awaited
  <2> QED BY <1>2, <2>1, <2>2, <2>3 DEF IInv, AttachedOnce
<1>9. PlayersCounted'
  BY <1>2, PlayersStay DEF IInv
<1> QED
  BY <1>2, <1>6, <1>7, <1>8, <1>9 DEF IInv, AutosendServed

LEMMA ConnectTaskOK ==
  ASSUME IInv, sockets' \subseteq Conns, ConnectTask PROVE IInv'
<1> DEFINE o == Head(tasks).o
<1>1. /\ tasks # <<>> /\ Head(tasks).kind = "connect"
      /\ UNCHANGED <<readPending, receivedFirst, netIn, netPc, released>>
      /\ UNCHANGED <<connectEvents, buffered, sendAlls, life, checked, toRelease>>
  BY DEF ConnectTask, Next1, netVars, poolVars
<1>2. \/ /\ Send(C) /\ Shut(C, Rest)
         /\ UNCHANGED <<player, refs, client, acceptPackets>>
      \/ /\ tasks' = Rest /\ UNCHANGED <<connState, managed, writePending>>
         /\ UNCHANGED <<player, refs, client, acceptPackets>>
      \/ /\ tasks' = Rest /\ UNCHANGED <<connState, managed, writePending>>
         /\ life[o] = "online" /\ Attach(C, o)
  BY DEF ConnectTask, DisconnectClient
<1>3. C \in Conns /\ player[C] = None /\ o \in Objs
  BY <1>1, TaskTaken
<1> HIDE DEF o
<1>4. PlayersCounted /\ TypeOK
  BY DEF IInv, WellFormed
<1>5. /\ PlayersCounted'
      /\ player' \in [Conns -> Objs \cup {None}]
      /\ client' \in [Objs -> Conns \cup {None}]
      /\ refs' \in [Objs -> Nat]
      /\ acceptPackets' \subseteq Conns
  <2>1. CASE UNCHANGED <<player, refs, client, acceptPackets>>
    BY <1>1, <1>4, <2>1, PlayersStay DEF TypeOK
  <2>2. CASE life[o] = "online" /\ Attach(C, o)
    BY <1>1, <1>3, <1>4, <2>2, AttachOK
  <2> QED BY <1>2, <2>1, <2>2
<1>6. /\ ListInOrder' /\ AttachedOnce' /\ tasks' \in Seq(Tasks)
      /\ managed' \subseteq Conns
      /\ connState' \in [Conns -> {"none", "OPEN", "CLOSED"}]
  <2>1. \A c \in Conns \ {C} : player'[c] = player[c]
    BY <1>2, <1>4 DEF Attach, TypeOK
  <2> QED BY <1>1, <1>2, <2>1, EntersOK
<1>7. writePending' \subseteq Conns
  BY <1>2, <1>3, <1>4 DEF Send, TypeOK
<1>8. WellFormed'
  BY <1>1, <1>5, <1>6, <1>7, PlainNow, PlainThen DEF Plain
<1> QED
  BY <1>1, <1>5, <1>6, <1>8 DEF IInv, AutosendServed

(* ProtocolGame::release: the protocol's reference is given back.          *)
LEMMA ReleaseOK ==
  ASSUME IInv, sockets' \subseteq Conns, Release PROVE IInv'
<1> DEFINE o == player[C]
           mine == o # None /\ client[o] = C
<1>1. /\ tasks # <<>> /\ Head(tasks).kind = "release" /\ tasks' = Rest
      /\ buffered' = buffered \ {C} /\ released' = released \cup {C}
      /\ UNCHANGED <<connState, managed, readPending, writePending, receivedFirst>>
      /\ UNCHANGED <<netIn, netPc, acceptPackets, connectEvents, sendAlls, checked, toRelease>>
      /\ mine => /\ client' = [client EXCEPT ![o] = None]
                 /\ player' = [player EXCEPT ![C] = None]
                 /\ Decremented(o, 1)
      /\ ~mine => UNCHANGED <<client, player, refs, life>>
  BY DEF Release, Next1, connVars, netVars
<1>2. /\ Rest \in Seq(Tasks) /\ EntersOnce(Rest) /\ LoginsFirst(Rest) /\ C \in Conns
      /\ \A k, c : Has(Rest, k, c) => Has(tasks, k, c)
      /\ connState[C] = "CLOSED" /\ ~Has(Rest, "login", C)
  BY <1>1, TaskTaken
<1>3. PlayersCounted /\ TypeOK /\ player \in [Conns -> Objs \cup {None}]
      /\ client \in [Objs -> Conns \cup {None}] /\ None \notin Conns \cup Objs
      /\ toRelease \in [Objs -> Nat]
  BY SessionAssumption DEF IInv, WellFormed, TypeOK
<1>4. /\ PlayersCounted'
      /\ player' \in [Conns -> Objs \cup {None}]
      /\ client' \in [Objs -> Conns \cup {None}]
      /\ refs' \in [Objs -> Nat]
      /\ life' \in [Objs -> {"unused", "loaded", "online", "removed", "freed"}]
  <2>1. CASE ~mine
    BY <1>1, <1>3, <2>1, PlayersStay DEF TypeOK
  <2>2. CASE mine
    <3>0. PICK q \in Objs : q = o
      BY <1>2, <1>3, <2>2
    <3>1. /\ refs[q] >= 1 /\ refs \in [Objs -> Nat]
      BY <1>2, <1>3, <2>2, <3>0, HeldNotFreed DEF TypeOK
    <3>2. /\ client' = [client EXCEPT ![q] = None]
          /\ player' = [player EXCEPT ![C] = None]
          /\ Decremented(q, 1) /\ client[q] = C /\ player[C] = q
      BY <1>1, <2>2, <3>0
    <3> HIDE DEF o, mine
    <3>3. /\ Cardinality(Holders(q)') = Cardinality(Holders(q)) - 1
          /\ Cardinality(Holders(q)) >= 1
          /\ \A x \in Objs \ {q} : Holders(x)' = Holders(x)
      BY <1>2, <1>3, <3>2, HoldersDetach
    <3>4. ASSUME NEW x \in Objs
          PROVE  /\ Cardinality(Holders(x)') + toRelease'[x] + (IF x \in checked' THEN 1 ELSE 0)
                      = Cardinality(Holders(x)) + toRelease[x] + (IF x \in checked THEN 1 ELSE 0)
                          - (IF x = q THEN 1 ELSE 0)
                 /\ Cardinality(Holders(x)') \in Nat
      <4>1. /\ Cardinality(Holders(x)) \in Nat /\ toRelease[x] \in Nat
            /\ toRelease'[x] = toRelease[x] /\ checked' = checked
        BY <1>1, <1>3, HoldersFinite
      <4>2. CASE x = q
        BY <3>3, <4>1, <4>2
      <4>3. CASE x # q
        <5>1. Cardinality(Holders(x)') = Cardinality(Holders(x))
          BY <3>3, <4>3
        <5> QED BY <4>1, <4>3, <5>1
      <4> QED BY <4>2, <4>3
    <3>5. toRelease' \in [Objs -> Nat]
      BY <1>1, <1>3
    <3>6. PICK n \in Nat \ {0} : n = 1
      OBVIOUS
    <3>7. /\ n <= refs[q] /\ Decremented(q, n)
           /\ \A x \in Objs :
                Cardinality(Holders(x)') + toRelease'[x] + (IF x \in checked' THEN 1 ELSE 0)
                  = Cardinality(Holders(x)) + toRelease[x] + (IF x \in checked THEN 1 ELSE 0)
                      - (IF x = q THEN n ELSE 0)
           /\ \A y \in Objs : Cardinality(Holders(y)') \in Nat
      BY <3>1, <3>2, <3>4, <3>6
    <3>8. /\ RefsAccounted'
          /\ refs' \in [Objs -> Nat]
          /\ life' \in [Objs -> {"unused", "loaded", "online", "removed", "freed"}]
          /\ \A x, y \in Objs : life'[x] = "online" /\ life'[y] = "online" => x = y
          /\ \A x \in Objs : life'[x] = "unused" => refs'[x] = 0
      BY <1>3, <3>5, <3>7, DecrementedOK
    <3>9. /\ player' \in [Conns -> Objs \cup {None}]
          /\ client' \in [Objs -> Conns \cup {None}]
          /\ \A x \in Objs : client'[x] # None => player'[client'[x]] = x
      BY <1>2, <1>3, <3>1, <3>2 DEF PlayersCounted
    <3> QED BY <3>8, <3>9 DEF PlayersCounted, Online
  <2> QED BY <2>1, <2>2
<1>5. ListInOrder'
  BY <1>1, <1>2 DEF IInv, ListInOrder
<1>6. AttachedOnce'
  <2>1. \A c \in Conns : player'[c] = player[c] \/ player'[c] = None
    BY <1>1, <1>3
  <2> QED BY <1>1, <1>2, <2>1, AwaitedFewer DEF IInv
<1>7. AutosendServed'
  BY <1>1 DEF IInv, AutosendServed
<1>8. WellFormed'
  BY <1>1, <1>2, <1>4, PlainNow, PlainThen DEF Plain
<1> QED
  BY <1>4, <1>5, <1>6, <1>7, <1>8 DEF IInv

-----------------------------------------------------------------------------
LEMMA InitOK == Init => IInv
<1> SUFFICES ASSUME Init PROVE IInv
  OBVIOUS
<1>1. tasks = <<>> /\ \A kind, c : ~Has(tasks, kind, c)
  BY DEF Init, Has
<1>2. WellFormed
  BY <1>1 DEF Init, WellFormed, TypeOK
<1>3. ListInOrder
  BY <1>1 DEF Init, ListInOrder, EntersOnce, LoginsFirst
<1>4. AttachedOnce
  BY <1>1 DEF Init, AttachedOnce, Awaited
<1>5. PlayersCounted
  <2>1. \A o \in Objs : Holders(o) = {}
    BY SessionAssumption DEF Init, Holders
  <2>2. \A o \in Objs : Cardinality(Holders(o)) = 0
    BY <2>1, FS_EmptySet
  <2> QED BY <2>2 DEF Init, PlayersCounted, RefsAccounted, Online
<1> QED
  BY <1>2, <1>3, <1>4, <1>5 DEF Init, IInv, AutosendServed

(* Sockets are those of connections, whatever happens to them.             *)
LEMMA SocketsTyped ==
  ASSUME IInv, [Next]_vars PROVE sockets' \subseteq Conns
<1> DEFINE Typed == sockets' \subseteq Conns
<1>1. sockets \subseteq Conns
  BY PlainNow DEF Plain
<1>2. ASSUME NEW c, NEW force, NEW rest, Close(c, force, rest) PROVE Typed
  BY <1>1, <1>2 DEF Close
<1>3. CASE UNCHANGED sockets
  BY <1>1, <1>3
<1>4. CASE \E c \in Conns : Accept(c) \/ WriteDone(c)
  BY <1>1, <1>4 DEF Accept, WriteDone
<1>5. CASE \E c \in Conns : BeginRead(c) \/ WriteError(c) \/ IOTimeout(c)
  BY <1>2, <1>3, <1>5 DEF BeginRead, WriteError, IOTimeout
<1>6. CASE ReadFirst \/ ReadPacket \/ ReadError \/ ReadClosed
  BY <1>2, <1>3, <1>6 DEF ReadFirst, ReadPacket, ReadError, ReadClosed, connVars
<1>7. CASE HandlerReturns
  BY <1>1, <1>7 DEF HandlerReturns
<1>8. CASE OnConnect \/ ConnectTask \/ LogoutTask \/ Release \/ FireConnect \/ SendAll
  BY <1>2, <1>3, <1>8 DEF OnConnect, ConnectTask, LogoutTask, Release, FireConnect, SendAll,
     DisconnectClient, connVars
<1>9. CASE \E o \in Objs :
             LoginRefused(o) \/ LoginNew(o) \/ LoginReplace(o) \/ LoginReconnect(o)
  BY <1>2, <1>3, <1>9 DEF LoginRefused, LoginNew, LoginReplace, LoginReconnect,
     DisconnectClient, connVars
<1>10. CASE \E o \in Objs : Kick(o) \/ Death(o) \/ CheckCreatures(o)
  BY <1>2, <1>3, <1>10 DEF Kick, Death, CheckCreatures, connVars
<1>11. CASE UNCHANGED vars
  BY <1>3, <1>11 DEF vars, connVars
<1> QED
  BY <1>4, <1>5, <1>6, <1>7, <1>8, <1>9, <1>10, <1>11 DEF Next, NetworkStep, DispatcherStep

LEMMA StepOK ==
  ASSUME IInv, [Next]_vars PROVE IInv'
<1>0. sockets' \subseteq Conns
  BY SocketsTyped
<1>1. CASE UNCHANGED vars
  <2>1. /\ UNCHANGED <<connState, managed, readPending, writePending, receivedFirst>>
        /\ UNCHANGED <<netIn, netPc, player, acceptPackets, released, connectEvents>>
        /\ UNCHANGED <<buffered, sendAlls, client, life, refs, checked, toRelease, tasks>>
    BY <1>1 DEF vars, connVars, netVars, protoVars, poolVars, playerVars
  <2>2. WellFormed' /\ AutosendServed'
    BY <1>0, <2>1 DEF IInv, WellFormed, TypeOK, AutosendServed
  <2> QED BY <2>1, <2>2, NothingElse
<1>2. CASE \E c \in Conns : Accept(c)
  BY <1>0, <1>2, AcceptOK
<1>3. CASE \/ \E c \in Conns : BeginRead(c) \/ WriteDone(c)
           \/ ReadClosed \/ HandlerReturns \/ SendAll
  BY <1>0, <1>3, ReadsAndWritesOK
<1>4. CASE \E c \in Conns : WriteError(c) \/ IOTimeout(c)
  BY <1>0, <1>4, WriteErrorOK
<1>5. CASE ReadFirst \/ ReadPacket \/ ReadError
  BY <1>0, <1>5, ReadFirstOK, ReadPacketOK, ReadErrorOK
<1>6. CASE OnConnect \/ ConnectTask \/ LogoutTask \/ Release \/ FireConnect
  BY <1>0, <1>6, OnConnectOK, ConnectTaskOK, LogoutTaskOK, ReleaseOK, FireConnectOK
<1>7. CASE \E o \in Objs :
             LoginRefused(o) \/ LoginNew(o) \/ LoginReplace(o) \/ LoginReconnect(o)
  BY <1>0, <1>7, LoginRefusedOK, LoginNewOK, LoginReplaceOK, LoginReconnectOK
<1>8. CASE \E o \in Objs : Kick(o) \/ Death(o) \/ CheckCreatures(o)
  BY <1>0, <1>8, KickOK, CheckCreaturesOK
<1> QED
  BY <1>1, <1>2, <1>3, <1>4, <1>5, <1>6, <1>7, <1>8 DEF Next, NetworkStep, DispatcherStep

LEMMA Invariance == Spec => []IInv
BY InitOK, StepOK, PTL DEF Spec

(* At most one Player object of the character is in the world.             *)
LEMMA OneOnline ==
  ASSUME PlayersCounted PROVE Cardinality(Online) <= 1
<1>1. CASE Online = {}
  BY <1>1, FS_EmptySet
<1>2. CASE Online # {}
  <2>1. PICK o \in Online : TRUE
    BY <1>2
  <2>2. Online = {o}
    BY DEF PlayersCounted
  <2>3. Cardinality({o}) = 1
    BY FS_Singleton
  <2> QED BY <2>2, <2>3
<1> QED
  BY <1>1, <1>2

(* While the network thread is in parsePacket of an OPEN connection,       *)
(* release() of that protocol has not run, because it is posted by the     *)
(* step that ends OPEN; and the Player it finds there has the reference of *)
(* that protocol.                                                          *)
LEMMA ReaderHolds == IInv => ReaderSafe
<1> SUFFICES ASSUME IInv, netPc = "in", connState[netIn] = "OPEN"
             PROVE  /\ netIn \notin released
                    /\ player[netIn] # None => life[player[netIn]] # "freed"
  BY DEF ReaderSafe
<1>1. netIn \in Conns
  BY Reading
<1> QED
  BY <1>1, HeldNotFreed DEF IInv, WellFormed, ListInOrder

-----------------------------------------------------------------------------
(* Reference counts, ProtocolGame::player and Player::client agree         *)
(* whatever the two threads do, for any number of connections, and the     *)
(* character is in the world at most once.                                 *)
THEOREM SessionsAgree == Spec => []ReferencesAgree
<1>1. IInv => ReferencesAgree
  BY OneOnline DEF IInv, WellFormed, PlayersCounted, ReferencesAgree, ClientAgrees
<1> QED
  BY <1>1, Invariance, PTL

(* parsePacket's unsynchronised use of ProtocolGame::player never meets a  *)
(* protocol that was released or a Player that was freed.                  *)
THEOREM ReaderNeverDangles == Spec => []ReaderSafe
BY ReaderHolds, Invariance, PTL

(* OutputMessagePool: a protocol in the autosend list always has a sendAll *)
(* event to come, and a released protocol is not in the list.              *)
THEOREM AutosendKept == Spec => []AutosendServed
<1>1. IInv => AutosendServed
  BY DEF IInv
<1> QED
  BY <1>1, Invariance, PTL

-----------------------------------------------------------------------------
(* Creatures: the values of its state.                                     *)

Statuses == {"none", "placed", "removed"}
Somebody == Creatures \cup {Nobody}
Keys == Blocks \cup {Stray, NotSpawned}

Worlds ==
  [status : [Creatures -> Statuses], where : [Creatures -> Places],
   alive : [Creatures -> BOOLEAN], attacked : [Creatures -> Somebody],
   follow : [Creatures -> Somebody], master : [Creatures -> Somebody],
   summons : [Creatures -> SUBSET Creatures], targets : [Monsters -> SUBSET Creatures],
   idle : [Monsters -> BOOLEAN], afflicted : SUBSET Monsters,
   check : [Creatures -> BOOLEAN], listed : [Creatures -> BOOLEAN],
   release : [Creatures -> Nat], spawned : [Monsters -> Keys], spawnEvent : BOOLEAN,
   minded : Nat]

(* What x attacks and follows is in the game and on its floor.  While the  *)
(* move of k is told, x may have lost sight of it.                         *)
Fit(w, x, t, k) ==
  \/ t = Nobody
  \/ t \in Creatures /\ w.status[t] = "placed" /\ OnFloor(w, x, t)
  \/ t \in Creatures /\ k \in {x, t} /\ ~OnFloor(w, x, t)

Fits(w, x, k) ==
  w.status[x] = "placed" => Fit(w, x, w.attacked[x], k) /\ Fit(w, x, w.follow[x], k)

(* An object that is not made yet.                                         *)
Fresh(w, x) ==
  w.status[x] = "none" =>
    /\ w.attacked[x] = Nobody /\ w.follow[x] = Nobody
    /\ w.master[x] = Nobody /\ w.summons[x] = {} /\ w.alive[x] = TRUE
    /\ w.listed[x] = FALSE
    /\ x \in Monsters => w.spawned[x] = NotSpawned

(* Who must act, or be removed, is visited.  A player always is.           *)
Visited(w, x) ==
  /\ w.status[x] = "placed"
  /\ x \in Monsters => w.alive[x] = FALSE \/ w.idle[x] = FALSE
  => w.check[x] = TRUE /\ w.listed[x] = TRUE

(* Told of something, creatures wake, go idle, or let go of a target.      *)
Drops(w, v) ==
  /\ v \in Worlds
  /\ v.status = w.status /\ v.where = w.where /\ v.alive = w.alive
  /\ v.master = w.master /\ v.summons = w.summons /\ v.afflicted = w.afflicted
  /\ v.release = w.release /\ v.spawned = w.spawned /\ v.minded = w.minded /\ v.spawnEvent = w.spawnEvent
  /\ \A y \in Creatures : v.attacked[y] \in {w.attacked[y], Nobody}
                          /\ v.follow[y] \in {w.follow[y], Nobody}
  /\ \A y \in Creatures : v.listed[y] = w.listed[y] \/ w.status[y] # "none"
  /\ \A y \in Creatures : Visited(w, y) => Visited(v, y)

LEMMA DropsTwice ==
  ASSUME NEW w, NEW v, NEW u, Drops(w, v), Drops(v, u)
  PROVE  Drops(w, u)
BY DEF Drops

LEMMA Kinds == Monsters \subseteq Creatures /\ Players \subseteq Creatures /\ Nobody \notin Creatures
               /\ Players \cap Monsters = {} /\ Creatures \subseteq Somebody /\ Nobody \in Somebody
               /\ \A c \in Creatures : c \in Players \/ c \in Monsters
BY CreaturesAssumption DEF Creatures, Somebody

LEMMA SetIdleDrops ==
  ASSUME NEW w \in Worlds, NEW x \in Monsters, w.status[x] # "none", NEW b \in BOOLEAN
  PROVE  Drops(w, SetIdle(w, x, b))
<1>1. PICK v : v = SetIdle(w, x, b)
  OBVIOUS
<1>2. CASE w.status[x] = "removed" \/ ~w.alive[x]
  BY <1>1, <1>2 DEF SetIdle, Drops
<1>3. CASE ~(w.status[x] = "removed" \/ ~w.alive[x]) /\ b
  <2>1. PICK i, t, k : /\ i = [w.idle EXCEPT ![x] = TRUE] /\ t = [w.targets EXCEPT ![x] = {}]
                       /\ k = [w.check EXCEPT ![x] = FALSE]
    OBVIOUS
  <2>2. /\ i \in [Monsters -> BOOLEAN] /\ t \in [Monsters -> SUBSET Creatures]
        /\ k \in [Creatures -> BOOLEAN]
    BY <2>1 DEF Worlds
  <2>3. v = [w EXCEPT !.idle = i, !.targets = t, !.check = k]
    BY <1>1, <1>3, <2>1 DEF SetIdle, Worlds
  <2>4. v \in Worlds
    BY <2>2, <2>3 DEF Worlds
  <2>5. /\ v.status = w.status /\ v.where = w.where /\ v.alive = w.alive
        /\ v.master = w.master /\ v.summons = w.summons /\ v.afflicted = w.afflicted
        /\ v.release = w.release /\ v.spawned = w.spawned /\ v.minded = w.minded /\ v.spawnEvent = w.spawnEvent
        /\ v.attacked = w.attacked /\ v.follow = w.follow /\ v.listed = w.listed
        /\ v.idle = i /\ v.targets = t /\ v.check = k
    BY <2>3 DEF Worlds
  <2>6. ASSUME NEW y \in Creatures, Visited(w, y) PROVE Visited(v, y)
    <3>1. CASE y # x
      <4>1. k[y] = w.check[y] /\ (y \in Monsters => i[y] = w.idle[y])
        BY <2>1, <3>1 DEF Worlds
      <4> QED BY <2>5, <2>6, <4>1 DEF Visited
    <3>2. CASE y = x
      <4>1. i[x] = TRUE /\ w.alive[x] = TRUE
        BY <1>3, <2>1, Kinds DEF Worlds
      <4> QED BY <2>5, <3>2, <4>1 DEF Visited
    <3> QED BY <3>1, <3>2
  <2> QED BY <1>1, <2>4, <2>5, <2>6 DEF Drops
<1>4. CASE ~(w.status[x] = "removed" \/ ~w.alive[x]) /\ ~b
  <2>1. PICK i, k, l : /\ i = [w.idle EXCEPT ![x] = FALSE] /\ k = [w.check EXCEPT ![x] = TRUE]
                       /\ l = [w.listed EXCEPT ![x] = TRUE]
    OBVIOUS
  <2>2. /\ i \in [Monsters -> BOOLEAN] /\ k \in [Creatures -> BOOLEAN]
        /\ l \in [Creatures -> BOOLEAN]
    BY <2>1 DEF Worlds
  <2>3. v = [w EXCEPT !.idle = i, !.check = k, !.listed = l]
    BY <1>1, <1>4, <2>1 DEF SetIdle, Worlds
  <2>4. v \in Worlds
    BY <2>2, <2>3 DEF Worlds
  <2>5. /\ v.status = w.status /\ v.where = w.where /\ v.alive = w.alive
        /\ v.master = w.master /\ v.summons = w.summons /\ v.afflicted = w.afflicted
        /\ v.release = w.release /\ v.spawned = w.spawned /\ v.minded = w.minded /\ v.spawnEvent = w.spawnEvent
        /\ v.attacked = w.attacked /\ v.follow = w.follow /\ v.targets = w.targets
        /\ v.idle = i /\ v.check = k /\ v.listed = l
        /\ \A y \in Creatures : l[y] = w.listed[y] \/ w.status[y] # "none"
    BY <2>1, <2>3 DEF Worlds
  <2>6. ASSUME NEW y \in Creatures, Visited(w, y) PROVE Visited(v, y)
    <3>1. CASE y # x
      <4>1. k[y] = w.check[y] /\ l[y] = w.listed[y] /\ (y \in Monsters => i[y] = w.idle[y])
        BY <2>1, <3>1 DEF Worlds
      <4> QED BY <2>5, <2>6, <4>1 DEF Visited
    <3>2. CASE y = x
      <4>1. k[x] = TRUE /\ l[x] = TRUE
        BY <2>1, Kinds DEF Worlds
      <4> QED BY <2>5, <3>2, <4>1 DEF Visited
    <3> QED BY <3>1, <3>2
  <2> QED BY <1>1, <2>4, <2>5, <2>6 DEF Drops
<1> QED BY <1>2, <1>3, <1>4

LEMMA DropsSame ==
  ASSUME NEW w \in Worlds
  PROVE  Drops(w, w)
BY DEF Drops, Worlds

LEMMA UpdateIdleDrops ==
  ASSUME NEW w \in Worlds, NEW x \in Monsters, w.status[x] # "none"
  PROVE  Drops(w, UpdateIdleStatus(w, x))
<1>1. PICK b : b = (x \notin w.afflicted /\ ~IsSummon(w, x) /\ w.targets[x] = {})
  OBVIOUS
<1>2. b \in BOOLEAN
  BY <1>1
<1> QED BY <1>1, <1>2, SetIdleDrops DEF UpdateIdleStatus

(* A list of targets changes.                                              *)
LEMMA TargetsDrop ==
  ASSUME NEW w \in Worlds, NEW x \in Monsters, NEW S \in SUBSET Creatures,
         NEW v, v = [w EXCEPT !.targets[x] = S]
  PROVE  Drops(w, v)
<1>1. PICK t : t = [w.targets EXCEPT ![x] = S]
  OBVIOUS
<1>2. t \in [Monsters -> SUBSET Creatures]
  BY <1>1 DEF Worlds
<1>3. v = [w EXCEPT !.targets = t]
  BY <1>1 DEF Worlds
<1>4. v \in Worlds
  BY <1>2, <1>3 DEF Worlds
<1>5. /\ v.status = w.status /\ v.where = w.where /\ v.alive = w.alive
      /\ v.master = w.master /\ v.summons = w.summons /\ v.afflicted = w.afflicted
      /\ v.release = w.release /\ v.spawned = w.spawned /\ v.minded = w.minded /\ v.spawnEvent = w.spawnEvent
      /\ v.attacked = w.attacked /\ v.follow = w.follow
      /\ v.idle = w.idle /\ v.check = w.check /\ v.listed = w.listed
  BY <1>3 DEF Worlds
<1> QED BY <1>4, <1>5 DEF Drops, Visited

LEMMA FoundDrops ==
  ASSUME NEW w \in Worlds, NEW x \in Monsters, w.status[x] # "none", NEW c \in Creatures
  PROVE  Drops(w, OnCreatureFound(w, x, c))
<1>1. PICK S : S = IF IsOpponent(w, x, c) THEN w.targets[x] \cup {c} ELSE w.targets[x]
  OBVIOUS
<1>2. S \in SUBSET Creatures
  BY <1>1 DEF Worlds
<1>3. PICK v : v = [w EXCEPT !.targets[x] = S]
  OBVIOUS
<1>4. OnCreatureFound(w, x, c) = UpdateIdleStatus(v, x)
  BY <1>1, <1>3 DEF OnCreatureFound
<1>5. Drops(w, v)
  BY <1>2, <1>3, TargetsDrop
<1>6. Drops(v, UpdateIdleStatus(v, x))
  BY <1>5, UpdateIdleDrops DEF Drops
<1> QED BY <1>4, <1>5, <1>6, DropsTwice

LEMMA LeaveDrops ==
  ASSUME NEW w \in Worlds, NEW x \in Monsters, w.status[x] # "none", NEW c \in Creatures
  PROVE  Drops(w, OnCreatureLeave(w, x, c))
<1>1. PICK S : S = IF IsOpponent(w, x, c) THEN w.targets[x] \ {c} ELSE w.targets[x]
  OBVIOUS
<1>2. S \in SUBSET Creatures
  BY <1>1 DEF Worlds
<1>3. PICK v : v = [w EXCEPT !.targets[x] = S]
  OBVIOUS
<1>4. OnCreatureLeave(w, x, c) \in {v, UpdateIdleStatus(v, x)}
  BY <1>1, <1>3 DEF OnCreatureLeave
<1>5. Drops(w, v)
  BY <1>2, <1>3, TargetsDrop
<1>6. Drops(v, UpdateIdleStatus(v, x))
  BY <1>5, UpdateIdleDrops DEF Drops
<1> QED BY <1>4, <1>5, <1>6, DropsTwice

-----------------------------------------------------------------------------
(* Loops.                                                                  *)

One(T) == CHOOSE x \in T : TRUE

LEMMA OneOf ==
  ASSUME NEW T, T # {}
  PROVE  One(T) \in T
BY DEF One

LEMMA Induction ==
  ASSUME NEW S, 0 \in S, \A n \in Nat : n \in S => n + 1 \in S
  PROVE  Nat \subseteq S
<1>1. IsWellFoundedOn(OpToRel(<, Nat), Nat)
  BY NatLessThanWellFounded
<1> SUFFICES ASSUME Nat \ S # {} PROVE FALSE
  OBVIOUS
<1>2. \E x \in Nat \ S : \A y \in Nat \ S : ~ (<<y, x>> \in OpToRel(<, Nat))
  BY <1>1, WFMin, Zenon
<1>3. PICK x \in Nat \ S : \A y \in Nat \ S : ~ (<<y, x>> \in OpToRel(<, Nat))
  BY <1>2
<1>4. x \in Nat /\ x # 0
  OBVIOUS
<1>5. PICK y \in Nat : x = y + 1
  BY <1>4
<1>6. <<y, x>> \in OpToRel(<, Nat)
  BY <1>4, <1>5 DEF OpToRel
<1>7. y \in S
  BY <1>3, <1>6
<1> QED BY <1>5, <1>7

(* What holds of nothing, and of a finite set if it does of it without one *)
(* of its elements, holds of all.                                          *)
LEMMA OneByOne ==
  ASSUME NEW S, IsFiniteSet(S), NEW good, {} \in good,
         \A T \in SUBSET S : T # {} /\ T \ {One(T)} \in good => T \in good
  PROVE  \A T \in SUBSET S : T \in good
<1>1. \A T \in SUBSET S : IsFiniteSet(T) /\ Cardinality(T) \in Nat
  BY FS_Subset, FS_CardinalityType
<1> DEFINE D == {n \in Nat : \A T \in SUBSET S : Cardinality(T) <= n => T \in good}
<1>2. 0 \in D
  <2>1. ASSUME NEW T \in SUBSET S, Cardinality(T) <= 0 PROVE T \in good
    <3>1. IsFiniteSet(T) /\ Cardinality(T) = 0
      BY <1>1, <2>1
    <3>2. T = {}
      BY <3>1, FS_EmptySet
    <3> QED BY <3>2
  <2> QED BY <2>1
<1>3. ASSUME NEW n \in Nat, n \in D PROVE n + 1 \in D
  <2>1. ASSUME NEW T \in SUBSET S, Cardinality(T) <= n + 1, T # {} PROVE T \in good
    <3>1. One(T) \in T
      BY <2>1, OneOf
    <3>2. T \ {One(T)} \in SUBSET S /\ Cardinality(T \ {One(T)}) = Cardinality(T) - 1
      BY <1>1, <3>1, FS_RemoveElement
    <3>3. T \ {One(T)} \in good
      BY <1>1, <1>3, <2>1, <3>2
    <3> QED BY <2>1, <3>3
  <2>2. \A T \in SUBSET S : Cardinality(T) <= n + 1 => T \in good
    BY <2>1
  <2> QED BY <2>2
<1>4. Nat \subseteq D
  <2> HIDE DEF D
  <2> QED BY <1>2, <1>3, Induction
<1> QED BY <1>1, <1>4

(* f has the states of a loop over S that starts at v.                     *)
Loop(f, S, W, v, F) ==
  /\ f \in [SUBSET S -> W]
  /\ f[{}] = v
  /\ \A T \in SUBSET S : T # {} => f[T] = F[<<f[T \ {One(T)}], One(T)>>]

LEMMA LoopExists ==
  ASSUME NEW S, IsFiniteSet(S), NEW W, NEW v \in W, NEW F \in [W \X S -> W]
  PROVE  \E f : Loop(f, S, W, v, F)
<1> DEFINE Small(n) == {T \in SUBSET S : Cardinality(T) <= n}
           Step(f, T) == IF T = {} THEN v ELSE F[<<f[T \ {One(T)}], One(T)>>]
           Is(f, n) == f \in [Small(n) -> W] /\ \A T \in Small(n) : f[T] = Step(f, T)
           Works(n) == \E f : Is(f, n)
           D == {n \in Nat : Works(n)}
<1>1. \A T \in SUBSET S : IsFiniteSet(T) /\ Cardinality(T) \in Nat
  BY FS_Subset, FS_CardinalityType
<1>2. \A T \in SUBSET S : T # {} => /\ One(T) \in S /\ T \ {One(T)} \in SUBSET S
                                   /\ Cardinality(T \ {One(T)}) = Cardinality(T) - 1
  BY <1>1, OneOf, FS_RemoveElement
<1>3. 0 \in D
  <2>1. Small(0) = {{}}
    BY <1>1, FS_EmptySet
  <2>2. PICK f : f = [T \in Small(0) |-> v]
    OBVIOUS
  <2>3. Is(f, 0)
    BY <2>1, <2>2
  <2> QED BY <2>3
<1>4. ASSUME NEW n \in Nat, n \in D PROVE n + 1 \in D
  <2>1. PICK f : Is(f, n)
    BY <1>4
  <2>2. PICK g : g = [T \in Small(n + 1) |-> Step(f, T)]
    OBVIOUS
  <2>3. ASSUME NEW T \in Small(n + 1) PROVE g[T] \in W /\ g[T] = Step(g, T)
    <3>1. CASE T = {}
      BY <2>2, <3>1
    <3>2. CASE T # {}
      <4>1. PICK U : U = T \ {One(T)}
        OBVIOUS
      <4>2. U \in Small(n) /\ One(T) \in S /\ U \in Small(n + 1)
        BY <1>1, <1>2, <3>2, <4>1
      <4>3. f[U] \in W /\ f[U] = Step(f, U)
        BY <2>1, <4>2
      <4>4. g[U] = f[U]
        BY <2>2, <4>2, <4>3
      <4>5. g[T] = F[<<f[U], One(T)>>]
        BY <2>2, <3>2, <4>1
      <4> QED BY <3>2, <4>1, <4>2, <4>3, <4>4, <4>5
    <3> QED BY <3>1, <3>2
  <2>4. Is(g, n + 1)
    BY <2>2, <2>3
  <2>5. Works(n + 1)
    BY <2>4
  <2> HIDE DEF Works
  <2> QED BY <2>5
<1>5. Nat \subseteq D
  <2> HIDE DEF D
  <2> QED BY <1>3, <1>4, Induction
<1>6. PICK f : Is(f, Cardinality(S))
  BY <1>1, <1>5
<1>7. Small(Cardinality(S)) = SUBSET S
  BY <1>1, FS_Subset
<1>8. Loop(f, S, W, v, F)
  BY <1>6, <1>7 DEF Loop
<1> QED BY <1>8

(* Update: what is still seen stays a target, and each spectator is found. *)
LEMMA UpdateTargetsDrop ==
  ASSUME NEW w \in Worlds, NEW x \in Monsters, w.status[x] # "none"
  PROVE  Drops(w, UpdateTargetList(w, x))
<1>1. PICK v : v = [w EXCEPT !.targets[x] = {c \in w.targets[x] : w.alive[c] /\ Sees(w, x, c)}]
  OBVIOUS
<1>2. Drops(w, v)
  <2>1. PICK R : R = {c \in w.targets[x] : w.alive[c] /\ Sees(w, x, c)}
    OBVIOUS
  <2>2. R \in SUBSET Creatures
    BY <2>1 DEF Worlds
  <2>3. v = [w EXCEPT !.targets[x] = R]
    BY <1>1, <2>1
  <2> QED BY <2>2, <2>3, TargetsDrop
<1>3. PICK S : S = Spectators(w, x) \ {x}
  OBVIOUS
<1>4. S \subseteq Creatures /\ IsFiniteSet(S)
  BY <1>3, CreaturesAssumption, FS_Subset DEF Spectators, Placed
<1> DEFINE Step(u, y) == OnCreatureFound(u, x, y)
           Told(g) == g = [T \in SUBSET S |-> IF T = {} THEN v ELSE Step(g[T \ {One(T)}], One(T))]
<1>5. PICK W : W = {u \in Worlds : u.status = w.status}
  OBVIOUS
<1>12. \A u \in W, y \in S : Drops(u, Step(u, y)) /\ Step(u, y) \in W
  BY <1>4, <1>5, FoundDrops DEF Drops
<1>6. \E g : Told(g)
  <2>1. PICK F : F = [p \in W \X S |-> Step(p[1], p[2])]
    OBVIOUS
  <2>2. F \in [W \X S -> W]
    BY <1>12, <2>1
  <2>3. v \in W
    BY <1>2, <1>5 DEF Drops
  <2>4. PICK f : Loop(f, S, W, v, F)
    BY <1>4, <2>2, <2>3, LoopExists
  <2>5. ASSUME NEW T \in SUBSET S
        PROVE f[T] = IF T = {} THEN v ELSE Step(f[T \ {One(T)}], One(T))
    <3>1. T # {} => f[T \ {One(T)}] \in W /\ One(T) \in S
      BY <2>4, OneOf DEF Loop
    <3> QED BY <2>1, <2>4, <3>1 DEF Loop
  <2>6. Told(f)
    BY <2>4, <2>5 DEF Loop
  <2> QED BY <2>6
<1>7. PICK g : Told(g) /\ UpdateTargetList(w, x) = g[S]
  <2>1. PICK g : g = CHOOSE f : Told(f)
    OBVIOUS
  <2>2. Told(g)
    BY <1>6, <2>1
  <2>3. UpdateTargetList(w, x) = g[S]
    BY <1>1, <1>3, <2>1 DEF UpdateTargetList, Each, One
  <2> QED BY <2>2, <2>3
<1>8. PICK good : good = {T \in SUBSET S : Drops(w, g[T])}
  OBVIOUS
<1>9. {} \in good
  BY <1>2, <1>7, <1>8
<1>10. ASSUME NEW T \in SUBSET S, T # {}, T \ {One(T)} \in good PROVE T \in good
  <2>1. PICK y, u : y = One(T) /\ u = g[T \ {One(T)}]
    OBVIOUS
  <2>2. y \in S /\ g[T] = Step(u, y)
    BY <1>7, <1>10, <2>1, OneOf
  <2>3. Drops(w, u)
    BY <1>8, <1>10, <2>1
  <2>4. Drops(u, g[T])
    <3>1. u \in W
      BY <1>5, <2>3 DEF Drops
    <3> HIDE DEF Step
    <3> QED BY <1>12, <2>2, <3>1
  <2> QED BY <1>8, <2>3, <2>4, DropsTwice
<1>11. S \in good
  BY <1>4, <1>9, <1>10, OneByOne
<1> QED BY <1>7, <1>8, <1>11

LEMMA AppearDrops ==
  ASSUME NEW w \in Worlds, NEW x \in Creatures, w.status[x] # "none", NEW c \in Creatures
  PROVE  Drops(w, Appear(w, x, c))
<1>1. CASE x \notin Monsters
  BY <1>1, DropsSame DEF Appear
<1>2. CASE x \in Monsters /\ x = c
  <2>1. PICK u : u = UpdateTargetList(w, x)
    OBVIOUS
  <2>2. Drops(w, u)
    BY <1>2, <2>1, UpdateTargetsDrop
  <2>3. Drops(u, UpdateIdleStatus(u, x))
    BY <1>2, <2>2, UpdateIdleDrops DEF Drops
  <2>4. Appear(w, x, c) = UpdateIdleStatus(u, x)
    BY <1>2, <2>1 DEF Appear
  <2> QED BY <2>2, <2>3, <2>4, DropsTwice
<1>3. CASE x \in Monsters /\ x # c
  BY <1>3, FoundDrops DEF Appear
<1> QED BY <1>1, <1>2, <1>3

-----------------------------------------------------------------------------
(* Letting go of targets.                                                  *)

LEMMA HouseholdOf ==
  ASSUME NEW w \in Worlds, NEW X \in SUBSET Creatures
  PROVE  X \subseteq Household(w, X) /\ Household(w, X) \subseteq Creatures
<1>1. PICK one : one = X \cup UNION {w.summons[x] : x \in X}
  OBVIOUS
<1>2. one \subseteq Creatures
  BY <1>1 DEF Worlds
<1>3. Household(w, X) = one \cup UNION {w.summons[x] : x \in one}
  BY <1>1 DEF Household
<1> QED BY <1>1, <1>2, <1>3 DEF Worlds

(* The pointers are other ones.                                            *)
Pointed(w, v, a, f) ==
  /\ v \in Worlds
  /\ v.status = w.status /\ v.where = w.where /\ v.alive = w.alive
  /\ v.master = w.master /\ v.summons = w.summons /\ v.afflicted = w.afflicted
  /\ v.release = w.release /\ v.spawned = w.spawned /\ v.minded = w.minded /\ v.spawnEvent = w.spawnEvent
  /\ v.idle = w.idle /\ v.check = w.check /\ v.listed = w.listed
  /\ v.targets = w.targets /\ v.attacked = a /\ v.follow = f

LEMMA PointersSet ==
  ASSUME NEW w \in Worlds, NEW a \in [Creatures -> Somebody], NEW f \in [Creatures -> Somebody],
         NEW v, v = [w EXCEPT !.attacked = a, !.follow = f]
  PROVE  Pointed(w, v, a, f)
<1>1. v \in Worlds
  BY DEF Worlds
<1> QED BY <1>1 DEF Worlds, Pointed

LEMMA StopAttackDrops ==
  ASSUME NEW w \in Worlds, NEW X \in SUBSET Creatures
  PROVE  /\ Drops(w, StopAttack(w, X))
         /\ \A x \in X : StopAttack(w, X).attacked[x] = Nobody
         /\ StopAttack(w, X).follow = w.follow /\ StopAttack(w, X).targets = w.targets
         /\ StopAttack(w, X).idle = w.idle /\ StopAttack(w, X).check = w.check
         /\ StopAttack(w, X).listed = w.listed
<1>1. PICK H : H = Household(w, X)
  OBVIOUS
<1>2. PICK a : a = [x \in Creatures |-> IF x \in H THEN Nobody ELSE w.attacked[x]]
  OBVIOUS
<1>3. PICK v : v = StopAttack(w, X)
  OBVIOUS
<1>4. a \in [Creatures -> Somebody] /\ w.follow \in [Creatures -> Somebody]
  BY <1>2, Kinds DEF Worlds
<1>5. v = [w EXCEPT !.attacked = a, !.follow = w.follow]
  BY <1>1, <1>2, <1>3 DEF StopAttack, Worlds
<1>6. \A y \in Creatures : a[y] \in {w.attacked[y], Nobody}
  BY <1>2
<1>7. \A x \in X : a[x] = Nobody
  BY <1>1, <1>2, HouseholdOf
<1>8. Pointed(w, v, a, w.follow)
  BY <1>4, <1>5, PointersSet, Zenon
<1>9. Drops(w, v)
  BY <1>6, <1>8 DEF Drops, Visited, Pointed
<1> QED BY <1>3, <1>7, <1>8, <1>9 DEF Pointed

LEMMA FollowNobodyDrops ==
  ASSUME NEW w \in Worlds, NEW x \in Creatures, NEW v, v = [w EXCEPT !.follow[x] = Nobody]
  PROVE  Drops(w, v) /\ v.follow[x] = Nobody /\ v.attacked = w.attacked
<1>1. PICK f : f = [w.follow EXCEPT ![x] = Nobody]
  OBVIOUS
<1>2. f \in [Creatures -> Somebody] /\ w.attacked \in [Creatures -> Somebody]
  BY <1>1, Kinds DEF Worlds
<1>3. v = [w EXCEPT !.attacked = w.attacked, !.follow = f]
  BY <1>1 DEF Worlds
<1>4. f[x] = Nobody /\ \A y \in Creatures : f[y] \in {w.follow[y], Nobody}
  BY <1>1 DEF Worlds
<1>5. Pointed(w, v, w.attacked, f)
  BY <1>2, <1>3, PointersSet, Zenon
<1>6. Drops(w, v)
  BY <1>4, <1>5 DEF Drops, Visited, Pointed
<1> QED BY <1>4, <1>5, <1>6 DEF Pointed

LEMMA DisappearDrops ==
  ASSUME NEW w \in Worlds, NEW x \in Creatures, NEW c \in Creatures
  PROVE  /\ Drops(w, OnCreatureDisappear(w, x, c))
         /\ OnCreatureDisappear(w, x, c).attacked[x] # c
         /\ OnCreatureDisappear(w, x, c).follow[x] # c
<1>1. PICK v : v = IF w.attacked[x] = c THEN StopAttack(w, {x}) ELSE w
  OBVIOUS
<1>2. Drops(w, v) /\ v.attacked[x] # c
  BY <1>1, StopAttackDrops, DropsSame, Kinds
<1>3. PICK u : u = IF v.follow[x] = c THEN [v EXCEPT !.follow[x] = Nobody] ELSE v
  OBVIOUS
<1>4. Drops(v, u) /\ u.follow[x] # c /\ u.attacked = v.attacked
  <2>1. v \in Worlds
    BY <1>2 DEF Drops
  <2> QED BY <1>3, <2>1, FollowNobodyDrops, DropsSame, Kinds
<1>5. u = OnCreatureDisappear(w, x, c)
  BY <1>1, <1>3 DEF OnCreatureDisappear
<1> QED BY <1>2, <1>4, <1>5, DropsTwice

(* A spectator is told that c goes.                                        *)
LEMMA ToldDrops ==
  ASSUME NEW w \in Worlds, NEW x \in Creatures, w.status[x] # "none", NEW c \in Creatures
  PROVE  /\ Drops(w, Disappear(w, x, c))
         /\ Disappear(w, x, c).attacked[x] # c /\ Disappear(w, x, c).follow[x] # c
<1>1. PICK v : v = OnCreatureDisappear(w, x, c)
  OBVIOUS
<1>2. Drops(w, v) /\ v.attacked[x] # c /\ v.follow[x] # c
  BY <1>1, DisappearDrops
<1>3. CASE x \in Monsters
  <2>1. PICK u : u = OnCreatureLeave(v, x, c)
    OBVIOUS
  <2>2. Drops(v, u)
    BY <1>2, <1>3, <2>1, LeaveDrops DEF Drops
  <2>3. u = Disappear(w, x, c)
    BY <1>1, <1>3, <2>1 DEF Disappear
  <2>4. u.attacked[x] # c /\ u.follow[x] # c
    BY <1>2, <2>2, Kinds DEF Drops
  <2> QED BY <1>2, <2>2, <2>3, <2>4, DropsTwice
<1>4. CASE x \notin Monsters
  BY <1>1, <1>2, <1>4 DEF Disappear
<1> QED BY <1>3, <1>4

LEMMA DropsKeep ==
  ASSUME NEW w, NEW v, Drops(w, v), NEW y \in Creatures
  PROVE  /\ \A k : Fits(w, y, k) => Fits(v, y, k)
         /\ Fresh(w, y) => Fresh(v, y)
<1>1. v.attacked[y] \in {w.attacked[y], Nobody} /\ v.follow[y] \in {w.follow[y], Nobody}
  BY DEF Drops
<1>2. \A t, k : Fit(w, y, t, k) => Fit(v, y, t, k)
  BY DEF Drops, Fit, OnFloor
<1>3. \A k : Fit(v, y, Nobody, k)
  BY DEF Fit
<1>4. \A k : Fits(w, y, k) => Fits(v, y, k)
  BY <1>1, <1>2, <1>3 DEF Drops, Fits
<1>5. Fresh(w, y) => Fresh(v, y)
  BY <1>1 DEF Drops, Fresh
<1> QED BY <1>4, <1>5

-----------------------------------------------------------------------------
(* Masters and summons.                                                    *)

(* They know each other.  The summons of a monster have none themselves.   *)
Kin(w) ==
  /\ \A c, m \in Creatures : c \in w.summons[m] <=> w.master[c] = m
  /\ \A c \in Creatures : w.master[c] # Nobody =>
       c \in Monsters /\ (w.master[c] \in Monsters => w.summons[c] = {})

Mastered(w, v, c, m) ==
  /\ v \in Worlds
  /\ v.status = w.status /\ v.where = w.where /\ v.alive = w.alive
  /\ v.attacked = w.attacked /\ v.follow = w.follow /\ v.afflicted = w.afflicted
  /\ v.release = w.release /\ v.spawned = w.spawned /\ v.minded = w.minded /\ v.spawnEvent = w.spawnEvent
  /\ v.idle = w.idle /\ v.check = w.check /\ v.listed = w.listed /\ v.targets = w.targets
  /\ v.master = [w.master EXCEPT ![c] = m]
  /\ \A x \in Creatures : v.summons[x] =
       IF x = m THEN w.summons[x] \cup {c}
       ELSE IF x = w.master[c] THEN w.summons[x] \ {c} ELSE w.summons[x]

LEMMA MasterSet ==
  ASSUME NEW w \in Worlds, NEW c \in Creatures, NEW m \in Somebody
  PROVE  Mastered(w, SetMaster(w, c, m), c, m)
<1>1. PICK v : v = SetMaster(w, c, m)
  OBVIOUS
<1>2. PICK a, s : /\ a = [w.master EXCEPT ![c] = m]
                  /\ s = [x \in Creatures |->
                            IF x = m THEN w.summons[x] \cup {c}
                            ELSE IF x = w.master[c] THEN w.summons[x] \ {c} ELSE w.summons[x]]
  OBVIOUS
<1>3. a \in [Creatures -> Somebody] /\ s \in [Creatures -> SUBSET Creatures]
  BY <1>2 DEF Worlds
<1>4. v = [w EXCEPT !.master = a, !.summons = s]
  BY <1>1, <1>2 DEF SetMaster, Worlds
<1>5. v \in Worlds
  BY <1>3, <1>4 DEF Worlds
<1>6. v.master = a /\ v.summons = s
  BY <1>4 DEF Worlds
<1>7. /\ v.status = w.status /\ v.where = w.where /\ v.alive = w.alive
      /\ v.attacked = w.attacked /\ v.follow = w.follow /\ v.afflicted = w.afflicted
      /\ v.release = w.release /\ v.spawned = w.spawned /\ v.minded = w.minded /\ v.spawnEvent = w.spawnEvent
      /\ v.idle = w.idle /\ v.check = w.check /\ v.listed = w.listed /\ v.targets = w.targets
  BY <1>4 DEF Worlds
<1>8. \A x \in Creatures : s[x] =
        IF x = m THEN w.summons[x] \cup {c}
        ELSE IF x = w.master[c] THEN w.summons[x] \ {c} ELSE w.summons[x]
  BY <1>2
<1> QED BY <1>1, <1>2, <1>5, <1>6, <1>7, <1>8 DEF Mastered

(* A creature gets rid of its master.                                      *)
LEMMA MasterLost ==
  ASSUME NEW w \in Worlds, NEW c \in Creatures, NEW v, Mastered(w, v, c, Nobody)
  PROVE  /\ Kin(w) => Kin(v)
         /\ \A y \in Creatures : Fresh(w, y) => Fresh(v, y)
         /\ \A y \in Creatures : v.summons[y] \subseteq w.summons[y]
<1>1. /\ v.master[c] = Nobody /\ \A y \in Creatures : y # c => v.master[y] = w.master[y]
      /\ \A y \in Creatures : v.summons[y] \subseteq w.summons[y]
      /\ \A y \in Creatures : v.summons[y] =
           IF y = w.master[c] THEN w.summons[y] \ {c} ELSE w.summons[y]
  <2>1. w.master \in [Creatures -> Somebody] /\ v.master = [w.master EXCEPT ![c] = Nobody]
    BY DEF Mastered, Worlds
  <2>2. \A y \in Creatures : v.summons[y] =
          IF y = w.master[c] THEN w.summons[y] \ {c} ELSE w.summons[y]
    BY Kinds DEF Mastered
  <2> QED BY <2>1, <2>2
<1>2. ASSUME Kin(w) PROVE Kin(v)
  <2>1. ASSUME NEW d \in Creatures, NEW m \in Creatures
        PROVE  d \in v.summons[m] <=> v.master[d] = m
    <3>1. d \in w.summons[m] <=> w.master[d] = m
      BY <1>2 DEF Kin
    <3>2. CASE d = c
      BY <1>1, <3>1, <3>2, Kinds
    <3>3. CASE d # c
      BY <1>1, <3>1, <3>3
    <3> QED BY <3>2, <3>3
  <2>2. ASSUME NEW d \in Creatures, v.master[d] # Nobody
        PROVE  d \in Monsters /\ (v.master[d] \in Monsters => v.summons[d] = {})
    BY <1>1, <1>2, <2>2 DEF Kin
  <2> QED BY <2>1, <2>2 DEF Kin
<1>3. ASSUME NEW y \in Creatures, Fresh(w, y) PROVE Fresh(v, y)
  <2>1. v.master[y] \in {w.master[y], Nobody}
    BY <1>1
  <2> QED BY <1>1, <1>3, <2>1 DEF Fresh, Mastered
<1> QED BY <1>1, <1>2, <1>3

(* A creature is told that it goes itself, or spectators that it goes.     *)
Parts(w, v, c) ==
  /\ v \in Worlds
  /\ v.status = w.status /\ v.where = w.where /\ v.alive = w.alive
  /\ v.spawned = w.spawned /\ v.minded = w.minded /\ (w.spawnEvent => v.spawnEvent)
  /\ \A y \in Creatures : v.attacked[y] \in {w.attacked[y], Nobody}
                          /\ v.follow[y] \in {w.follow[y], Nobody}
  /\ \A y \in Creatures : v.master[y] = w.master[y] \/ (y = c /\ v.master[y] = Nobody)
  /\ Kin(w) => Kin(v)
  /\ \A y \in Creatures : Visited(w, y) => Visited(v, y)
  /\ \A y \in Creatures : Fresh(w, y) => Fresh(v, y)

LEMMA DropsParts ==
  ASSUME NEW w, NEW v, Drops(w, v), NEW c
  PROVE  Parts(w, v, c)
<1>1. \A y \in Creatures : Fresh(w, y) => Fresh(v, y)
  BY DropsKeep
<1> QED BY <1>1 DEF Drops, Parts, Kin

LEMMA PartsTwice ==
  ASSUME NEW w, NEW v, NEW u, NEW c, Parts(w, v, c), Parts(v, u, c)
  PROVE  Parts(w, u, c)
<1>1. /\ u \in Worlds
      /\ u.status = w.status /\ u.where = w.where /\ u.alive = w.alive
      /\ u.spawned = w.spawned /\ u.minded = w.minded /\ (w.spawnEvent => u.spawnEvent)
  BY DEF Parts
<1>2. \A y \in Creatures : u.attacked[y] \in {w.attacked[y], Nobody}
                           /\ u.follow[y] \in {w.follow[y], Nobody}
  BY DEF Parts
<1>3. \A y \in Creatures : u.master[y] = w.master[y] \/ (y = c /\ u.master[y] = Nobody)
  BY DEF Parts
<1>4. Kin(w) => Kin(u)
  BY DEF Parts
<1>5. /\ \A y \in Creatures : Visited(w, y) => Visited(u, y)
      /\ \A y \in Creatures : Fresh(w, y) => Fresh(u, y)
  BY DEF Parts
<1> QED BY <1>1, <1>2, <1>3, <1>4, <1>5 DEF Parts

LEMMA SelfParts ==
  ASSUME NEW w \in Worlds, NEW c \in Creatures, w.status[c] # "none"
  PROVE  /\ Parts(w, DisappearSelf(w, c), c)
         /\ c \in Monsters /\ w.spawned[c] # NotSpawned => DisappearSelf(w, c).spawnEvent
<1>1. PICK u : u = OnCreatureDisappear(w, c, c)
  OBVIOUS
<1>2. Parts(w, u, c) /\ u \in Worlds
  <2>1. Drops(w, u)
    BY <1>1, DisappearDrops
  <2> QED BY <2>1, DropsParts DEF Drops
<1>3. PICK v : v = LeaveMaster(u, c)
  OBVIOUS
<1>4. Parts(u, v, c) /\ v \in Worlds
  <2>1. CASE v = u
    BY <1>2, <2>1 DEF Parts
  <2>2. CASE v = SetMaster(u, c, Nobody)
    <3>1. Mastered(u, v, c, Nobody)
      BY <1>2, <2>2, MasterSet, Kinds
    <3>2. /\ Kin(u) => Kin(v)
          /\ \A y \in Creatures : Fresh(u, y) => Fresh(v, y)
      BY <1>2, <3>1, MasterLost
    <3>3. \A y \in Creatures : v.master[y] = u.master[y] \/ (y = c /\ v.master[y] = Nobody)
      BY <1>2, <3>1 DEF Mastered, Worlds
    <3> QED BY <3>1, <3>2, <3>3 DEF Mastered, Parts, Visited
  <2> QED BY <1>3, <2>1, <2>2 DEF LeaveMaster
<1>5. CASE c \notin Monsters
  <2>1. DisappearSelf(w, c) = v
    BY <1>1, <1>3, <1>5 DEF DisappearSelf
  <2> QED BY <1>2, <1>4, <1>5, <2>1, PartsTwice
<1>6. CASE c \in Monsters
  <2>1. PICK b : b = (v.spawnEvent \/ v.spawned[c] # NotSpawned)
    OBVIOUS
  <2>2. PICK e : e = [v EXCEPT !.spawnEvent = b]
    OBVIOUS
  <2>3. e \in Worlds /\ e.spawnEvent = b
    BY <1>4, <2>1, <2>2 DEF Worlds
  <2>4. /\ e.status = v.status /\ e.where = v.where /\ e.alive = v.alive
        /\ e.master = v.master /\ e.summons = v.summons /\ e.spawned = v.spawned /\ e.minded = v.minded
        /\ e.attacked = v.attacked /\ e.follow = v.follow
        /\ e.idle = v.idle /\ e.check = v.check /\ e.listed = v.listed
    BY <1>4, <2>2 DEF Worlds
  <2>5. Parts(v, e, c)
    <3>1. v.spawnEvent => e.spawnEvent
      BY <2>1, <2>3, Zenon
    <3>2. Kin(v) => Kin(e)
      BY <2>4 DEF Kin
    <3> QED BY <2>3, <2>4, <3>1, <3>2 DEF Parts, Visited, Fresh
  <2>6. PICK q : q = SetIdle(e, c, TRUE)
    OBVIOUS
  <2>7. Drops(e, q) /\ Parts(e, q, c)
    <3>1. e.status[c] # "none"
      BY <1>2, <1>4, <2>4 DEF Parts
    <3>2. Drops(e, q)
      BY <1>6, <2>3, <2>6, <3>1, SetIdleDrops
    <3> QED BY <3>2, DropsParts
  <2>8. DisappearSelf(w, c) = q
    BY <1>1, <1>3, <1>6, <2>1, <2>2, <2>6 DEF DisappearSelf
  <2>9. Parts(w, q, c)
    BY <1>2, <1>4, <2>5, <2>7, PartsTwice
  <2>10. v.spawned = w.spawned /\ v.minded = w.minded /\ q.spawnEvent = e.spawnEvent
    BY <1>2, <1>4, <2>7 DEF Parts, Drops
  <2> QED BY <2>1, <2>3, <2>8, <2>9, <2>10
<1> QED BY <1>5, <1>6

(* All spectators are told that c goes.                                    *)
LEMMA Telling ==
  ASSUME NEW w \in Worlds, NEW c \in Creatures, NEW S \in SUBSET Creatures,
         \A x \in S : w.status[x] # "none",
         NEW v, v = Each(S, w, LAMBDA acc, x : Disappear(acc, x, c))
  PROVE  Drops(w, v) /\ \A x \in S : v.attacked[x] # c /\ v.follow[x] # c
<1>1. IsFiniteSet(S)
  BY CreaturesAssumption, FS_Subset
<1> DEFINE Step(u, y) == Disappear(u, y, c)
           Told(g) == g = [T \in SUBSET S |-> IF T = {} THEN w ELSE Step(g[T \ {One(T)}], One(T))]
<1>9. PICK W : W = {u \in Worlds : u.status = w.status}
  OBVIOUS
<1>2. \A u \in W, y \in S :
        /\ Drops(u, Step(u, y)) /\ Step(u, y) \in W
        /\ Step(u, y).attacked[y] # c /\ Step(u, y).follow[y] # c
  <2>1. ASSUME NEW u \in W, NEW y \in S
        PROVE  /\ Drops(u, Step(u, y)) /\ Step(u, y) \in W
               /\ Step(u, y).attacked[y] # c /\ Step(u, y).follow[y] # c
    <3>1. u \in Worlds /\ u.status = w.status /\ u.status[y] # "none" /\ y \in Creatures
      BY <1>9
    <3>2. /\ Drops(u, Step(u, y))
          /\ Step(u, y).attacked[y] # c /\ Step(u, y).follow[y] # c
      BY <3>1, ToldDrops
    <3>3. Step(u, y) \in W
      BY <1>9, <3>1, <3>2 DEF Drops
    <3> QED BY <3>2, <3>3
  <2> HIDE DEF Step
  <2> QED BY <2>1
<1>3. \E g : Told(g)
  <2>1. PICK F : F = [p \in W \X S |-> Step(p[1], p[2])]
    OBVIOUS
  <2>2. F \in [W \X S -> W]
    BY <1>2, <2>1
  <2>3. PICK f : Loop(f, S, W, w, F)
    BY <1>1, <1>9, <2>2, LoopExists
  <2>4. ASSUME NEW T \in SUBSET S
        PROVE f[T] = IF T = {} THEN w ELSE Step(f[T \ {One(T)}], One(T))
    <3>1. T # {} => f[T \ {One(T)}] \in W /\ One(T) \in S
      BY <2>3, OneOf DEF Loop
    <3> QED BY <2>1, <2>3, <3>1 DEF Loop
  <2>5. Told(f)
    BY <2>3, <2>4 DEF Loop
  <2> QED BY <2>5
<1>4. PICK g : Told(g) /\ v = g[S]
  <2>1. PICK g : g = CHOOSE f : Told(f)
    OBVIOUS
  <2>2. Told(g)
    BY <1>3, <2>1
  <2>3. v = g[S]
    BY <2>1 DEF Each, One
  <2> QED BY <2>2, <2>3
<1>5. PICK good : good = {T \in SUBSET S :
                           /\ Drops(w, g[T])
                           /\ \A x \in T : g[T].attacked[x] # c /\ g[T].follow[x] # c}
  OBVIOUS
<1>6. {} \in good
  BY <1>4, <1>5, DropsSame
<1>7. ASSUME NEW T \in SUBSET S, T # {}, T \ {One(T)} \in good PROVE T \in good
  <2>1. PICK y, u : y = One(T) /\ u = g[T \ {One(T)}]
    OBVIOUS
  <2>2. y \in S /\ g[T] = Step(u, y)
    BY <1>4, <1>7, <2>1, OneOf
  <2>3. Drops(w, u) /\ \A x \in T \ {y} : u.attacked[x] # c /\ u.follow[x] # c
    BY <1>5, <1>7, <2>1
  <2>4. Drops(u, g[T]) /\ g[T].attacked[y] # c /\ g[T].follow[y] # c
    <3>1. u \in W
      BY <1>9, <2>3 DEF Drops
    <3> HIDE DEF Step
    <3> QED BY <1>2, <2>2, <3>1
  <2>5. \A x \in T : g[T].attacked[x] # c /\ g[T].follow[x] # c
    <3>1. \A x \in Creatures : /\ g[T].attacked[x] \in {u.attacked[x], Nobody}
                             /\ g[T].follow[x] \in {u.follow[x], Nobody}
      BY <2>4 DEF Drops
    <3>2. c # Nobody
      BY Kinds
    <3>3. PICK h : h = g[T]
      OBVIOUS
    <3>4. ASSUME NEW x \in T PROVE h.attacked[x] # c /\ h.follow[x] # c
      <4>1. CASE x = y
        BY <2>4, <3>3, <4>1
      <4>2. CASE x # y
        <5>1. u.attacked[x] # c /\ u.follow[x] # c
          BY <2>3, <4>2
        <5>2. h.attacked[x] \in {u.attacked[x], Nobody} /\ h.follow[x] \in {u.follow[x], Nobody}
          BY <3>1, <3>3
        <5> QED BY <3>2, <5>1, <5>2
      <4> QED BY <4>1, <4>2
    <3> QED BY <3>3, <3>4
  <2>6. Drops(w, g[T])
    BY <2>3, <2>4, DropsTwice
  <2> QED BY <1>5, <2>5, <2>6
<1>8. S \in good
  BY <1>1, <1>6, <1>7, OneByOne
<1> QED BY <1>4, <1>5, <1>8

(* What moves, thinks and removals do to everybody: nobody's state gets    *)
(* worse, and a spawned monster that goes leaves a check behind.           *)
Passes(w, v) ==
  /\ v \in Worlds
  /\ v.where = w.where /\ v.alive = w.alive /\ v.spawned = w.spawned /\ v.minded = w.minded
  /\ w.spawnEvent => v.spawnEvent
  /\ \A y \in Creatures : v.status[y] = w.status[y]
                          \/ (w.status[y] = "placed" /\ v.status[y] = "removed")
  /\ \A y \in Creatures : v.master[y] \in {w.master[y], Nobody}
  /\ Kin(w) => Kin(v)
  /\ \A y \in Creatures : \A k : Fits(w, y, k) => Fits(v, y, k)
  /\ \A y \in Creatures : Visited(w, y) => Visited(v, y)
  /\ \A y \in Creatures : Fresh(w, y) => Fresh(v, y)
  /\ \A m \in Monsters : w.status[m] = "placed" /\ v.status[m] = "removed"
                         /\ w.spawned[m] # NotSpawned => v.spawnEvent

LEMMA PassesTwice ==
  ASSUME NEW w, NEW v, NEW u, Passes(w, v), Passes(v, u)
  PROVE  Passes(w, u)
<1>1. \A m \in Monsters : w.status[m] = "placed" /\ u.status[m] = "removed"
                         /\ w.spawned[m] # NotSpawned => u.spawnEvent
  BY Kinds DEF Passes
<1>2. \A y \in Creatures : u.status[y] = w.status[y]
                          \/ (w.status[y] = "placed" /\ u.status[y] = "removed")
  BY DEF Passes
<1>3. \A y \in Creatures : u.master[y] \in {w.master[y], Nobody}
  BY DEF Passes
<1>4. \A y \in Creatures : \A k : Fits(w, y, k) => Fits(u, y, k)
  BY DEF Passes
<1> QED BY <1>1, <1>2, <1>3, <1>4 DEF Passes

LEMMA DropsPass ==
  ASSUME NEW w, NEW v, Drops(w, v)
  PROVE  Passes(w, v)
<1>1. \A y \in Creatures : Fresh(w, y) => Fresh(v, y)
  BY DropsKeep
<1>2. \A y \in Creatures : \A k : Fits(w, y, k) => Fits(v, y, k)
  BY DropsKeep
<1> QED BY <1>1, <1>2 DEF Drops, Passes, Kin

(* The creatures of S go.                                                  *)
Gone(w, v, S) ==
  /\ Passes(w, v) /\ \A x \in S : v.status[x] # "placed"
  /\ \A y \in Creatures \ S : v.status[y] = w.status[y] /\ v.master[y] = w.master[y]

LEMMA TakeOutPasses ==
  ASSUME NEW w \in Worlds, NEW c \in Creatures, NEW first,
         NEW v, v = TakeOut(w, c, first)
  PROVE  Gone(w, v, {c})
<1>1. CASE w.status[c] # "placed"
  <2>1. v = w
    BY <1>1 DEF TakeOut
  <2> QED BY <1>1, <2>1, DropsSame, DropsPass DEF Gone
<1>2. CASE w.status[c] = "placed"
  <2>1. PICK S : S = Spectators(w, c) \ {c}
    OBVIOUS
  <2>2. S \in SUBSET Creatures /\ \A x \in S : w.status[x] # "none"
    BY <2>1 DEF Spectators, Placed
  <2>3. PICK u : /\ Parts(w, u, c) /\ \A x \in S : u.attacked[x] # c /\ u.follow[x] # c
                 /\ c \in Monsters /\ w.spawned[c] # NotSpawned => u.spawnEvent
                 /\ v = [u EXCEPT !.status[c] = "removed", !.check[c] = FALSE,
                                  !.release[c] = u.release[c] + 1, !.attacked[c] = Nobody,
                                  !.follow[c] = Nobody, !.afflicted = u.afflicted \ {c}]
    <3>1. CASE first
      <4>1. PICK p : p = DisappearSelf(w, c)
        OBVIOUS
      <4>2. PICK u : u = Each(S, p, LAMBDA acc, x : Disappear(acc, x, c))
        OBVIOUS
      <4>3. Parts(w, p, c) /\ (c \in Monsters /\ w.spawned[c] # NotSpawned => p.spawnEvent)
        BY <1>2, <4>1, SelfParts
      <4>4. Drops(p, u) /\ \A x \in S : u.attacked[x] # c /\ u.follow[x] # c
        <5>1. p \in Worlds /\ \A x \in S : p.status[x] # "none"
          BY <2>2, <4>3 DEF Parts
        <5> QED BY <2>2, <4>2, <5>1, Telling
      <4>5. Parts(w, u, c)
        BY <4>3, <4>4, DropsParts, PartsTwice
      <4>6. v = [u EXCEPT !.status[c] = "removed", !.check[c] = FALSE,
                          !.release[c] = u.release[c] + 1, !.attacked[c] = Nobody,
                          !.follow[c] = Nobody, !.afflicted = u.afflicted \ {c}]
        BY <1>2, <2>1, <3>1, <4>1, <4>2 DEF TakeOut
      <4> QED BY <4>3, <4>4, <4>5, <4>6 DEF Drops
    <3>2. CASE ~first
      <4>1. PICK p : p = Each(S, w, LAMBDA acc, x : Disappear(acc, x, c))
        OBVIOUS
      <4>2. PICK u : u = DisappearSelf(p, c)
        OBVIOUS
      <4>3. Drops(w, p) /\ \A x \in S : p.attacked[x] # c /\ p.follow[x] # c
        BY <2>2, <4>1, Telling
      <4>4. Parts(p, u, c) /\ (c \in Monsters /\ p.spawned[c] # NotSpawned => u.spawnEvent)
        BY <1>2, <4>2, <4>3, SelfParts DEF Drops
      <4>5. Parts(w, u, c)
        BY <4>3, <4>4, DropsParts, PartsTwice
      <4>6. \A x \in S : u.attacked[x] # c /\ u.follow[x] # c
        BY <2>2, <4>3, <4>4, Kinds DEF Parts
      <4>7. v = [u EXCEPT !.status[c] = "removed", !.check[c] = FALSE,
                          !.release[c] = u.release[c] + 1, !.attacked[c] = Nobody,
                          !.follow[c] = Nobody, !.afflicted = u.afflicted \ {c}]
        BY <1>2, <2>1, <3>2, <4>1, <4>2 DEF TakeOut
      <4> QED BY <4>3, <4>4, <4>5, <4>6, <4>7 DEF Drops
    <3> QED BY <3>1, <3>2
  <2>4. PICK s, k, r, a, f, d :
          /\ s = [u.status EXCEPT ![c] = "removed"] /\ k = [u.check EXCEPT ![c] = FALSE]
          /\ r = [u.release EXCEPT ![c] = u.release[c] + 1] /\ a = [u.attacked EXCEPT ![c] = Nobody]
          /\ f = [u.follow EXCEPT ![c] = Nobody] /\ d = u.afflicted \ {c}
    OBVIOUS
  <2>5. u \in Worlds
    BY <2>3 DEF Parts
  <2>6. /\ s \in [Creatures -> Statuses] /\ k \in [Creatures -> BOOLEAN]
        /\ r \in [Creatures -> Nat] /\ a \in [Creatures -> Somebody]
        /\ f \in [Creatures -> Somebody] /\ d \in SUBSET Monsters
    BY <2>4, <2>5, Kinds DEF Worlds, Statuses
  <2>7. v = [u EXCEPT !.status = s, !.check = k, !.release = r, !.attacked = a, !.follow = f,
                      !.afflicted = d]
    BY <2>3, <2>4, <2>5 DEF Worlds
  <2>8. v \in Worlds
    <3>1. PICK v1 : v1 = [u EXCEPT !.status = s, !.check = k, !.release = r]
      OBVIOUS
    <3>2. v1 \in Worlds
      BY <2>5, <2>6, <3>1 DEF Worlds
    <3>3. v = [v1 EXCEPT !.attacked = a, !.follow = f, !.afflicted = d]
      BY <2>5, <2>7, <3>1 DEF Worlds
    <3> QED BY <2>6, <3>2, <3>3 DEF Worlds
  <2>9. /\ v.status = s /\ v.check = k /\ v.release = r /\ v.attacked = a /\ v.follow = f
        /\ v.where = u.where /\ v.alive = u.alive /\ v.master = u.master /\ v.summons = u.summons
        /\ v.idle = u.idle /\ v.listed = u.listed /\ v.spawned = u.spawned /\ v.minded = u.minded
        /\ v.spawnEvent = u.spawnEvent
    BY <2>5, <2>7 DEF Worlds
  <2>10. /\ s[c] = "removed" /\ a[c] = Nobody /\ f[c] = Nobody
         /\ \A y \in Creatures \ {c} : /\ s[y] = u.status[y] /\ k[y] = u.check[y]
                                        /\ a[y] = u.attacked[y] /\ f[y] = u.follow[y]
    BY <2>4, <2>5 DEF Worlds
  <2>11. ASSUME NEW y \in Creatures, NEW j, Fits(w, y, j) PROVE Fits(v, y, j)
    <3>1. CASE y = c
      BY <2>9, <2>10, <3>1 DEF Fits
    <3>2. CASE y # c /\ w.status[y] = "placed"
      <4>1. v.where = w.where /\ \A z \in Creatures \ {c} : v.status[z] = w.status[z]
        BY <2>3, <2>9, <2>10 DEF Parts
      <4>2. ASSUME NEW t, t = w.attacked[y] \/ t = w.follow[y],
                   t = c => ~OnFloor(w, y, c)
            PROVE  Fit(v, y, t, j)
        <5>1. Fit(w, y, t, j)
          BY <2>11, <3>2, <4>2 DEF Fits
        <5> QED BY <4>1, <4>2, <5>1 DEF Fit, OnFloor
      <4>3. y \in S \/ ~OnFloor(w, y, c)
        BY <2>1, <3>2, CreaturesAssumption DEF Spectators, Placed, Sees, OnFloor
      <4>4. /\ v.attacked[y] \in {w.attacked[y], Nobody} /\ v.follow[y] \in {w.follow[y], Nobody}
            /\ y \in S => v.attacked[y] # c /\ v.follow[y] # c
        BY <2>3, <2>9, <2>10, <3>2 DEF Parts
      <4>5. Fit(v, y, Nobody, j)
        BY DEF Fit
      <4>6. Fit(v, y, v.attacked[y], j) /\ Fit(v, y, v.follow[y], j)
        BY <4>2, <4>3, <4>4, <4>5
      <4> QED BY <4>6 DEF Fits
    <3>3. CASE y # c /\ w.status[y] # "placed"
      <4>1. v.status[y] = w.status[y]
        BY <2>3, <2>9, <2>10, <3>3 DEF Parts
      <4> QED BY <3>3, <4>1 DEF Fits
    <3> QED BY <3>1, <3>2, <3>3
  <2>12. ASSUME NEW y \in Creatures
         PROVE  (Visited(w, y) => Visited(v, y)) /\ (Fresh(w, y) => Fresh(v, y))
    <3>1. CASE y = c
      BY <1>2, <2>9, <2>10, <3>1 DEF Visited, Fresh
    <3>2. CASE y # c
      <4>1. (Visited(w, y) => Visited(u, y)) /\ (Fresh(w, y) => Fresh(u, y))
        BY <2>3 DEF Parts
      <4> QED BY <2>9, <2>10, <3>2, <4>1 DEF Visited, Fresh
    <3> QED BY <3>1, <3>2
  <2>13. Kin(w) => Kin(v)
    BY <2>3, <2>9 DEF Parts, Kin
  <2>14. /\ \A y \in Creatures \ {c} : v.status[y] = w.status[y] /\ v.master[y] = w.master[y]
         /\ v.status[c] = "removed" /\ v.master[c] \in {w.master[c], Nobody}
         /\ v.where = w.where /\ v.alive = w.alive /\ v.spawned = w.spawned /\ v.minded = w.minded
         /\ (w.spawnEvent => v.spawnEvent)
         /\ c \in Monsters /\ w.spawned[c] # NotSpawned => v.spawnEvent
    <3>1. v.status[c] = "removed" /\ v.spawnEvent = u.spawnEvent /\ v.master = u.master
      BY <2>9, <2>10
    <3>2. \A y \in Creatures \ {c} : v.status[y] = w.status[y]
      BY <2>3, <2>9, <2>10 DEF Parts
    <3>3. /\ \A y \in Creatures \ {c} : v.master[y] = w.master[y]
          /\ v.master[c] \in {w.master[c], Nobody}
      BY <2>3, <3>1 DEF Parts
    <3>4. v.where = w.where /\ v.alive = w.alive /\ v.spawned = w.spawned /\ v.minded = w.minded
      BY <2>3, <2>9 DEF Parts
    <3>5. /\ w.spawnEvent => v.spawnEvent
          /\ c \in Monsters /\ w.spawned[c] # NotSpawned => v.spawnEvent
      BY <2>3, <3>1 DEF Parts
    <3> QED BY <3>1, <3>2, <3>3, <3>4, <3>5
  <2>15. Passes(w, v)
    <3>1. \A y \in Creatures : v.master[y] \in {w.master[y], Nobody}
      BY <2>14
    <3>2. \A y \in Creatures : v.status[y] = w.status[y]
                              \/ (w.status[y] = "placed" /\ v.status[y] = "removed")
      BY <1>2, <2>14
    <3>3. \A m \in Monsters : w.status[m] = "placed" /\ v.status[m] = "removed"
                             /\ w.spawned[m] # NotSpawned => v.spawnEvent
      BY <2>14, Kinds
    <3> QED BY <2>8, <2>11, <2>12, <2>13, <2>14, <3>1, <3>2, <3>3 DEF Passes
  <2> QED BY <2>14, <2>15 DEF Gone
<1> QED BY <1>1, <1>2

(* The creatures of S go, one after the other.                             *)
Taken(w, S, first) == Each(S, w, LAMBDA acc, s : TakeOut(acc, s, first))

LEMMA TakingOut ==
  ASSUME NEW w \in Worlds, NEW S \in SUBSET Creatures, NEW first,
         NEW v, v = Taken(w, S, first)
  PROVE  Gone(w, v, S)
<1>1. IsFiniteSet(S)
  BY CreaturesAssumption, FS_Subset
<1> DEFINE Step(u, y) == TakeOut(u, y, first)
           Told(g) == g = [T \in SUBSET S |-> IF T = {} THEN w ELSE Step(g[T \ {One(T)}], One(T))]
<1>2. \A u \in Worlds, y \in S : Gone(u, Step(u, y), {y})
  <2>1. ASSUME NEW u \in Worlds, NEW y \in S PROVE Gone(u, Step(u, y), {y})
    BY TakeOutPasses
  <2> HIDE DEF Step
  <2> QED BY <2>1
<1>3. \E g : Told(g)
  <2>1. PICK F : F = [p \in Worlds \X S |-> Step(p[1], p[2])]
    OBVIOUS
  <2>2. F \in [Worlds \X S -> Worlds]
    <3>1. \A u \in Worlds, y \in S : Step(u, y) \in Worlds
      BY <1>2 DEF Gone, Passes
    <3> HIDE DEF Step
    <3> QED BY <2>1, <3>1
  <2>3. PICK f : Loop(f, S, Worlds, w, F)
    BY <1>1, <2>2, LoopExists
  <2>4. ASSUME NEW T \in SUBSET S
        PROVE f[T] = IF T = {} THEN w ELSE Step(f[T \ {One(T)}], One(T))
    <3>1. T # {} => f[T \ {One(T)}] \in Worlds /\ One(T) \in S
      BY <2>3, OneOf DEF Loop
    <3> QED BY <2>1, <2>3, <3>1 DEF Loop
  <2>5. Told(f)
    BY <2>3, <2>4 DEF Loop
  <2> QED BY <2>5
<1>4. PICK g : Told(g) /\ v = g[S]
  <2>1. PICK g : g = CHOOSE f : Told(f)
    OBVIOUS
  <2>2. Told(g)
    BY <1>3, <2>1
  <2>3. v = g[S]
    BY <2>1 DEF Taken, Each, One
  <2> QED BY <2>2, <2>3
<1>5. PICK good : good = {T \in SUBSET S : Gone(w, g[T], T)}
  OBVIOUS
<1>6. {} \in good
  BY <1>4, <1>5, DropsSame, DropsPass DEF Gone
<1>7. ASSUME NEW T \in SUBSET S, T # {}, T \ {One(T)} \in good PROVE T \in good
  <2>1. PICK y, u, h : y = One(T) /\ u = g[T \ {One(T)}] /\ h = g[T]
    OBVIOUS
  <2>2. y \in T /\ h = Step(u, y)
    BY <1>4, <1>7, <2>1, OneOf
  <2>3. Gone(w, u, T \ {y})
    BY <1>5, <1>7, <2>1
  <2>4. Gone(u, h, {y})
    <3>1. u \in Worlds
      BY <2>3 DEF Gone, Passes
    <3> HIDE DEF Step, Told
    <3> QED BY <1>2, <2>2, <3>1
  <2>5. \A x \in T : h.status[x] # "placed"
    BY <2>2, <2>3, <2>4 DEF Gone
  <2>6. \A z \in Creatures \ T : h.status[z] = w.status[z] /\ h.master[z] = w.master[z]
    BY <2>2, <2>3, <2>4 DEF Gone
  <2>7. Passes(w, h)
    BY <2>3, <2>4, PassesTwice DEF Gone
  <2> QED BY <1>5, <2>1, <2>5, <2>6, <2>7 DEF Gone
<1>8. S \in good
  BY <1>1, <1>6, <1>7, OneByOne
<1> QED BY <1>4, <1>5, <1>8

(* The master of who is in the game is in the game.                        *)
Present(w, y) ==
  w.status[y] = "placed" /\ w.master[y] # Nobody => w.status[w.master[y]] = "placed"

LEMMA RemovePasses ==
  ASSUME NEW w \in Worlds, NEW c \in Creatures, NEW first,
         NEW v, v = RemoveCreature(w, c, first)
  PROVE  /\ Passes(w, v) /\ v.status[c] # "placed"
         /\ Kin(w) /\ (\A y \in Creatures : Present(w, y)) => \A y \in Creatures : Present(v, y)
<1>1. PICK u : u = TakeOut(w, c, first)
  OBVIOUS
<1>2. Gone(w, u, {c})
  BY <1>1, TakeOutPasses
<1>3. PICK S : S = Household(u, {c}) \ {c}
  OBVIOUS
<1>4. u \in Worlds /\ S \in SUBSET Creatures
  <2>1. u \in Worlds
    BY <1>2 DEF Gone, Passes
  <2> QED BY <1>3, <2>1, HouseholdOf
<1>5. v = Taken(u, S, first)
  BY <1>1, <1>3 DEF RemoveCreature, Taken
<1>6. Gone(u, v, S)
  BY <1>4, <1>5, TakingOut
<1>7. Passes(w, v)
  BY <1>2, <1>6, PassesTwice DEF Gone
<1>8. v.status[c] # "placed"
  BY <1>2, <1>3, <1>6 DEF Gone
<1>9. ASSUME Kin(w), \A y \in Creatures : Present(w, y), NEW y \in Creatures
      PROVE  Present(v, y)
  <2>1. SUFFICES ASSUME v.status[y] = "placed", v.master[y] # Nobody, v.status[v.master[y]] # "placed"
                 PROVE FALSE
    BY DEF Present
  <2>2. y # c /\ y \notin S
    BY <1>6, <1>8, <2>1 DEF Gone
  <2>3. PICK m : m = v.master[y]
    OBVIOUS
  <2>4. w.status[y] = "placed" /\ w.master[y] = m /\ u.master[y] = m
    BY <1>2, <1>6, <2>1, <2>2, <2>3 DEF Gone
  <2>5. w.status[m] = "placed" /\ m \in Creatures
    <3>1. m \in Somebody
      BY <1>4, <2>4 DEF Worlds
    <3> QED BY <1>9, <2>1, <2>3, <2>4, <3>1 DEF Present, Somebody
  <2>6. m = c \/ m \in S
    BY <1>2, <1>6, <2>1, <2>3, <2>5 DEF Gone
  <2>7. Kin(u) /\ y \in u.summons[m]
    BY <1>2, <1>9, <2>4, <2>5 DEF Gone, Passes, Kin
  <2>8. Household(u, {c}) = {c} \cup u.summons[c] \cup UNION {u.summons[x] : x \in {c} \cup u.summons[c]}
    BY DEF Household
  <2>9. m \notin {c} \cup u.summons[c]
    BY <1>3, <2>2, <2>7, <2>8
  <2>10. PICK z \in {c} \cup u.summons[c] : m \in u.summons[z]
    BY <1>3, <2>6, <2>8, <2>9
  <2>11. z \in u.summons[c] /\ z \in Creatures
    BY <1>4, <2>9, <2>10 DEF Worlds
  <2>12. u.master[z] = c /\ u.master[m] = z
    BY <2>5, <2>7, <2>10, <2>11 DEF Kin
  <2>13. z \in Monsters
    BY <2>7, <2>11, <2>12, Kinds DEF Kin
  <2>14. u.summons[m] = {}
    BY <2>5, <2>7, <2>12, <2>13, Kinds DEF Kin
  <2> QED BY <2>7, <2>14
<1> QED BY <1>7, <1>8, <1>9

-----------------------------------------------------------------------------
(* Turning to a target.                                                    *)

(* Only the pointers of creatures change, and their wakefulness.           *)
Turns(w, v) ==
  Passes(w, v) /\ v.status = w.status /\ v.master = w.master /\ v.summons = w.summons

LEMMA DropsTurn ==
  ASSUME NEW w, NEW v, Drops(w, v)
  PROVE  Turns(w, v)
BY DropsPass DEF Drops, Turns

LEMMA TurnsTwice ==
  ASSUME NEW w, NEW v, NEW u, Turns(w, v), Turns(v, u)
  PROVE  Turns(w, u)
BY PassesTwice DEF Turns

(* A target for y: one it has, none, or one on its floor.                  *)
Aim(w, y, t) ==
  \/ t \in {w.attacked[y], w.follow[y], Nobody}
  \/ w.status[y] = "placed" =>
       t \in Creatures /\ w.status[t] = "placed" /\ OnFloor(w, y, t)

LEMMA PointedTurns ==
  ASSUME NEW w \in Worlds, NEW v, NEW a, NEW f, Pointed(w, v, a, f),
         \A y \in Creatures : Aim(w, y, a[y]) /\ Aim(w, y, f[y]),
         \A y \in Creatures : w.status[y] = "none" =>
           a[y] \in {w.attacked[y], Nobody} /\ f[y] \in {w.follow[y], Nobody}
  PROVE  Turns(w, v)
<1>1. ASSUME NEW y \in Creatures, NEW k, Fits(w, y, k) PROVE Fits(v, y, k)
  <2>1. SUFFICES ASSUME w.status[y] = "placed" PROVE Fit(v, y, a[y], k) /\ Fit(v, y, f[y], k)
    BY DEF Pointed, Fits
  <2>2. Fit(w, y, w.attacked[y], k) /\ Fit(w, y, w.follow[y], k)
    BY <1>1, <2>1 DEF Fits
  <2>3. ASSUME NEW t, Aim(w, y, t) PROVE Fit(w, y, t, k)
    <3>1. CASE t = Nobody
      BY <3>1 DEF Fit
    <3>2. CASE t = w.attacked[y] \/ t = w.follow[y]
      BY <2>2, <3>2
    <3>3. CASE t \in Creatures /\ w.status[t] = "placed" /\ OnFloor(w, y, t)
      BY <3>3 DEF Fit
    <3> QED BY <2>1, <2>3, <3>1, <3>2, <3>3 DEF Aim
  <2>4. \A t : Fit(w, y, t, k) => Fit(v, y, t, k)
    BY DEF Pointed, Fit, OnFloor
  <2> QED BY <2>3, <2>4
<1>2. ASSUME NEW y \in Creatures PROVE Fresh(w, y) => Fresh(v, y)
  BY DEF Pointed, Fresh
<1>3. Passes(w, v)
  BY <1>1, <1>2 DEF Pointed, Passes, Visited, Kin
<1> QED BY <1>3 DEF Pointed, Turns

(* Whoever is made, in a world that is whole.                              *)
Whole(w) ==
  w \in Worlds /\ Kin(w) /\ \A y \in Creatures : Fresh(w, y)

LEMMA PassesWhole ==
  ASSUME NEW w, NEW v, Whole(w), Passes(w, v)
  PROVE  Whole(v)
BY DEF Whole, Passes

LEMMA HouseholdMade ==
  ASSUME NEW w, Whole(w), NEW x \in Creatures, w.status[x] # "none", NEW y \in Household(w, {x})
  PROVE  y \in Creatures /\ w.status[y] # "none"
<1>1. w \in Worlds /\ \A y1 \in Creatures : Fresh(w, y1)
  BY DEF Whole
<1>2. PICK one : one = {x} \cup UNION {w.summons[z] : z \in {x}}
  OBVIOUS
<1>3. Household(w, {x}) = one \cup UNION {w.summons[z] : z \in one}
  BY <1>2 DEF Household
<1>4. ASSUME NEW m \in Creatures, NEW z \in w.summons[m] PROVE z \in Creatures /\ w.status[z] # "none"
  <2>1. z \in Creatures
    BY <1>1, <1>4 DEF Worlds
  <2>2. w.master[z] = m
    BY <1>4, <2>1 DEF Whole, Kin
  <2> QED BY <1>1, <2>1, <2>2, Kinds DEF Fresh
<1>5. one \subseteq Creatures /\ \A z \in one : w.status[z] # "none"
  BY <1>2, <1>4
<1> QED BY <1>3, <1>4, <1>5

LEMMA StartAttackTurns ==
  ASSUME NEW w, Whole(w), NEW x \in Creatures, NEW c \in Creatures,
         w.status[x] # "none", w.status[c] = "placed"
  PROVE  Turns(w, StartAttack(w, x, c))
<1>1. w \in Worlds
  BY DEF Whole
<1>2. CASE ~OnFloor(w, x, c)
  <2>1. PICK a : a = [w.attacked EXCEPT ![x] = Nobody]
    OBVIOUS
  <2>2. PICK v : v = StartAttack(w, x, c)
    OBVIOUS
  <2>3. v = [w EXCEPT !.attacked = a, !.follow = w.follow]
    BY <1>1, <1>2, <2>1, <2>2 DEF StartAttack, Worlds
  <2>4. a \in [Creatures -> Somebody] /\ w.follow \in [Creatures -> Somebody]
    BY <1>1, <2>1, Kinds DEF Worlds
  <2>5. Pointed(w, v, a, w.follow)
    BY <1>1, <2>3, <2>4, PointersSet, Zenon
  <2>6. \A y \in Creatures : a[y] \in {w.attacked[y], Nobody}
    BY <1>1, <2>1 DEF Worlds
  <2>7. \A y \in Creatures : Aim(w, y, a[y]) /\ Aim(w, y, w.follow[y])
    BY <2>6 DEF Aim
  <2> QED BY <1>1, <2>2, <2>5, <2>6, <2>7, PointedTurns
<1>3. CASE OnFloor(w, x, c)
  <2>1. PICK H : H = Household(w, {x})
    OBVIOUS
  <2>2. PICK a : a = [y \in Creatures |-> IF y \notin H THEN w.attacked[y]
                                          ELSE IF OnFloor(w, y, c) THEN c ELSE Nobody]
    OBVIOUS
  <2>3. PICK v : v = StartAttack(w, x, c)
    OBVIOUS
  <2>4. v = [w EXCEPT !.attacked = a, !.follow = w.follow]
    BY <1>1, <1>3, <2>1, <2>2, <2>3 DEF StartAttack, Worlds
  <2>5. a \in [Creatures -> Somebody] /\ w.follow \in [Creatures -> Somebody]
    BY <1>1, <2>2, Kinds DEF Worlds
  <2>6. Pointed(w, v, a, w.follow)
    BY <1>1, <2>4, <2>5, PointersSet, Zenon
  <2>7. \A y \in Creatures : Aim(w, y, a[y]) /\ Aim(w, y, w.follow[y])
    BY <2>2 DEF Aim
  <2>8. \A y \in Creatures : w.status[y] = "none" => a[y] = w.attacked[y]
    <3>1. \A y \in H : w.status[y] # "none"
      BY <2>1, HouseholdMade
    <3> QED BY <2>2, <3>1
  <2> QED BY <1>1, <2>3, <2>6, <2>7, <2>8, PointedTurns
<1> QED BY <1>2, <1>3

LEMMA SetFollowTurns ==
  ASSUME NEW w \in Worlds, NEW x \in Creatures, NEW c \in Somebody, w.status[x] # "none",
         w.status[x] = "placed" /\ c # Nobody => w.status[c] = "placed"
  PROVE  Turns(w, SetFollow(w, x, c))
<1>1. PICK t : t = IF c # Nobody /\ OnFloor(w, x, c) THEN c ELSE Nobody
  OBVIOUS
<1>2. PICK f : f = [w.follow EXCEPT ![x] = t]
  OBVIOUS
<1>3. PICK v : v = SetFollow(w, x, c)
  OBVIOUS
<1>4. v = [w EXCEPT !.attacked = w.attacked, !.follow = f]
  BY <1>1, <1>2, <1>3 DEF SetFollow, Worlds
<1>5. w.attacked \in [Creatures -> Somebody] /\ f \in [Creatures -> Somebody]
  BY <1>1, <1>2, Kinds DEF Worlds
<1>6. Pointed(w, v, w.attacked, f)
  BY <1>4, <1>5, PointersSet, Zenon
<1>7. f[x] = t /\ \A y \in Creatures \ {x} : f[y] = w.follow[y]
  BY <1>2 DEF Worlds
<1>8. Aim(w, x, t)
  BY <1>1 DEF Aim, Somebody
<1>9. \A y \in Creatures : Aim(w, y, w.attacked[y]) /\ Aim(w, y, f[y])
  <2>1. \A y \in Creatures : Aim(w, y, w.attacked[y]) /\ Aim(w, y, w.follow[y])
    BY DEF Aim
  <2> QED BY <1>7, <1>8, <2>1
<1> QED BY <1>3, <1>6, <1>7, <1>9, PointedTurns

LEMMA SelectTurns ==
  ASSUME NEW w, Whole(w), NEW x \in Creatures, NEW c \in Creatures, w.status[x] # "none"
  PROVE  Turns(w, SelectTarget(w, x, c))
<1>1. CASE IsTarget(w, x, c) /\ c \in w.targets[x]
  <2>1. w.status[c] = "placed"
    BY <1>1 DEF IsTarget
  <2>2. PICK v : v = StartAttack(w, x, c)
    OBVIOUS
  <2>3. Turns(w, v)
    BY <2>1, <2>2, StartAttackTurns
  <2>4. v \in Worlds /\ v.status = w.status
    BY <2>3 DEF Turns, Passes
  <2>5. Turns(v, SetFollow(v, x, c))
    BY <2>1, <2>4, SetFollowTurns, Kinds
  <2>6. SelectTarget(w, x, c) = SetFollow(v, x, c)
    BY <1>1, <2>2 DEF SelectTarget
  <2> QED BY <2>3, <2>5, <2>6, TurnsTwice
<1>2. CASE ~(IsTarget(w, x, c) /\ c \in w.targets[x])
  <2>1. SelectTarget(w, x, c) = w
    BY <1>2 DEF SelectTarget
  <2> QED BY <2>1, DropsSame, DropsTurn DEF Whole
<1> QED BY <1>1, <1>2

-----------------------------------------------------------------------------
(* Moving.                                                                 *)

(* While the move of c is told, whoever was told has lost whom it lost.    *)
LEMMA LosesSightDrops ==
  ASSUME NEW w \in Worlds, NEW x \in Creatures, NEW c \in Creatures, NEW p
  PROVE  /\ Drops(w, LosesSight(w, x, c, p))
         /\ Fits(w, x, c) => Fits(LosesSight(w, x, c, p), x, Nobody)
<1> DEFINE Lost(t) == t # Nobody /\ c \in {x, t} /\ ~OnFloor(w, x, t)
<1>1. PICK v : v = IF Lost(w.follow[x]) THEN OnCreatureDisappear(w, x, w.follow[x]) ELSE w
  OBVIOUS
<1>2. Drops(w, v) /\ ~Lost(v.follow[x])
  <2>1. CASE Lost(w.follow[x])
    <3>1. w.follow[x] \in Creatures
      BY <2>1 DEF Worlds, Somebody
    <3>2. Drops(w, v) /\ v.follow[x] # w.follow[x]
      BY <1>1, <2>1, <3>1, DisappearDrops
    <3>3. v.follow[x] = Nobody
      BY <3>2 DEF Drops
    <3> QED BY <3>2, <3>3
  <2>2. CASE ~Lost(w.follow[x])
    BY <1>1, <2>2, DropsSame
  <2> QED BY <2>1, <2>2
<1>3. PICK u : u = IF Lost(v.attacked[x]) THEN OnCreatureDisappear(v, x, v.attacked[x]) ELSE v
  OBVIOUS
<1>4. Drops(v, u) /\ ~Lost(u.attacked[x])
  <2>1. v \in Worlds
    BY <1>2 DEF Drops
  <2>2. CASE Lost(v.attacked[x])
    <3>1. v.attacked[x] \in Creatures
      BY <2>1, <2>2 DEF Worlds, Somebody
    <3>2. Drops(v, u) /\ u.attacked[x] # v.attacked[x]
      BY <1>3, <2>1, <2>2, <3>1, DisappearDrops
    <3>3. u.attacked[x] = Nobody
      BY <3>2 DEF Drops
    <3> QED BY <3>2, <3>3
  <2>3. CASE ~Lost(v.attacked[x])
    BY <1>3, <2>1, <2>3, DropsSame
  <2> QED BY <2>2, <2>3
<1>5. u = LosesSight(w, x, c, p)
  BY <1>1, <1>3 DEF LosesSight
<1>6. Drops(w, u)
  BY <1>2, <1>4, DropsTwice
<1>7. u.follow[x] \in {v.follow[x], Nobody}
  BY <1>4 DEF Drops
<1>8. ~Lost(u.follow[x]) /\ ~Lost(u.attacked[x])
  BY <1>2, <1>4, <1>7
<1>9. ASSUME Fits(w, x, c) PROVE Fits(u, x, Nobody)
  <2>1. Fits(u, x, c) /\ u.where = w.where
    BY <1>6, <1>9, DropsKeep DEF Drops
  <2>2. \A t : Fit(u, x, t, c) /\ ~Lost(t) => Fit(u, x, t, Nobody)
    BY <2>1 DEF Fit, OnFloor
  <2> QED BY <1>8, <2>1, <2>2 DEF Fits
<1> QED BY <1>5, <1>6, <1>9

LEMMA SeesMoveTurns ==
  ASSUME NEW w, Whole(w), NEW x \in Monsters, w.status[x] # "none", NEW c \in Creatures, NEW p
  PROVE  Turns(w, SeesMove(w, x, c, p))
<1>1. w \in Worlds
  BY DEF Whole
<1> DEFINE now == Sees(w, x, c)
           before == <<w.where[x], p>> \in InSight
<1>2. PICK u : u = IF now /\ ~before THEN OnCreatureFound(w, x, c)
                   ELSE IF ~now /\ before THEN OnCreatureLeave(w, x, c) ELSE w
  OBVIOUS
<1>3. Drops(w, u)
  BY <1>1, <1>2, FoundDrops, LeaveDrops, DropsSame
<1>4. PICK v : v = UpdateIdleStatus(u, x)
  OBVIOUS
<1>5. Drops(w, v)
  <2>1. u \in Worlds /\ u.status[x] # "none"
    BY <1>3 DEF Drops
  <2>2. Drops(u, v)
    BY <1>4, <2>1, UpdateIdleDrops
  <2> QED BY <1>3, <2>2, DropsTwice
<1>6. Turns(w, v) /\ Whole(v) /\ v.status[x] # "none"
  <2>1. Turns(w, v)
    BY <1>5, DropsTurn
  <2> QED BY <2>1, PassesWhole DEF Turns
<1>7. Turns(v, v) /\ Turns(v, SelectTarget(v, x, c))
  BY <1>6, SelectTurns, DropsSame, DropsTurn, Kinds DEF Whole
<1>8. SeesMove(w, x, c, p) \in {v, SelectTarget(v, x, c)}
  BY <1>2, <1>4 DEF SeesMove
<1> QED BY <1>6, <1>7, <1>8, TurnsTwice

(* x is told that c has moved.                                             *)
Moved(w, v, x, c) ==
  Turns(w, v) /\ (Fits(w, x, c) => Fits(v, x, Nobody))

LEMMA MoveTold ==
  ASSUME NEW w, Whole(w), NEW x \in Creatures, w.status[x] # "none", NEW c \in Creatures, NEW p
  PROVE  Moved(w, OnCreatureMove(w, x, c, p), x, c)
<1>1. w \in Worlds
  BY DEF Whole
<1>2. PICK v : v = LosesSight(w, x, c, p)
  OBVIOUS
<1>3. Drops(w, v) /\ (Fits(w, x, c) => Fits(v, x, Nobody))
  BY <1>1, <1>2, LosesSightDrops
<1>4. Turns(w, v) /\ Whole(v) /\ v \in Worlds /\ v.status[x] # "none"
  <2>1. Turns(w, v)
    BY <1>3, DropsTurn
  <2> QED BY <2>1, PassesWhole DEF Turns, Whole
<1>5. PICK u : u = OnCreatureMove(w, x, c, p)
  OBVIOUS
<1>6. Turns(v, u)
  <2>1. CASE x \notin Monsters
    BY <1>2, <1>4, <1>5, <2>1, DropsSame, DropsTurn DEF OnCreatureMove
  <2>2. CASE x \in Monsters /\ x = c
    <3>1. PICK q : q = UpdateTargetList(v, x)
      OBVIOUS
    <3>2. Drops(v, q)
      BY <1>4, <2>2, <3>1, UpdateTargetsDrop
    <3>3. q \in Worlds /\ q.status[x] # "none"
      BY <1>4, <3>2 DEF Drops
    <3>4. Drops(q, UpdateIdleStatus(q, x))
      BY <2>2, <3>3, UpdateIdleDrops
    <3>5. u = UpdateIdleStatus(q, x)
      BY <1>2, <1>5, <2>2, <3>1 DEF OnCreatureMove
    <3> QED BY <3>2, <3>4, <3>5, DropsTwice, DropsTurn
  <2>3. CASE x \in Monsters /\ x # c
    <3>1. u = SeesMove(v, x, c, p)
      BY <1>2, <1>5, <2>3 DEF OnCreatureMove
    <3> QED BY <1>4, <2>3, <3>1, SeesMoveTurns
  <2> QED BY <2>1, <2>2, <2>3
<1>7. Turns(w, u)
  BY <1>4, <1>6, TurnsTwice
<1>8. Fits(v, x, Nobody) => Fits(u, x, Nobody)
  BY <1>6 DEF Turns, Passes
<1> QED BY <1>3, <1>5, <1>7, <1>8 DEF Moved

(* Removals: who is in the game keeps a master in the game.                *)
Leaves(w, v) ==
  /\ Passes(w, v)
  /\ Kin(w) /\ (\A y \in Creatures : Present(w, y)) => \A y \in Creatures : Present(v, y)

LEMMA RemoveLeaves ==
  ASSUME NEW w \in Worlds, NEW c \in Creatures, NEW first
  PROVE  Leaves(w, RemoveCreature(w, c, first))
BY RemovePasses DEF Leaves

LEMMA LeavesTwice ==
  ASSUME NEW w, NEW v, NEW u, Leaves(w, v), Leaves(v, u)
  PROVE  Leaves(w, u)
<1>1. Passes(w, u)
  BY PassesTwice DEF Leaves
<1>2. Kin(w) => Kin(v)
  BY DEF Leaves, Passes
<1> QED BY <1>1, <1>2 DEF Leaves

(* The summons left behind go.                                             *)
Behind(w, S) == Each(S, w, LAMBDA acc, s : RemoveCreature(acc, s, FALSE))

LEMMA LeavingBehind ==
  ASSUME NEW w \in Worlds, NEW S \in SUBSET Creatures, NEW v, v = Behind(w, S)
  PROVE  Leaves(w, v)
<1>1. IsFiniteSet(S)
  BY CreaturesAssumption, FS_Subset
<1> DEFINE Step(u, y) == RemoveCreature(u, y, FALSE)
           Told(g) == g = [T \in SUBSET S |-> IF T = {} THEN w ELSE Step(g[T \ {One(T)}], One(T))]
<1>2. PICK W : W = Worlds
  OBVIOUS
<1>3. w \in W /\ \A u \in W, y \in S : Leaves(u, Step(u, y)) /\ Step(u, y) \in W
  <2>1. ASSUME NEW u \in Worlds, NEW y \in S PROVE Leaves(u, Step(u, y))
    BY RemoveLeaves
  <2> HIDE DEF Step
  <2> QED BY <1>2, <2>1 DEF Leaves, Passes
<1>4. \E g : Told(g)
  <2>1. PICK F : F = [p \in W \X S |-> Step(p[1], p[2])]
    OBVIOUS
  <2>2. F \in [W \X S -> W]
    <3>1. \A u \in W, y \in S : Step(u, y) \in W
      BY <1>3
    <3> HIDE DEF Step
    <3> QED BY <2>1, <3>1
  <2>3. PICK f : Loop(f, S, W, w, F)
    BY <1>1, <1>3, <2>2, LoopExists
  <2>4. ASSUME NEW T \in SUBSET S
        PROVE f[T] = IF T = {} THEN w ELSE Step(f[T \ {One(T)}], One(T))
    <3>1. T # {} => f[T \ {One(T)}] \in W /\ One(T) \in S
      BY <2>3, OneOf DEF Loop
    <3> QED BY <2>1, <2>3, <3>1 DEF Loop
  <2>5. Told(f)
    BY <2>3, <2>4 DEF Loop
  <2> QED BY <2>5
<1>5. PICK g : Told(g) /\ v = g[S]
  <2>1. PICK g : g = CHOOSE f : Told(f)
    OBVIOUS
  <2>2. Told(g)
    BY <1>4, <2>1
  <2>3. v = g[S]
    BY <2>1 DEF Behind, Each, One
  <2> QED BY <2>2, <2>3
<1>6. PICK good : good = {T \in SUBSET S : Leaves(w, g[T])}
  OBVIOUS
<1>7. {} \in good
  BY <1>5, <1>6, DropsSame, DropsPass DEF Leaves
<1>8. ASSUME NEW T \in SUBSET S, T # {}, T \ {One(T)} \in good PROVE T \in good
  <2>1. PICK y, u, h : y = One(T) /\ u = g[T \ {One(T)}] /\ h = g[T]
    OBVIOUS
  <2>2. y \in T /\ h = Step(u, y)
    BY <1>5, <1>8, <2>1, OneOf
  <2>3. Leaves(w, u)
    BY <1>6, <1>8, <2>1
  <2>4. Leaves(u, h)
    <3>1. u \in W
      BY <1>2, <2>3 DEF Leaves, Passes
    <3> HIDE DEF Step, Told
    <3> QED BY <1>3, <2>2, <3>1
  <2> QED BY <1>6, <2>1, <2>3, <2>4, LeavesTwice
<1>9. S \in good
  BY <1>1, <1>7, <1>8, OneByOne
<1> QED BY <1>5, <1>6, <1>9

(* Who watches the move of c is told.                                      *)
Watched(w, S, c, from) == Each(S, w, LAMBDA acc, x : OnCreatureMove(acc, x, c, from))

MovedAll(w, v, S, c) ==
  Turns(w, v) /\ \A x \in S : Fits(w, x, c) => Fits(v, x, Nobody)

LEMMA Watching ==
  ASSUME NEW w, Whole(w), NEW S \in SUBSET Creatures, \A x \in S : w.status[x] # "none",
         NEW c \in Creatures, NEW from, NEW v, v = Watched(w, S, c, from)
  PROVE  MovedAll(w, v, S, c)
<1>1. IsFiniteSet(S)
  BY CreaturesAssumption, FS_Subset
<1> DEFINE Step(u, y) == OnCreatureMove(u, y, c, from)
           Told(g) == g = [T \in SUBSET S |-> IF T = {} THEN w ELSE Step(g[T \ {One(T)}], One(T))]
<1>2. PICK W : W = {u \in Worlds : Whole(u) /\ u.status = w.status}
  OBVIOUS
<1>3. w \in W /\ \A u \in W, y \in S : Moved(u, Step(u, y), y, c) /\ Step(u, y) \in W
  <2>1. ASSUME NEW u \in W, NEW y \in S PROVE Moved(u, Step(u, y), y, c) /\ Step(u, y) \in W
    <3>1. Whole(u) /\ u.status = w.status /\ u.status[y] # "none" /\ y \in Creatures
      BY <1>2
    <3>2. PICK h : h = Step(u, y)
      OBVIOUS
    <3>3. Moved(u, h, y, c)
      BY <3>1, <3>2, MoveTold
    <3>4. Whole(h) /\ h.status = u.status
      BY <3>1, <3>3, PassesWhole DEF Moved, Turns
    <3> QED BY <1>2, <3>1, <3>2, <3>3, <3>4 DEF Whole
  <2> HIDE DEF Step
  <2> QED BY <1>2, <2>1 DEF Whole
<1>4. \E g : Told(g)
  <2>1. PICK F : F = [p \in W \X S |-> Step(p[1], p[2])]
    OBVIOUS
  <2>2. F \in [W \X S -> W]
    <3>1. \A u \in W, y \in S : Step(u, y) \in W
      BY <1>3
    <3> HIDE DEF Step
    <3> QED BY <2>1, <3>1
  <2>3. PICK f : Loop(f, S, W, w, F)
    BY <1>1, <1>3, <2>2, LoopExists
  <2>4. ASSUME NEW T \in SUBSET S
        PROVE f[T] = IF T = {} THEN w ELSE Step(f[T \ {One(T)}], One(T))
    <3>1. T # {} => f[T \ {One(T)}] \in W /\ One(T) \in S
      BY <2>3, OneOf DEF Loop
    <3> QED BY <2>1, <2>3, <3>1 DEF Loop
  <2>5. Told(f)
    BY <2>3, <2>4 DEF Loop
  <2> QED BY <2>5
<1>5. PICK g : Told(g) /\ v = g[S]
  <2>1. PICK g : g = CHOOSE f : Told(f)
    OBVIOUS
  <2>2. Told(g)
    BY <1>4, <2>1
  <2>3. v = g[S]
    BY <2>1 DEF Watched, Each, One
  <2> QED BY <2>2, <2>3
<1>6. PICK good : good = {T \in SUBSET S : MovedAll(w, g[T], T, c)}
  OBVIOUS
<1>7. {} \in good
  BY <1>5, <1>6, DropsSame, DropsTurn DEF MovedAll, Whole
<1>8. ASSUME NEW T \in SUBSET S, T # {}, T \ {One(T)} \in good PROVE T \in good
  <2>1. PICK y, u, h : y = One(T) /\ u = g[T \ {One(T)}] /\ h = g[T]
    OBVIOUS
  <2>2. y \in T /\ h = Step(u, y)
    BY <1>5, <1>8, <2>1, OneOf
  <2>3. MovedAll(w, u, T \ {y}, c)
    BY <1>6, <1>8, <2>1
  <2>4. Moved(u, h, y, c)
    <3>1. u \in W
      BY <1>2, <2>3, PassesWhole DEF MovedAll, Turns, Whole
    <3> HIDE DEF Step, Told
    <3> QED BY <1>3, <2>2, <3>1
  <2>5. Turns(w, h)
    BY <2>3, <2>4, TurnsTwice DEF MovedAll, Moved
  <2>6. ASSUME NEW x \in T, Fits(w, x, c) PROVE Fits(h, x, Nobody)
    <3>1. x \in Creatures
      OBVIOUS
    <3>2. CASE x # y
      <4>1. Fits(u, x, Nobody)
        BY <2>3, <2>6, <3>2 DEF MovedAll
      <4> QED BY <2>4, <3>1, <4>1 DEF Moved, Turns, Passes
    <3>3. CASE x = y
      <4>1. Fits(u, x, c)
        BY <2>3, <2>6, <3>1 DEF MovedAll, Turns, Passes
      <4> QED BY <2>4, <3>3, <4>1 DEF Moved
    <3> QED BY <3>2, <3>3
  <2> QED BY <1>6, <2>1, <2>5, <2>6 DEF MovedAll
<1>9. S \in good
  BY <1>1, <1>7, <1>8, OneByOne
<1> QED BY <1>5, <1>6, <1>9

-----------------------------------------------------------------------------
(* The invariant, of a world.                                              *)

Sound(w) ==
  /\ Whole(w)
  /\ \A y \in Creatures : Fits(w, y, Nobody) /\ Visited(w, y) /\ Present(w, y)

Filled(w) == {m \in Monsters : w.status[m] = "placed" /\ w.spawned[m] # NotSpawned}

Counted(w) == Cardinality(Filled(w)) < w.minded => w.spawnEvent

Good(w) == Sound(w) /\ Counted(w)

LEMMA PassesCounted ==
  ASSUME NEW w \in Worlds, NEW v, Passes(w, v), Counted(w)
  PROVE  Counted(v)
<1>1. CASE Filled(v) = Filled(w)
  BY <1>1 DEF Counted, Passes
<1>2. CASE Filled(v) # Filled(w)
  <2>1. \A y \in Creatures : v.status[y] = w.status[y]
                            \/ (w.status[y] = "placed" /\ v.status[y] = "removed")
    BY DEF Passes
  <2>2. v.spawned = w.spawned /\ v.minded = w.minded
    BY DEF Passes
  <2>3. PICK m \in Monsters : w.status[m] = "placed" /\ v.status[m] = "removed"
                              /\ w.spawned[m] # NotSpawned
    BY <1>2, <2>1, <2>2, Kinds DEF Filled
  <2> QED BY <2>3 DEF Passes, Counted
<1> QED BY <1>1, <1>2

LEMMA LeavesSound ==
  ASSUME NEW w, Sound(w), NEW v, Leaves(w, v)
  PROVE  Sound(v)
<1>1. Whole(v) /\ \A y \in Creatures : Present(v, y)
  BY PassesWhole DEF Leaves, Sound, Whole
<1>2. \A y \in Creatures : Fits(v, y, Nobody) /\ Visited(v, y)
  BY DEF Sound, Leaves, Passes
<1> QED BY <1>1, <1>2 DEF Sound

LEMMA LeavesGood ==
  ASSUME NEW w, Good(w), NEW v, Leaves(w, v)
  PROVE  Good(v)
<1>1. Sound(v)
  BY LeavesSound DEF Good
<1>2. w \in Worlds /\ Counted(w) /\ Passes(w, v)
  BY DEF Good, Sound, Whole, Leaves
<1>3. Counted(v)
  BY <1>2, PassesCounted
<1> QED BY <1>1, <1>3 DEF Good

LEMMA TurnsLeave ==
  ASSUME NEW w, NEW v, Turns(w, v)
  PROVE  Leaves(w, v)
BY DEF Turns, Leaves, Present

LEMMA DropsLeave ==
  ASSUME NEW w, NEW v, Drops(w, v)
  PROVE  Leaves(w, v)
BY DropsTurn, TurnsLeave

(* c is somewhere else.                                                    *)
Shifted(w, v, c, q) ==
  /\ v \in Worlds
  /\ v.where[c] = q /\ \A y \in Creatures \ {c} : v.where[y] = w.where[y]
  /\ v.status = w.status /\ v.alive = w.alive /\ v.attacked = w.attacked
  /\ v.follow = w.follow /\ v.master = w.master /\ v.summons = w.summons
  /\ v.targets = w.targets /\ v.idle = w.idle /\ v.afflicted = w.afflicted
  /\ v.check = w.check /\ v.listed = w.listed /\ v.release = w.release
  /\ v.spawned = w.spawned /\ v.minded = w.minded /\ v.spawnEvent = w.spawnEvent

LEMMA WhereSet ==
  ASSUME NEW w \in Worlds, NEW c \in Creatures, NEW q \in Places,
         NEW v, v = [w EXCEPT !.where[c] = q]
  PROVE  Shifted(w, v, c, q)
<1>1. PICK f : f = [w.where EXCEPT ![c] = q]
  OBVIOUS
<1>2. f \in [Creatures -> Places]
  BY <1>1 DEF Worlds
<1>3. v = [w EXCEPT !.where = f]
  BY <1>1 DEF Worlds
<1>4. v \in Worlds
  BY <1>2, <1>3 DEF Worlds
<1>5. v.where = f
  BY <1>3 DEF Worlds
<1>6. f[c] = q /\ \A y \in Creatures \ {c} : f[y] = w.where[y]
  BY <1>1 DEF Worlds
<1>7. /\ v.status = w.status /\ v.alive = w.alive /\ v.attacked = w.attacked
      /\ v.follow = w.follow /\ v.master = w.master /\ v.summons = w.summons
      /\ v.targets = w.targets /\ v.idle = w.idle /\ v.afflicted = w.afflicted
      /\ v.check = w.check /\ v.listed = w.listed /\ v.release = w.release
      /\ v.spawned = w.spawned /\ v.minded = w.minded /\ v.spawnEvent = w.spawnEvent
  BY <1>3 DEF Worlds
<1> QED BY <1>4, <1>5, <1>6, <1>7 DEF Shifted

LEMMA MoveGood ==
  ASSUME NEW w, Good(w), NEW c \in Creatures, NEW q \in Places
  PROVE  /\ Good(MoveCreature(w, c, q))
         /\ \A y \in Creatures : w.status[y] # "none" => MoveCreature(w, c, q).status[y] # "none"
<1>1. w \in Worlds /\ Whole(w) /\ Sound(w) /\ Counted(w)
  BY DEF Good, Sound, Whole
<1>2. PICK v : v = [w EXCEPT !.where[c] = q]
  OBVIOUS
<1>3. Shifted(w, v, c, q)
  BY <1>1, <1>2, WhereSet
<1>4. PICK S : S = Spectators(w, c) \cup Spectators(v, c)
  OBVIOUS
<1>5. S \in SUBSET Creatures /\ \A x \in S : v.status[x] = "placed"
  BY <1>3, <1>4 DEF Spectators, Placed, Shifted
<1>6. ASSUME NEW y \in Creatures
      PROVE  Fits(v, y, c) /\ (y \notin S => Fits(v, y, Nobody))
  <2>1. SUFFICES ASSUME w.status[y] = "placed" PROVE Fits(v, y, c) /\ (y \notin S => Fits(v, y, Nobody))
    BY <1>3 DEF Shifted, Fits
  <2>2. /\ Fit(w, y, w.attacked[y], Nobody) /\ Fit(w, y, w.follow[y], Nobody)
        /\ v.attacked = w.attacked /\ v.follow = w.follow
    BY <1>1, <1>3, <2>1 DEF Sound, Fits, Shifted
  <2>3. ASSUME NEW t, Fit(w, y, t, Nobody)
        PROVE  Fit(v, y, t, c) /\ (y \notin S => Fit(v, y, t, Nobody))
    <3>1. CASE t = Nobody
      BY <3>1 DEF Fit
    <3>2. CASE t # Nobody
      <4>1. t \in Creatures /\ w.status[t] = "placed" /\ OnFloor(w, y, t)
        BY <2>3, <3>2, Kinds DEF Fit
      <4>2. v.status[t] = "placed"
        BY <1>3, <4>1 DEF Shifted
      <4>3. c \notin {y, t} => OnFloor(v, y, t)
        BY <1>3, <4>1 DEF Shifted, OnFloor
      <4>4. y \notin S => c \notin {y, t}
        <5>1. y \in Spectators(w, y) /\ (t = c => y \in Spectators(w, c))
          BY <1>1, <2>1, <4>1, CreaturesAssumption
             DEF Spectators, Placed, Sees, OnFloor, Worlds
        <5> QED BY <1>4, <5>1
      <4> QED BY <4>1, <4>2, <4>3, <4>4 DEF Fit
    <3> QED BY <3>1, <3>2
  <2> QED BY <2>2, <2>3 DEF Fits
<1>7. Whole(v) /\ Counted(v) /\ \A y \in Creatures : Visited(v, y) /\ Present(v, y)
  <2>1. Kin(v)
    BY <1>1, <1>3 DEF Shifted, Whole, Kin
  <2>2. \A y \in Creatures : Fresh(v, y)
    BY <1>1, <1>3 DEF Shifted, Whole, Fresh
  <2>3. \A y \in Creatures : Visited(v, y) /\ Present(v, y)
    BY <1>1, <1>3 DEF Shifted, Sound, Visited, Present
  <2>4. Counted(v)
    BY <1>1, <1>3 DEF Shifted, Counted, Filled
  <2> QED BY <1>3, <2>1, <2>2, <2>3, <2>4 DEF Whole, Shifted
<1>8. PICK B : B = {s \in v.summons[c] : <<q, v.where[s]>> \in TooFar}
  OBVIOUS
<1>9. B \in SUBSET Creatures
  BY <1>3, <1>8 DEF Shifted, Worlds
<1>10. PICK u : u = Behind(v, B)
  OBVIOUS
<1>11. Leaves(v, u)
  BY <1>7, <1>9, <1>10, LeavingBehind DEF Whole
<1>12. /\ Whole(u) /\ Counted(u)
       /\ \A y \in Creatures : Visited(u, y) /\ Present(u, y) /\ Fits(u, y, c)
       /\ \A y \in Creatures \ S : Fits(u, y, Nobody)
       /\ \A x \in S : u.status[x] # "none"
  <2>1. Passes(v, u) /\ v \in Worlds
    BY <1>7, <1>11 DEF Leaves, Whole
  <2>2. Whole(u) /\ Counted(u)
    BY <1>7, <2>1, PassesWhole, PassesCounted
  <2>3. \A y \in Creatures : Present(u, y)
    BY <1>7, <1>11 DEF Leaves, Whole
  <2>4. \A y \in Creatures : Visited(u, y) /\ Fits(u, y, c)
    BY <1>6, <1>7, <2>1 DEF Passes
  <2>5. \A y \in Creatures \ S : Fits(u, y, Nobody)
    BY <1>6, <2>1 DEF Passes
  <2>6. \A x \in S : u.status[x] # "none"
    BY <1>5, <2>1 DEF Passes
  <2> QED BY <2>2, <2>3, <2>4, <2>5, <2>6
<1>13. PICK r : r = Watched(u, S, c, w.where[c])
  OBVIOUS
<1>14. MovedAll(u, r, S, c)
  BY <1>5, <1>12, <1>13, Watching
<1>15. r = MoveCreature(w, c, q)
  BY <1>2, <1>4, <1>8, <1>10, <1>13 DEF MoveCreature, Watched, Behind
<1>16. Good(r)
  <2>1. Passes(u, r) /\ Leaves(u, r) /\ u \in Worlds
    BY <1>12, <1>14, TurnsLeave DEF MovedAll, Turns, Whole
  <2>2. Whole(r) /\ Counted(r)
    BY <1>12, <2>1, PassesWhole, PassesCounted
  <2>3. \A y \in Creatures : Present(r, y)
    BY <1>12, <2>1 DEF Leaves, Whole
  <2>4. \A y \in Creatures : Visited(r, y)
    BY <1>12, <2>1 DEF Passes
  <2>5. \A y \in Creatures : Fits(r, y, Nobody)
    <3>1. \A y \in S : Fits(r, y, Nobody)
      BY <1>5, <1>12, <1>14 DEF MovedAll
    <3>2. \A y \in Creatures \ S : Fits(r, y, Nobody)
      BY <1>12, <2>1 DEF Passes
    <3> QED BY <3>1, <3>2
  <2> QED BY <2>2, <2>3, <2>4, <2>5 DEF Good, Sound
<1>17. \A y \in Creatures : w.status[y] # "none" => r.status[y] # "none"
  <2>1. v.status = w.status /\ r.status = u.status
    BY <1>3, <1>14 DEF Shifted, MovedAll, Turns
  <2>2. \A y \in Creatures : v.status[y] # "none" => u.status[y] # "none"
    BY <1>11 DEF Leaves, Passes
  <2> QED BY <2>1, <2>2
<1> QED BY <1>15, <1>16, <1>17

LEMMA TurnsGood ==
  ASSUME NEW w, Good(w), NEW v, Turns(w, v)
  PROVE  Good(v)
BY TurnsLeave, LeavesGood

LEMMA DropsGood ==
  ASSUME NEW w, Good(w), NEW v, Drops(w, v)
  PROVE  Good(v)
BY DropsLeave, LeavesGood

LEMMA GoodWhole ==
  ASSUME NEW w, Good(w)
  PROVE  Whole(w) /\ w \in Worlds /\ Sound(w)
BY DEF Good, Sound, Whole

(* Only what the invariant does not look at changes.                       *)
Alike(w, v) ==
  /\ v \in Worlds
  /\ v.status = w.status /\ v.where = w.where /\ v.alive = w.alive
  /\ v.attacked = w.attacked /\ v.follow = w.follow /\ v.master = w.master
  /\ v.summons = w.summons /\ v.idle = w.idle /\ v.check = w.check
  /\ v.listed = w.listed /\ v.spawned = w.spawned /\ v.minded = w.minded /\ v.spawnEvent = w.spawnEvent

LEMMA AlikeSound ==
  ASSUME NEW w, Sound(w), NEW v, Alike(w, v)
  PROVE  Sound(v)
<1>1. Kin(v)
  BY DEF Sound, Whole, Kin, Alike
<1>2. \A y \in Creatures : Fresh(v, y)
  BY DEF Sound, Whole, Fresh, Alike
<1>3. \A y \in Creatures : Visited(v, y) /\ Present(v, y)
  BY DEF Sound, Visited, Present, Alike
<1>4. \A y \in Creatures : Fits(v, y, Nobody)
  BY DEF Sound, Fits, Fit, OnFloor, Alike
<1> QED BY <1>1, <1>2, <1>3, <1>4 DEF Sound, Whole, Alike

LEMMA AlikeGood ==
  ASSUME NEW w, Good(w), NEW v, Alike(w, v)
  PROVE  Good(v)
<1>1. Sound(v)
  BY AlikeSound DEF Good
<1>2. Counted(v)
  BY DEF Good, Counted, Filled, Alike
<1> QED BY <1>1, <1>2 DEF Good

LEMMA CleanupGood ==
  ASSUME NEW w, Good(w)
  PROVE  Good(Cleanup(w))
<1>1. PICK r : r = [c \in Creatures |-> 0]
  OBVIOUS
<1>2. r \in [Creatures -> Nat]
  BY <1>1
<1>3. PICK v : v = Cleanup(w)
  OBVIOUS
<1>4. v = [w EXCEPT !.release = r]
  BY <1>1, <1>3 DEF Cleanup
<1>5. w \in Worlds
  BY GoodWhole
<1>6. v \in Worlds
  BY <1>2, <1>4, <1>5 DEF Worlds
<1>7. Alike(w, v)
  BY <1>4, <1>5, <1>6 DEF Worlds, Alike
<1> QED BY <1>3, <1>7, AlikeGood

-----------------------------------------------------------------------------
(* Thinking.                                                               *)

LEMMA ObeyTurns ==
  ASSUME NEW w, Good(w), NEW x \in Monsters, w.status[x] # "none", IsSummon(w, x)
  PROVE  Turns(w, Obey(w, x))
<1>1. Whole(w) /\ w \in Worlds /\ Sound(w) /\ x \in Creatures
  BY GoodWhole, Kinds
<1>2. PICK m : m = w.master[x]
  OBVIOUS
<1>3. m \in Creatures /\ (w.status[x] = "placed" => w.status[m] = "placed")
  BY <1>1, <1>2 DEF Worlds, Somebody, IsSummon, Sound, Present
<1>4. CASE w.attacked[x] = Nobody /\ w.attacked[m] # Nobody
  <2>1. w.attacked[m] \in Creatures
    BY <1>1, <1>3, <1>4 DEF Worlds, Somebody
  <2>2. Obey(w, x) = SelectTarget(w, x, w.attacked[m])
    BY <1>2, <1>4 DEF Obey
  <2> QED BY <1>1, <2>1, <2>2, SelectTurns
<1>5. CASE w.attacked[x] = Nobody /\ w.attacked[m] = Nobody
  <2>1. Obey(w, x) = SetFollow(w, x, m)
    BY <1>2, <1>5 DEF Obey
  <2> QED BY <1>1, <1>3, <2>1, SetFollowTurns, Kinds
<1>6. CASE w.attacked[x] # Nobody
  <2>1. PICK t : t = IF w.attacked[x] = x THEN Nobody ELSE w.attacked[x]
    OBVIOUS
  <2>2. t \in Somebody
    BY <1>1, <2>1 DEF Worlds, Somebody
  <2>3. w.status[x] = "placed" /\ t # Nobody => w.status[t] = "placed"
    <3>1. w.status[x] = "placed" => Fit(w, x, w.attacked[x], Nobody)
      BY <1>1 DEF Sound, Fits
    <3> QED BY <1>1, <2>1, <3>1, Kinds DEF Fit
  <2>4. Obey(w, x) = SetFollow(w, x, t)
    BY <1>6, <2>1 DEF Obey
  <2> QED BY <1>1, <2>2, <2>3, <2>4, SetFollowTurns
<1> QED BY <1>4, <1>5, <1>6

LEMMA ThoughtsGood ==
  ASSUME NEW w, Good(w), NEW x \in Monsters, w.status[x] # "none", NEW v \in Thoughts(w, x)
  PROVE  Good(v)
<1>1. Whole(w) /\ w \in Worlds /\ x \in Creatures
  BY GoodWhole, Kinds
<1>2. PICK u : u = UpdateIdleStatus(w, x)
  OBVIOUS
<1>3. Drops(w, u) /\ Good(u) /\ Whole(u) /\ u \in Worlds /\ u.status[x] # "none"
  <2>1. Drops(w, u)
    BY <1>1, <1>2, UpdateIdleDrops
  <2>2. Good(u)
    BY <2>1, DropsGood
  <2> QED BY <2>1, <2>2, GoodWhole DEF Drops
<1>4. \/ v = u
      \/ v = Obey(u, x) /\ IsSummon(u, x)
      \/ \E c \in u.targets[x] : v = SelectTarget(u, x, c)
      \/ w.spawned[x] \in Blocks /\ v = SetIdle(MoveCreature(w, x, Home[w.spawned[x]]), x, TRUE)
  BY <1>2 DEF Thoughts
<1>5. CASE v = u
  BY <1>3, <1>5
<1>6. CASE v = Obey(u, x) /\ IsSummon(u, x)
  BY <1>3, <1>6, ObeyTurns, TurnsGood
<1>7. CASE \E c \in u.targets[x] : v = SelectTarget(u, x, c)
  <2>1. PICK c \in Creatures : v = SelectTarget(u, x, c)
    BY <1>3, <1>7 DEF Worlds
  <2> QED BY <1>1, <1>3, <2>1, SelectTurns, TurnsGood
<1>8. CASE w.spawned[x] \in Blocks /\ v = SetIdle(MoveCreature(w, x, Home[w.spawned[x]]), x, TRUE)
  <2>1. Home[w.spawned[x]] \in Places
    BY <1>8, CreaturesAssumption
  <2>2. PICK q : q = MoveCreature(w, x, Home[w.spawned[x]])
    OBVIOUS
  <2>3. Good(q) /\ q.status[x] # "none"
    BY <1>1, <2>1, <2>2, MoveGood
  <2>4. q \in Worlds
    BY <2>3, GoodWhole
  <2>5. Drops(q, v)
    BY <1>8, <2>2, <2>3, <2>4, SetIdleDrops
  <2> QED BY <2>3, <2>5, DropsGood
<1> QED BY <1>4, <1>5, <1>6, <1>7, <1>8

-----------------------------------------------------------------------------
(* Dying.                                                                  *)

(* The monsters of S die, and are nobody's any more.                       *)
Orphaned(w, v, S) ==
  /\ v \in Worlds
  /\ v.status = w.status /\ v.where = w.where /\ v.summons = w.summons
  /\ v.spawned = w.spawned /\ v.minded = w.minded /\ v.spawnEvent = w.spawnEvent
  /\ \A y \in Creatures : v.attacked[y] \in {w.attacked[y], Nobody}
                          /\ v.follow[y] \in {w.follow[y], Nobody}
  /\ \A y \in Creatures : /\ v.alive[y] = IF y \in S THEN FALSE ELSE w.alive[y]
                          /\ v.master[y] = IF y \in S THEN Nobody ELSE w.master[y]
  /\ \A y \in Creatures : v.listed[y] = w.listed[y] \/ w.status[y] # "none"
  /\ \A y \in Creatures : Visited(w, y) => Visited(v, y)

LEMMA OrphanOne ==
  ASSUME NEW w \in Worlds, NEW s \in Monsters, w.status[s] # "none"
  PROVE  Orphaned(w, Orphan(w, s), {s})
<1>1. s \in Creatures
  BY Kinds
<1>2. PICK u, v : u = SetIdle(w, s, FALSE) /\ v = Orphan(w, s)
  OBVIOUS
<1>3. Drops(w, u) /\ u \in Worlds
  BY <1>2, SetIdleDrops DEF Drops
<1>4. PICK a, m : a = [u.alive EXCEPT ![s] = FALSE] /\ m = [u.master EXCEPT ![s] = Nobody]
  OBVIOUS
<1>5. a \in [Creatures -> BOOLEAN] /\ m \in [Creatures -> Somebody]
  BY <1>3, <1>4, Kinds DEF Worlds
<1>6. v = [u EXCEPT !.alive = a, !.master = m]
  BY <1>2, <1>3, <1>4 DEF Orphan, Worlds
<1>7. v \in Worlds /\ v.alive = a /\ v.master = m
  BY <1>3, <1>5, <1>6 DEF Worlds
<1>8. /\ v.status = u.status /\ v.where = u.where /\ v.summons = u.summons
      /\ v.spawned = u.spawned /\ v.minded = u.minded /\ v.spawnEvent = u.spawnEvent
      /\ v.attacked = u.attacked /\ v.follow = u.follow
      /\ v.idle = u.idle /\ v.check = u.check /\ v.listed = u.listed
  BY <1>3, <1>6 DEF Worlds
<1>9. /\ a[s] = FALSE /\ \A y \in Creatures \ {s} : a[y] = u.alive[y]
      /\ m[s] = Nobody /\ \A y \in Creatures \ {s} : m[y] = u.master[y]
  BY <1>1, <1>3, <1>4 DEF Worlds
<1>10. ASSUME NEW y \in Creatures, Visited(w, y) PROVE Visited(v, y)
  <2>1. Visited(u, y)
    BY <1>3, <1>10 DEF Drops
  <2>2. CASE y # s
    BY <1>7, <1>8, <1>9, <2>1, <2>2 DEF Visited
  <2>3. CASE y = s
    <3>1. SUFFICES ASSUME w.status[s] = "placed" PROVE u.check[s] = TRUE /\ u.listed[s] = TRUE
      BY <1>3, <1>8, <2>3 DEF Visited, Drops
    <3>2. CASE ~w.alive[s]
      <4>1. u = w
        BY <1>2, <3>2 DEF SetIdle
      <4>2. w.alive[s] = FALSE
        BY <1>1, <3>2 DEF Worlds
      <4> QED BY <1>10, <2>3, <3>1, <4>1, <4>2 DEF Visited
    <3>3. CASE w.alive[s]
      <4>1. u = [w EXCEPT !.idle[s] = FALSE, !.check[s] = TRUE, !.listed[s] = TRUE]
        BY <1>2, <3>1, <3>3 DEF SetIdle
      <4> QED BY <1>1, <4>1 DEF Worlds
    <3> QED BY <3>2, <3>3
  <2> QED BY <2>2, <2>3
<1>11. \A y \in Creatures : /\ v.alive[y] = IF y \in {s} THEN FALSE ELSE w.alive[y]
                            /\ v.master[y] = IF y \in {s} THEN Nobody ELSE w.master[y]
  BY <1>3, <1>7, <1>9 DEF Drops
<1>12. /\ v.status = w.status /\ v.where = w.where /\ v.summons = w.summons
       /\ v.spawned = w.spawned /\ v.minded = w.minded /\ v.spawnEvent = w.spawnEvent
  BY <1>3, <1>8 DEF Drops
<1>13. /\ \A y \in Creatures : v.attacked[y] \in {w.attacked[y], Nobody}
                               /\ v.follow[y] \in {w.follow[y], Nobody}
       /\ \A y \in Creatures : v.listed[y] = w.listed[y] \/ w.status[y] # "none"
  BY <1>3, <1>8 DEF Drops
<1>14. Orphaned(w, v, {s})
  BY <1>7, <1>10, <1>11, <1>12, <1>13 DEF Orphaned
<1> QED BY <1>2, <1>14

LEMMA OrphanedTwice ==
  ASSUME NEW w, NEW v, NEW u, NEW S, NEW y, Orphaned(w, v, S \ {y}), Orphaned(v, u, {y}), y \in S
  PROVE  Orphaned(w, u, S)
<1>1. \A z \in Creatures : /\ u.alive[z] = IF z \in S THEN FALSE ELSE w.alive[z]
                           /\ u.master[z] = IF z \in S THEN Nobody ELSE w.master[z]
  <2> TAKE z \in Creatures
  <2>1. /\ v.alive[z] = IF z \in S \ {y} THEN FALSE ELSE w.alive[z]
        /\ v.master[z] = IF z \in S \ {y} THEN Nobody ELSE w.master[z]
    BY DEF Orphaned
  <2>2. /\ u.alive[z] = IF z \in {y} THEN FALSE ELSE v.alive[z]
        /\ u.master[z] = IF z \in {y} THEN Nobody ELSE v.master[z]
    BY DEF Orphaned
  <2>3. CASE z = y
    BY <2>2, <2>3
  <2>4. CASE z # y
    BY <2>1, <2>2, <2>4
  <2> QED BY <2>3, <2>4
<1>2. \A z \in Creatures : u.attacked[z] \in {w.attacked[z], Nobody}
                           /\ u.follow[z] \in {w.follow[z], Nobody}
  BY DEF Orphaned
<1>3. \A z \in Creatures : u.listed[z] = w.listed[z] \/ w.status[z] # "none"
  BY DEF Orphaned
<1>4. \A z \in Creatures : Visited(w, z) => Visited(u, z)
  BY DEF Orphaned
<1> QED BY <1>1, <1>2, <1>3, <1>4 DEF Orphaned

LEMMA Orphans ==
  ASSUME NEW w \in Worlds, NEW S \in SUBSET Monsters, \A s \in S : w.status[s] # "none",
         NEW v, v = Each(S, w, Orphan)
  PROVE  Orphaned(w, v, S)
<1>1. IsFiniteSet(S)
  BY CreaturesAssumption, Kinds, FS_Subset
<1> DEFINE Step(u, y) == Orphan(u, y)
           Told(g) == g = [T \in SUBSET S |-> IF T = {} THEN w ELSE Step(g[T \ {One(T)}], One(T))]
<1>2. PICK W : W = {u \in Worlds : u.status = w.status}
  OBVIOUS
<1>3. w \in W /\ \A u \in W, y \in S : Orphaned(u, Step(u, y), {y}) /\ Step(u, y) \in W
  <2>1. ASSUME NEW u \in W, NEW y \in S PROVE Orphaned(u, Step(u, y), {y}) /\ Step(u, y) \in W
    <3>1. u \in Worlds /\ u.status = w.status /\ u.status[y] # "none" /\ y \in Monsters
      BY <1>2
    <3>2. Orphaned(u, Step(u, y), {y})
      BY <3>1, OrphanOne
    <3> QED BY <1>2, <3>1, <3>2 DEF Orphaned
  <2> HIDE DEF Step
  <2> QED BY <1>2, <2>1
<1>4. \E g : Told(g)
  <2>1. PICK F : F = [p \in W \X S |-> Step(p[1], p[2])]
    OBVIOUS
  <2>2. F \in [W \X S -> W]
    <3>1. \A u \in W, y \in S : Step(u, y) \in W
      BY <1>3
    <3> HIDE DEF Step
    <3> QED BY <2>1, <3>1
  <2>3. PICK f : Loop(f, S, W, w, F)
    BY <1>1, <1>3, <2>2, LoopExists
  <2>4. ASSUME NEW T \in SUBSET S
        PROVE f[T] = IF T = {} THEN w ELSE Step(f[T \ {One(T)}], One(T))
    <3>1. T # {} => f[T \ {One(T)}] \in W /\ One(T) \in S
      BY <2>3, OneOf DEF Loop
    <3> QED BY <2>1, <2>3, <3>1 DEF Loop
  <2>5. Told(f)
    BY <2>3, <2>4 DEF Loop
  <2> QED BY <2>5
<1>5. PICK g : Told(g) /\ v = g[S]
  <2>1. PICK g : g = CHOOSE f : Told(f)
    OBVIOUS
  <2>2. Told(g)
    BY <1>4, <2>1
  <2>3. v = g[S]
    BY <2>1 DEF Each, One
  <2> QED BY <2>2, <2>3
<1>6. PICK good : good = {T \in SUBSET S : Orphaned(w, g[T], T)}
  OBVIOUS
<1>7. {} \in good
  BY <1>5, <1>6 DEF Orphaned
<1>8. ASSUME NEW T \in SUBSET S, T # {}, T \ {One(T)} \in good PROVE T \in good
  <2>1. PICK y, u, h : y = One(T) /\ u = g[T \ {One(T)}] /\ h = g[T]
    OBVIOUS
  <2>2. y \in T /\ h = Step(u, y)
    BY <1>5, <1>8, <2>1, OneOf
  <2>3. Orphaned(w, u, T \ {y})
    BY <1>6, <1>8, <2>1
  <2>4. Orphaned(u, h, {y})
    <3>1. u \in W
      BY <1>2, <2>3 DEF Orphaned
    <3> HIDE DEF Step, Told
    <3> QED BY <1>3, <2>2, <3>1
  <2>5. Orphaned(w, h, T)
    BY <2>2, <2>3, <2>4, OrphanedTwice
  <2> QED BY <1>6, <2>1, <2>5
<1>9. S \in good
  BY <1>1, <1>7, <1>8, OneByOne
<1> QED BY <1>5, <1>6, <1>9

LEMMA MasterGood ==
  ASSUME NEW w, Good(w), NEW c \in Creatures
  PROVE  Good(SetMaster(w, c, Nobody))
<1>1. w \in Worlds /\ Whole(w)
  BY GoodWhole
<1>2. PICK v : v = SetMaster(w, c, Nobody)
  OBVIOUS
<1>3. Mastered(w, v, c, Nobody)
  BY <1>1, <1>2, MasterSet, Kinds
<1>4. (Kin(w) => Kin(v)) /\ \A y \in Creatures : Fresh(w, y) => Fresh(v, y)
  BY <1>1, <1>3, MasterLost
<1>5. Whole(v)
  BY <1>1, <1>3, <1>4 DEF Whole, Mastered
<1>6. \A y \in Creatures : v.master[y] \in {w.master[y], Nobody}
  BY <1>1, <1>3 DEF Mastered, Worlds
<1>7. ASSUME NEW y \in Creatures PROVE Fits(v, y, Nobody) /\ Visited(v, y) /\ Present(v, y)
  <2>1. Fits(w, y, Nobody) /\ Visited(w, y) /\ Present(w, y)
    BY DEF Good, Sound
  <2>2. Fits(v, y, Nobody)
    BY <1>3, <2>1 DEF Mastered, Fits, Fit, OnFloor
  <2>3. Visited(v, y)
    BY <1>3, <2>1 DEF Mastered, Visited
  <2>4. Present(v, y)
    BY <1>3, <1>6, <2>1 DEF Mastered, Present
  <2> QED BY <2>2, <2>3, <2>4
<1>8. Counted(v)
  BY <1>3 DEF Good, Counted, Filled, Mastered
<1> QED BY <1>2, <1>5, <1>7, <1>8 DEF Good, Sound

LEMMA DieGood ==
  ASSUME NEW w, Good(w), NEW c \in Monsters
  PROVE  Good(Die(w, c))
<1>1. PICK v : v = StopAttack(w, {c})
  OBVIOUS
<1>0. c \in Creatures
  BY Kinds
<1>2. Good(v) /\ v \in Worlds /\ Whole(v)
  <2>1. Drops(w, v)
    BY <1>0, <1>1, StopAttackDrops, GoodWhole
  <2> QED BY <2>1, DropsGood, GoodWhole
<1>3. PICK S : S = v.summons[c]
  OBVIOUS
<1>4. /\ S \in SUBSET Monsters /\ \A s \in S : v.status[s] # "none"
      /\ \A s \in Creatures : s \in S <=> v.master[s] = c
  <2>1. S \in SUBSET Creatures
    BY <1>0, <1>2, <1>3 DEF Worlds
  <2>2. \A s \in Creatures : s \in S <=> v.master[s] = c
    BY <1>0, <1>2, <1>3 DEF Whole, Kin
  <2>3. ASSUME NEW s \in S PROVE s \in Monsters /\ v.status[s] # "none"
    <3>1. s \in Creatures /\ v.master[s] = c
      BY <1>3, <2>1, <2>2
    <3> QED BY <1>0, <1>2, <3>1, Kinds DEF Whole, Kin, Fresh
  <2> QED BY <2>2, <2>3
<1>5. PICK u : u = Each(S, v, Orphan)
  OBVIOUS
<1>6. Orphaned(v, u, S) /\ u \in Worlds
  <2>1. Orphaned(v, u, S)
    BY <1>2, <1>4, <1>5, Orphans
  <2> QED BY <2>1 DEF Orphaned
<1>7. PICK d : d = [u EXCEPT !.summons[c] = {}, !.targets[c] = {}]
  OBVIOUS
<1>8. Good(d)
  <2>1. /\ d \in Worlds
        /\ d.status = u.status /\ d.where = u.where /\ d.alive = u.alive
        /\ d.attacked = u.attacked /\ d.follow = u.follow /\ d.master = u.master
        /\ d.idle = u.idle /\ d.check = u.check /\ d.listed = u.listed
        /\ d.spawned = u.spawned /\ d.minded = u.minded /\ d.spawnEvent = u.spawnEvent
        /\ \A y \in Creatures : d.summons[y] = IF y = c THEN {} ELSE u.summons[y]
    <3>1. PICK s, t : s = [u.summons EXCEPT ![c] = {}] /\ t = [u.targets EXCEPT ![c] = {}]
      OBVIOUS
    <3>2. s \in [Creatures -> SUBSET Creatures] /\ t \in [Monsters -> SUBSET Creatures]
      BY <1>6, <3>1 DEF Worlds
    <3>3. d = [u EXCEPT !.summons = s, !.targets = t]
      BY <1>6, <1>7, <3>1 DEF Worlds
    <3>4. d \in Worlds
      BY <1>6, <3>2, <3>3 DEF Worlds
    <3>5. /\ d.status = u.status /\ d.where = u.where /\ d.alive = u.alive
          /\ d.attacked = u.attacked /\ d.follow = u.follow /\ d.master = u.master
          /\ d.idle = u.idle /\ d.check = u.check /\ d.listed = u.listed
          /\ d.spawned = u.spawned /\ d.minded = u.minded /\ d.spawnEvent = u.spawnEvent
          /\ d.summons = s
      BY <1>6, <3>3 DEF Worlds
    <3>6. \A y \in Creatures : s[y] = IF y = c THEN {} ELSE u.summons[y]
      BY <1>0, <1>6, <3>1 DEF Worlds
    <3> QED BY <3>4, <3>5, <3>6
  <2>2. \A y \in Creatures : d.master[y] = IF y \in S THEN Nobody ELSE v.master[y]
    BY <1>6, <2>1 DEF Orphaned
  <2>3. \A y \in Creatures : d.summons[y] = IF y = c THEN {} ELSE v.summons[y]
    BY <1>6, <2>1 DEF Orphaned
  <2>4. Kin(d)
    <3>1. Kin(v)
      BY <1>2 DEF Whole
    <3>2. ASSUME NEW e \in Creatures, NEW m \in Creatures
          PROVE  e \in d.summons[m] <=> d.master[e] = m
      <4>1. e \in v.summons[m] <=> v.master[e] = m
        BY <3>1 DEF Kin
      <4> QED BY <1>0, <1>4, <2>2, <2>3, <4>1, Kinds
    <3>3. ASSUME NEW e \in Creatures, d.master[e] # Nobody
          PROVE  e \in Monsters /\ (d.master[e] \in Monsters => d.summons[e] = {})
      <4>1. d.master[e] = v.master[e]
        BY <2>2, <3>3
      <4>2. e \in Monsters /\ (v.master[e] \in Monsters => v.summons[e] = {})
        BY <3>1, <3>3, <4>1 DEF Kin
      <4> QED BY <2>3, <4>1, <4>2
    <3> QED BY <3>2, <3>3 DEF Kin
  <2>5. ASSUME NEW y \in Creatures
        PROVE  /\ Fresh(d, y) /\ Fits(d, y, Nobody) /\ Visited(d, y) /\ Present(d, y)
    <3>1. /\ Fresh(v, y) /\ Fits(v, y, Nobody) /\ Visited(v, y) /\ Present(v, y)
      BY <1>2 DEF Good, Sound, Whole
    <3>2. /\ d.status = v.status /\ d.where = v.where /\ d.spawned = v.spawned /\ d.minded = v.minded
          /\ d.attacked[y] \in {v.attacked[y], Nobody} /\ d.follow[y] \in {v.follow[y], Nobody}
          /\ d.listed[y] = v.listed[y] \/ v.status[y] # "none"
          /\ d.alive[y] = IF y \in S THEN FALSE ELSE v.alive[y]
      BY <1>6, <2>1 DEF Orphaned
    <3>3. Fresh(d, y)
      BY <1>4, <2>2, <2>3, <3>1, <3>2 DEF Fresh
    <3>4. Fits(d, y, Nobody)
      <4>1. \A t : Fit(v, y, t, Nobody) => Fit(d, y, t, Nobody)
        BY <3>2 DEF Fit, OnFloor
      <4>2. Fit(d, y, Nobody, Nobody)
        BY DEF Fit
      <4> QED BY <3>1, <3>2, <4>1, <4>2 DEF Fits
    <3>5. Visited(d, y)
      <4>1. Visited(u, y)
        BY <1>6, <3>1 DEF Orphaned
      <4> QED BY <2>1, <4>1 DEF Visited
    <3>6. Present(d, y)
      BY <2>2, <3>1, <3>2 DEF Present
    <3> QED BY <3>3, <3>4, <3>5, <3>6
  <2>6. Counted(d)
    BY <1>2, <1>6, <2>1 DEF Good, Counted, Filled, Orphaned
  <2> QED BY <2>1, <2>4, <2>5, <2>6 DEF Good, Sound, Whole
<1>9. Good(IF IsSummon(d, c) THEN SetMaster(d, c, Nobody) ELSE d)
  BY <1>0, <1>8, MasterGood
<1>10. Die(w, c) = IF IsSummon(d, c) THEN SetMaster(d, c, Nobody) ELSE d
  BY <1>1, <1>3, <1>5, <1>7 DEF Die
<1> QED BY <1>9, <1>10

-----------------------------------------------------------------------------
(* Placing.                                                                *)

(* All who see c hear of it.                                               *)
Seen(w, S, c) == Each(S, w, LAMBDA acc, x : Appear(acc, x, c))

LEMMA Appearing ==
  ASSUME NEW w \in Worlds, NEW S \in SUBSET Creatures, \A x \in S : w.status[x] # "none",
         NEW c \in Creatures, NEW v, v = Seen(w, S, c)
  PROVE  Drops(w, v)
<1>1. IsFiniteSet(S)
  BY CreaturesAssumption, FS_Subset
<1> DEFINE Step(u, y) == Appear(u, y, c)
           Told(g) == g = [T \in SUBSET S |-> IF T = {} THEN w ELSE Step(g[T \ {One(T)}], One(T))]
<1>2. PICK W : W = {u \in Worlds : u.status = w.status}
  OBVIOUS
<1>3. w \in W /\ \A u \in W, y \in S : Drops(u, Step(u, y)) /\ Step(u, y) \in W
  <2>1. ASSUME NEW u \in W, NEW y \in S PROVE Drops(u, Step(u, y)) /\ Step(u, y) \in W
    <3>1. u \in Worlds /\ u.status = w.status /\ u.status[y] # "none" /\ y \in Creatures
      BY <1>2
    <3>2. Drops(u, Step(u, y))
      BY <3>1, AppearDrops
    <3> QED BY <1>2, <3>1, <3>2 DEF Drops
  <2> HIDE DEF Step
  <2> QED BY <1>2, <2>1
<1>4. \E g : Told(g)
  <2>1. PICK F : F = [p \in W \X S |-> Step(p[1], p[2])]
    OBVIOUS
  <2>2. F \in [W \X S -> W]
    <3>1. \A u \in W, y \in S : Step(u, y) \in W
      BY <1>3
    <3> HIDE DEF Step
    <3> QED BY <2>1, <3>1
  <2>3. PICK f : Loop(f, S, W, w, F)
    BY <1>1, <1>3, <2>2, LoopExists
  <2>4. ASSUME NEW T \in SUBSET S
        PROVE f[T] = IF T = {} THEN w ELSE Step(f[T \ {One(T)}], One(T))
    <3>1. T # {} => f[T \ {One(T)}] \in W /\ One(T) \in S
      BY <2>3, OneOf DEF Loop
    <3> QED BY <2>1, <2>3, <3>1 DEF Loop
  <2>5. Told(f)
    BY <2>3, <2>4 DEF Loop
  <2> QED BY <2>5
<1>5. PICK g : Told(g) /\ v = g[S]
  <2>1. PICK g : g = CHOOSE f : Told(f)
    OBVIOUS
  <2>2. Told(g)
    BY <1>4, <2>1
  <2>3. v = g[S]
    BY <2>1 DEF Seen, Each, One
  <2> QED BY <2>2, <2>3
<1>6. PICK good : good = {T \in SUBSET S : Drops(w, g[T])}
  OBVIOUS
<1>7. {} \in good
  BY <1>5, <1>6, DropsSame
<1>8. ASSUME NEW T \in SUBSET S, T # {}, T \ {One(T)} \in good PROVE T \in good
  <2>1. PICK y, u, h : y = One(T) /\ u = g[T \ {One(T)}] /\ h = g[T]
    OBVIOUS
  <2>2. y \in T /\ h = Step(u, y)
    BY <1>5, <1>8, <2>1, OneOf
  <2>3. Drops(w, u)
    BY <1>6, <1>8, <2>1
  <2>4. Drops(u, h)
    <3>1. u \in W
      BY <1>2, <2>3 DEF Drops
    <3> HIDE DEF Step, Told
    <3> QED BY <1>3, <2>2, <3>1
  <2> QED BY <1>6, <2>1, <2>3, <2>4, DropsTwice
<1>9. S \in good
  BY <1>1, <1>7, <1>8, OneByOne
<1> QED BY <1>5, <1>6, <1>9

(* c is placed.                                                            *)
Placing(w, v, c) ==
  /\ v \in Worlds
  /\ v.status[c] = "placed" /\ \A y \in Creatures \ {c} : v.status[y] = w.status[y]
  /\ v.master = w.master /\ v.summons = w.summons /\ v.spawned = w.spawned /\ v.minded = w.minded
  /\ v.spawnEvent = w.spawnEvent

LEMMA PlaceSound ==
  ASSUME NEW w, Sound(w), NEW c \in Creatures, w.status[c] = "none", NEW q \in Places
  PROVE  Sound(PlaceCreature(w, c, q)) /\ Placing(w, PlaceCreature(w, c, q), c)
<1>1. w \in Worlds /\ Whole(w)
  BY DEF Sound, Whole
<1>2. PICK v : v = [w EXCEPT !.status[c] = "placed", !.where[c] = q]
  OBVIOUS
<1>3. /\ v \in Worlds
      /\ v.status[c] = "placed" /\ \A y \in Creatures \ {c} : v.status[y] = w.status[y]
      /\ \A y \in Creatures \ {c} : v.where[y] = w.where[y]
      /\ v.alive = w.alive /\ v.attacked = w.attacked /\ v.follow = w.follow
      /\ v.master = w.master /\ v.summons = w.summons /\ v.idle = w.idle
      /\ v.check = w.check /\ v.listed = w.listed
      /\ v.spawned = w.spawned /\ v.minded = w.minded /\ v.spawnEvent = w.spawnEvent
  <2>1. PICK s, f : s = [w.status EXCEPT ![c] = "placed"] /\ f = [w.where EXCEPT ![c] = q]
    OBVIOUS
  <2>2. s \in [Creatures -> Statuses] /\ f \in [Creatures -> Places]
    BY <1>1, <2>1 DEF Worlds, Statuses
  <2>3. v = [w EXCEPT !.status = s, !.where = f]
    BY <1>1, <1>2, <2>1 DEF Worlds
  <2>4. v \in Worlds
    BY <1>1, <2>2, <2>3 DEF Worlds
  <2>5. /\ v.status = s /\ v.where = f
        /\ v.alive = w.alive /\ v.attacked = w.attacked /\ v.follow = w.follow
        /\ v.master = w.master /\ v.summons = w.summons /\ v.idle = w.idle
        /\ v.check = w.check /\ v.listed = w.listed
        /\ v.spawned = w.spawned /\ v.minded = w.minded /\ v.spawnEvent = w.spawnEvent
    BY <1>1, <2>3 DEF Worlds
  <2>6. /\ s[c] = "placed" /\ \A y \in Creatures \ {c} : s[y] = w.status[y]
        /\ \A y \in Creatures \ {c} : f[y] = w.where[y]
    BY <1>1, <2>1 DEF Worlds
  <2> QED BY <2>4, <2>5, <2>6
<1>4. PICK S : S = Spectators(v, c)
  OBVIOUS
<1>5. S \in SUBSET Creatures /\ \A x \in S : v.status[x] # "none"
  BY <1>4 DEF Spectators, Placed
<1>6. PICK u : u = Seen(v, S, c)
  OBVIOUS
<1>7. Drops(v, u) /\ u \in Worlds
  <2>1. Drops(v, u)
    BY <1>3, <1>5, <1>6, Appearing
  <2> QED BY <2>1 DEF Drops
<1>8. PICK r : r = PlaceCreature(w, c, q)
  OBVIOUS
<1>9. r = [u EXCEPT !.check[c] = TRUE, !.listed[c] = TRUE]
  BY <1>2, <1>4, <1>6, <1>8 DEF PlaceCreature, Seen
<1>10. /\ r \in Worlds
       /\ r.status = u.status /\ r.where = u.where /\ r.alive = u.alive
       /\ r.attacked = u.attacked /\ r.follow = u.follow /\ r.master = u.master
       /\ r.summons = u.summons /\ r.idle = u.idle
       /\ r.spawned = u.spawned /\ r.minded = u.minded /\ r.spawnEvent = u.spawnEvent
       /\ r.check[c] = TRUE /\ r.listed[c] = TRUE
       /\ \A y \in Creatures \ {c} : r.check[y] = u.check[y] /\ r.listed[y] = u.listed[y]
  <2>1. PICK k, l : k = [u.check EXCEPT ![c] = TRUE] /\ l = [u.listed EXCEPT ![c] = TRUE]
    OBVIOUS
  <2>2. k \in [Creatures -> BOOLEAN] /\ l \in [Creatures -> BOOLEAN]
    BY <1>7, <2>1 DEF Worlds
  <2>3. r = [u EXCEPT !.check = k, !.listed = l]
    BY <1>7, <1>9, <2>1 DEF Worlds
  <2>4. r \in Worlds
    BY <1>7, <2>2, <2>3 DEF Worlds
  <2>5. /\ r.status = u.status /\ r.where = u.where /\ r.alive = u.alive
        /\ r.attacked = u.attacked /\ r.follow = u.follow /\ r.master = u.master
        /\ r.summons = u.summons /\ r.idle = u.idle
        /\ r.spawned = u.spawned /\ r.minded = u.minded /\ r.spawnEvent = u.spawnEvent
        /\ r.check = k /\ r.listed = l
    BY <1>7, <2>3 DEF Worlds
  <2>6. /\ k[c] = TRUE /\ l[c] = TRUE
        /\ \A y \in Creatures \ {c} : k[y] = u.check[y] /\ l[y] = u.listed[y]
    BY <1>7, <2>1 DEF Worlds
  <2> QED BY <2>4, <2>5, <2>6
<1>11. Placing(w, r, c)
  BY <1>3, <1>7, <1>10 DEF Drops, Placing
<1>12. Kin(r)
  BY <1>1, <1>11 DEF Whole, Kin, Placing
<1>13. ASSUME NEW y \in Creatures
       PROVE  Fresh(r, y) /\ Fits(r, y, Nobody) /\ Visited(r, y) /\ Present(r, y)
  <2>1. Fresh(w, y) /\ Fits(w, y, Nobody) /\ Visited(w, y) /\ Present(w, y) /\ Fresh(w, c)
    BY <1>1 DEF Sound, Whole
  <2>2. Fits(v, y, Nobody)
    <3>1. CASE y = c
      BY <1>1, <1>3, <2>1, <3>1 DEF Fresh, Fits, Fit
    <3>2. CASE y # c
      <4>1. \A t : Fit(w, y, t, Nobody) => Fit(v, y, t, Nobody)
        BY <1>3, <3>2, Kinds DEF Fit, OnFloor
      <4> QED BY <1>3, <2>1, <3>2, <4>1 DEF Fits
    <3> QED BY <3>1, <3>2
  <2>3. Fits(r, y, Nobody)
    <3>1. Fits(u, y, Nobody)
      BY <1>7, <2>2, DropsKeep
    <3> QED BY <1>10, <3>1 DEF Fits, Fit, OnFloor
  <2>4. Fresh(r, y)
    <3>1. CASE y = c
      BY <1>11, <3>1 DEF Placing, Fresh
    <3>2. CASE y # c
      <4>1. Fresh(v, y)
        BY <1>3, <2>1, <3>2 DEF Fresh
      <4>2. Fresh(u, y)
        BY <1>7, <4>1, DropsKeep
      <4> QED BY <1>10, <3>2, <4>2 DEF Fresh
    <3> QED BY <3>1, <3>2
  <2>5. Visited(r, y)
    <3>1. CASE y = c
      BY <1>10, <3>1 DEF Visited
    <3>2. CASE y # c
      <4>1. Visited(v, y)
        BY <1>3, <2>1, <3>2 DEF Visited
      <4>2. Visited(u, y)
        BY <1>7, <4>1 DEF Drops
      <4> QED BY <1>10, <3>2, <4>2 DEF Visited
    <3> QED BY <3>1, <3>2
  <2>6. Present(r, y)
    <3>1. CASE y = c
      BY <1>1, <1>11, <2>1, <3>1 DEF Placing, Present, Fresh
    <3>2. CASE y # c
      <4>1. w.master[y] \in Somebody
        BY <1>1 DEF Worlds
      <4> QED BY <1>1, <1>11, <2>1, <3>2, <4>1 DEF Placing, Present, Somebody
    <3> QED BY <3>1, <3>2
  <2> QED BY <2>3, <2>4, <2>5, <2>6
<1>14. Sound(r)
  BY <1>10, <1>12, <1>13 DEF Sound, Whole
<1> QED BY <1>8, <1>11, <1>14

LEMMA PlaceGood ==
  ASSUME NEW w, Good(w), NEW c \in Creatures, w.status[c] = "none", NEW q \in Places
  PROVE  Good(PlaceCreature(w, c, q))
<1>1. Sound(w) /\ Fresh(w, c)
  BY DEF Good, Sound, Whole
<1>2. PICK v : v = PlaceCreature(w, c, q)
  OBVIOUS
<1>3. Sound(v) /\ Placing(w, v, c)
  BY <1>1, <1>2, PlaceSound
<1>4. Filled(v) = Filled(w)
  BY <1>1, <1>3, Kinds DEF Filled, Placing, Fresh
<1>5. Counted(v)
  BY <1>3, <1>4 DEF Good, Counted, Placing
<1> QED BY <1>2, <1>3, <1>5 DEF Good

-----------------------------------------------------------------------------
(* What players and scripts do.                                            *)

LEMMA RemoveGood ==
  ASSUME NEW w, Good(w), NEW c \in Creatures, NEW first
  PROVE  Good(RemoveCreature(w, c, first))
BY GoodWhole, RemoveLeaves, LeavesGood

(* c is hit, who is visited.                                               *)
Struck(w, v, c) ==
  /\ v \in Worlds
  /\ v.status = w.status /\ v.where = w.where /\ v.attacked = w.attacked
  /\ v.follow = w.follow /\ v.master = w.master /\ v.summons = w.summons
  /\ v.idle = w.idle /\ v.check = w.check /\ v.listed = w.listed
  /\ v.spawned = w.spawned /\ v.minded = w.minded /\ v.spawnEvent = w.spawnEvent
  /\ \A y \in Creatures \ {c} : v.alive[y] = w.alive[y]

LEMMA AliveGood ==
  ASSUME NEW w, Good(w), NEW c \in Creatures, w.status[c] = "placed",
         w.check[c] = TRUE, w.listed[c] = TRUE, NEW v, Struck(w, v, c)
  PROVE  Good(v)
<1>1. ASSUME NEW y \in Creatures
      PROVE  Fresh(v, y) /\ Fits(v, y, Nobody) /\ Visited(v, y) /\ Present(v, y)
  <2>1. Fresh(w, y) /\ Fits(w, y, Nobody) /\ Visited(w, y) /\ Present(w, y)
    BY DEF Good, Sound, Whole
  <2>2. Fresh(v, y)
    BY <2>1 DEF Fresh, Struck
  <2>3. Fits(v, y, Nobody)
    BY <2>1 DEF Fits, Fit, OnFloor, Struck
  <2>4. Visited(v, y)
    BY <2>1 DEF Visited, Struck
  <2>5. Present(v, y)
    BY <2>1 DEF Present, Struck
  <2> QED BY <2>2, <2>3, <2>4, <2>5
<1>2. Kin(v)
  BY DEF Good, Sound, Whole, Kin, Struck
<1>3. Counted(v)
  BY DEF Good, Counted, Filled, Struck
<1> QED BY <1>1, <1>2, <1>3 DEF Good, Sound, Whole, Struck

LEMMA HitGood ==
  ASSUME NEW w, Good(w), NEW c \in Creatures, w.status[c] = "placed", w.alive[c], NEW b \in BOOLEAN,
         NEW u, u = IF c \in Monsters THEN SetIdle(w, c, FALSE) ELSE w,
         NEW v, v = [u EXCEPT !.alive[c] = b]
  PROVE  Good(v)
<1>1. w \in Worlds
  BY GoodWhole
<1>2. Drops(w, u)
  BY <1>1, SetIdleDrops, DropsSame
<1>3. Good(u) /\ u \in Worlds
  BY <1>2, DropsGood DEF Drops
<1>4. PICK a : a = [u.alive EXCEPT ![c] = b]
  OBVIOUS
<1>5. a \in [Creatures -> BOOLEAN]
  BY <1>3, <1>4 DEF Worlds
<1>6. v = [u EXCEPT !.alive = a]
  BY <1>3, <1>4 DEF Worlds
<1>7. v \in Worlds /\ v.alive = a
  BY <1>3, <1>5, <1>6 DEF Worlds
<1>8. /\ v.status = u.status /\ v.where = u.where /\ v.attacked = u.attacked
      /\ v.follow = u.follow /\ v.master = u.master /\ v.summons = u.summons
      /\ v.idle = u.idle /\ v.check = u.check /\ v.listed = u.listed
      /\ v.spawned = u.spawned /\ v.minded = u.minded /\ v.spawnEvent = u.spawnEvent
  BY <1>3, <1>6 DEF Worlds
<1>9. \A y \in Creatures \ {c} : a[y] = u.alive[y]
  BY <1>3, <1>4 DEF Worlds
<1>10. u.check[c] = TRUE /\ u.listed[c] = TRUE
  <2>1. CASE c \in Monsters
    <3>1. u = [w EXCEPT !.idle[c] = FALSE, !.check[c] = TRUE, !.listed[c] = TRUE]
      BY <2>1 DEF SetIdle
    <3>2. PICK k, l : k = [w.check EXCEPT ![c] = TRUE] /\ l = [w.listed EXCEPT ![c] = TRUE]
      OBVIOUS
    <3>3. u.check = k /\ u.listed = l
      BY <1>1, <3>1, <3>2 DEF Worlds
    <3>4. k[c] = TRUE /\ l[c] = TRUE
      BY <1>1, <3>2 DEF Worlds
    <3> QED BY <3>3, <3>4
  <2>2. CASE c \notin Monsters
    BY <2>2 DEF Good, Sound, Visited
  <2> QED BY <2>1, <2>2
<1>11. u.status[c] = "placed"
  BY <1>2 DEF Drops
<1>12. Struck(u, v, c)
  BY <1>7, <1>8, <1>9 DEF Struck
<1> QED BY <1>3, <1>10, <1>11, <1>12, AliveGood

(* A player that dies is healed, and may be sent somewhere.                *)
LEMMA ReviveGood ==
  ASSUME NEW w, Good(w), NEW c \in Players, NEW q \in Places
  PROVE  Good(Revive(w, c, q))
<1>1. w \in Worlds /\ c \in Creatures /\ c \notin Monsters
  BY GoodWhole, Kinds
<1>2. PICK a : a = [w.alive EXCEPT ![c] = TRUE]
  OBVIOUS
<1>3. /\ a \in [Creatures -> BOOLEAN] /\ a[c] = TRUE
      /\ \A y \in Creatures \ {c} : a[y] = w.alive[y]
  BY <1>1, <1>2 DEF Worlds
<1>4. PICK v : v = [w EXCEPT !.alive[c] = TRUE]
  OBVIOUS
<1>5. v = [w EXCEPT !.alive = a]
  BY <1>1, <1>2, <1>4 DEF Worlds
<1>6. v \in Worlds /\ v.alive = a
  BY <1>1, <1>3, <1>5 DEF Worlds
<1>7. /\ v.status = w.status /\ v.where = w.where /\ v.attacked = w.attacked
      /\ v.follow = w.follow /\ v.master = w.master /\ v.summons = w.summons
      /\ v.idle = w.idle /\ v.check = w.check /\ v.listed = w.listed
      /\ v.spawned = w.spawned /\ v.minded = w.minded /\ v.spawnEvent = w.spawnEvent
  BY <1>1, <1>5 DEF Worlds
<1>8. ASSUME NEW y \in Creatures
      PROVE  Fresh(v, y) /\ Fits(v, y, Nobody) /\ Visited(v, y) /\ Present(v, y)
  <2>1. Fresh(w, y) /\ Fits(w, y, Nobody) /\ Visited(w, y) /\ Present(w, y)
    BY DEF Good, Sound, Whole
  <2>2. Fresh(v, y)
    BY <1>3, <1>6, <1>7, <2>1 DEF Fresh
  <2>3. Fits(v, y, Nobody)
    BY <1>7, <2>1 DEF Fits, Fit, OnFloor
  <2>4. Visited(v, y)
    BY <1>1, <1>3, <1>6, <1>7, <2>1 DEF Visited
  <2>5. Present(v, y)
    BY <1>7, <2>1 DEF Present
  <2> QED BY <2>2, <2>3, <2>4, <2>5
<1>9. Kin(v) /\ Counted(v)
  BY <1>7 DEF Good, Sound, Whole, Kin, Counted, Filled
<1>10. Good(v)
  BY <1>6, <1>8, <1>9 DEF Good, Sound, Whole
<1>11. Good(MoveCreature(v, c, q))
  BY <1>1, <1>10, MoveGood
<1> QED BY <1>4, <1>10, <1>11 DEF Revive

LEMMA AfflictGood ==
  ASSUME NEW w, Good(w), NEW m \in Monsters, w.status[m] = "placed",
         NEW v, v = [w EXCEPT !.afflicted = IF m \in w.afflicted THEN w.afflicted \ {m}
                                            ELSE w.afflicted \cup {m}]
  PROVE  Good(UpdateIdleStatus(v, m))
<1>1. w \in Worlds
  BY GoodWhole
<1>2. PICK A : A = IF m \in w.afflicted THEN w.afflicted \ {m} ELSE w.afflicted \cup {m}
  OBVIOUS
<1>3. A \in SUBSET Monsters
  BY <1>1, <1>2 DEF Worlds
<1>4. v = [w EXCEPT !.afflicted = A]
  BY <1>2
<1>5. v \in Worlds
  BY <1>1, <1>3, <1>4 DEF Worlds
<1>6. Alike(w, v)
  BY <1>1, <1>4, <1>5 DEF Worlds, Alike
<1>7. Good(v)
  BY <1>6, AlikeGood
<1>8. v.status[m] # "none"
  BY <1>6 DEF Alike
<1> QED BY <1>5, <1>7, <1>8, UpdateIdleDrops, DropsGood

LEMMA AttackGood ==
  ASSUME NEW w, Good(w), NEW x \in Creatures, NEW c \in Creatures, NEW t \in {c, Nobody},
         w.status[x] = "placed", w.status[c] = "placed",
         NEW v, v = StartAttack(w, x, c)
  PROVE  Good(SetFollow(v, x, t))
<1>1. Whole(w)
  BY GoodWhole
<1>2. Turns(w, v)
  BY <1>1, StartAttackTurns
<1>3. Good(v) /\ v.status = w.status /\ v \in Worlds
  BY <1>2, TurnsGood DEF Turns, Passes
<1>4. t \in Somebody /\ (t # Nobody => v.status[t] = "placed")
  BY <1>3, Kinds
<1>5. Turns(v, SetFollow(v, x, t))
  BY <1>3, <1>4, SetFollowTurns
<1> QED BY <1>3, <1>5, TurnsGood

LEMMA CancelGood ==
  ASSUME NEW w, Good(w), NEW x \in Creatures, w.status[x] = "placed",
         NEW v, v = StopAttack(w, {x})
  PROVE  Good(SetFollow(v, x, Nobody))
<1>1. w \in Worlds
  BY GoodWhole
<1>2. Drops(w, v)
  BY <1>1, StopAttackDrops
<1>3. Good(v) /\ v.status = w.status /\ v \in Worlds
  BY <1>2, DropsGood DEF Drops
<1>4. Turns(v, SetFollow(v, x, Nobody))
  BY <1>3, SetFollowTurns, Kinds
<1> QED BY <1>3, <1>4, TurnsGood

(* c gets the master m.                                                    *)
LEMMA ServeGood ==
  ASSUME NEW w, Good(w), NEW c \in Monsters, NEW m \in Creatures, c # m,
         w.status[c] # "none", w.status[m] = "placed", w.master[m] \notin Monsters,
         m \in Monsters => w.summons[c] = {}
  PROVE  Good(SetMaster(w, c, m))
<1>1. w \in Worlds /\ Kin(w) /\ c \in Creatures /\ m \in Somebody /\ m # Nobody
  BY GoodWhole, Kinds DEF Whole
<1>2. PICK v : v = SetMaster(w, c, m)
  OBVIOUS
<1>3. Mastered(w, v, c, m)
  BY <1>1, <1>2, MasterSet
<1>4. v.master[c] = m /\ \A y \in Creatures \ {c} : v.master[y] = w.master[y]
  BY <1>1, <1>3 DEF Mastered, Worlds
<1>5. \A y \in Creatures : v.summons[y] =
        IF y = m THEN w.summons[y] \cup {c}
        ELSE IF y = w.master[c] THEN w.summons[y] \ {c} ELSE w.summons[y]
  BY <1>3 DEF Mastered
<1>6. ASSUME NEW d \in Creatures, NEW x \in Creatures
      PROVE  d \in v.summons[x] <=> v.master[d] = x
  <2>1. d \in w.summons[x] <=> w.master[d] = x
    BY <1>1 DEF Kin
  <2>2. CASE d = c
    BY <1>4, <1>5, <2>1, <2>2
  <2>3. CASE d # c
    BY <1>4, <1>5, <2>1, <2>3
  <2> QED BY <2>2, <2>3
<1>7. ASSUME NEW d \in Creatures, v.master[d] # Nobody
      PROVE  d \in Monsters /\ (v.master[d] \in Monsters => v.summons[d] = {})
  <2>1. CASE d = c
    BY <1>1, <1>4, <1>5, <2>1
  <2>2. CASE d # c
    <3>1. d \in Monsters /\ (w.master[d] \in Monsters => w.summons[d] = {})
      BY <1>1, <1>4, <1>7, <2>2 DEF Kin
    <3> QED BY <1>4, <1>5, <2>2, <3>1
  <2> QED BY <2>1, <2>2
<1>8. Kin(v)
  BY <1>6, <1>7 DEF Kin
<1>9. ASSUME NEW y \in Creatures
      PROVE  Fresh(v, y) /\ Fits(v, y, Nobody) /\ Visited(v, y) /\ Present(v, y)
  <2>1. Fresh(w, y) /\ Fits(w, y, Nobody) /\ Visited(w, y) /\ Present(w, y)
    BY DEF Good, Sound, Whole
  <2>2. Fresh(v, y)
    <3>1. SUFFICES ASSUME w.status[y] = "none" PROVE Fresh(v, y)
      BY <1>3 DEF Mastered, Fresh
    <3>2. y # c /\ y # m
      BY <3>1
    <3>3. v.master[y] = w.master[y] /\ v.summons[y] \subseteq w.summons[y]
      BY <1>4, <1>5, <3>2
    <3> QED BY <1>3, <2>1, <3>3 DEF Mastered, Fresh
  <2>3. Fits(v, y, Nobody)
    BY <1>3, <2>1 DEF Mastered, Fits, Fit, OnFloor
  <2>4. Visited(v, y)
    BY <1>3, <2>1 DEF Mastered, Visited
  <2>5. Present(v, y)
    <3>1. CASE y = c
      BY <1>3, <1>4, <3>1 DEF Mastered, Present
    <3>2. CASE y # c
      <4>1. v.master[y] = w.master[y]
        BY <1>4, <3>2
      <4> QED BY <1>3, <2>1, <4>1 DEF Mastered, Present
    <3> QED BY <3>1, <3>2
  <2> QED BY <2>2, <2>3, <2>4, <2>5
<1>10. Counted(v)
  BY <1>3 DEF Good, Counted, Filled, Mastered
<1> QED BY <1>2, <1>3, <1>8, <1>9, <1>10 DEF Good, Sound, Whole, Mastered

LEMMA SummonGood ==
  ASSUME NEW w, Good(w), NEW m \in Monsters, NEW s \in Monsters, w.status[m] = "placed",
         w.master[m] = Nobody, w.status[s] = "none"
  PROVE  Good(SetMaster(PlaceCreature(w, s, w.where[m]), s, m))
<1>1. w \in Worlds /\ Sound(w) /\ m \in Creatures /\ s \in Creatures /\ Nobody \notin Monsters
  BY GoodWhole, Kinds
<1>2. w.where[m] \in Places
  BY <1>1 DEF Worlds
<1>3. PICK v : v = PlaceCreature(w, s, w.where[m])
  OBVIOUS
<1>4. Good(v) /\ Placing(w, v, s)
  BY <1>1, <1>2, <1>3, PlaceGood, PlaceSound
<1>5. s # m /\ v.status[s] # "none" /\ v.status[m] = "placed" /\ v.master[m] = Nobody
  BY <1>1, <1>4 DEF Placing
<1>6. v.summons[s] = {}
  BY <1>1, <1>4 DEF Placing, Sound, Whole, Fresh
<1> QED BY <1>1, <1>3, <1>4, <1>5, <1>6, ServeGood

LEMMA ConvinceGood ==
  ASSUME NEW w, Good(w), NEW x \in Players, NEW m \in Monsters,
         w.status[x] = "placed", w.status[m] = "placed"
  PROVE  Good(SetMaster(w, m, x))
<1>1. x \in Creatures /\ m \in Creatures /\ x # m /\ x \notin Monsters /\ Nobody \notin Monsters
  BY Kinds
<1>2. w.master[x] = Nobody
  BY <1>1 DEF Good, Sound, Whole, Kin
<1> QED BY <1>1, <1>2, ServeGood

-----------------------------------------------------------------------------
(* The spawn, and the last reference.                                      *)

(* The keys of spawnedMap change, and perhaps the event.                   *)
Respawned(w, v, s) ==
  /\ v \in Worlds
  /\ v.status = w.status /\ v.where = w.where /\ v.alive = w.alive
  /\ v.attacked = w.attacked /\ v.follow = w.follow /\ v.master = w.master
  /\ v.summons = w.summons /\ v.idle = w.idle /\ v.check = w.check
  /\ v.listed = w.listed /\ v.spawned = s

LEMMA RespawnedSound ==
  ASSUME NEW w, Sound(w), NEW s,
         \A m \in Monsters : w.status[m] = "none" => s[m] = NotSpawned,
         NEW v, Respawned(w, v, s)
  PROVE  Sound(v)
<1>1. Kin(v)
  BY DEF Sound, Whole, Kin, Respawned
<1>2. ASSUME NEW y \in Creatures
      PROVE  Fresh(v, y) /\ Fits(v, y, Nobody) /\ Visited(v, y) /\ Present(v, y)
  <2>1. Fresh(w, y) /\ Fits(w, y, Nobody) /\ Visited(w, y) /\ Present(w, y)
    BY DEF Sound, Whole
  <2>2. Fresh(v, y)
    BY <2>1 DEF Fresh, Respawned
  <2>3. Fits(v, y, Nobody)
    BY <2>1 DEF Fits, Fit, OnFloor, Respawned
  <2>4. Visited(v, y)
    BY <2>1 DEF Visited, Respawned
  <2>5. Present(v, y)
    BY <2>1 DEF Present, Respawned
  <2> QED BY <2>2, <2>3, <2>4, <2>5
<1> QED BY <1>1, <1>2 DEF Sound, Whole, Respawned

LEMMA RespawnedGood ==
  ASSUME NEW w, Sound(w), NEW s \in [Monsters -> Keys], NEW e \in BOOLEAN,
         \A m \in Monsters : w.status[m] = "none" => s[m] = NotSpawned,
         Cardinality({m \in Monsters : w.status[m] = "placed" /\ s[m] # NotSpawned})
           < w.minded => e,
         NEW v, v = [w EXCEPT !.spawned = s, !.spawnEvent = e]
  PROVE  Good(v)
<1>1. w \in Worlds
  BY DEF Sound, Whole
<1>2. v \in Worlds /\ v.spawnEvent = e /\ v.minded = w.minded
  BY <1>1 DEF Worlds
<1>3. Respawned(w, v, s)
  BY <1>1, <1>2 DEF Worlds, Respawned
<1>4. Sound(v)
  BY <1>3, RespawnedSound
<1>5. Counted(v)
  BY <1>2, <1>3 DEF Counted, Filled, Respawned
<1> QED BY <1>4, <1>5 DEF Good

(* The object of c is gone, and those who served it are free.              *)
Freed(w, v, c) ==
  /\ v \in Worlds
  /\ v.status[c] = "none" /\ v.alive[c] = TRUE
  /\ v.attacked[c] = Nobody /\ v.follow[c] = Nobody
  /\ \A y \in Creatures \ {c} :
       /\ v.status[y] = w.status[y] /\ v.alive[y] = w.alive[y] /\ v.where[y] = w.where[y]
       /\ v.attacked[y] = w.attacked[y] /\ v.follow[y] = w.follow[y]
       /\ y \in Monsters => v.idle[y] = w.idle[y]
  /\ \A y \in Creatures : v.summons[y] = IF y = c THEN {} ELSE w.summons[y]
  /\ \A y \in Creatures :
       v.master[y] = IF y \in w.summons[c] \cup {c} THEN Nobody ELSE w.master[y]
  /\ v.check = w.check /\ v.listed = w.listed /\ v.spawned = w.spawned /\ v.minded = w.minded
  /\ v.spawnEvent = w.spawnEvent

LEMMA FreedGood ==
  ASSUME NEW w, Good(w), NEW c \in Creatures, w.status[c] = "removed", w.listed[c] = FALSE,
         c \in Monsters => w.spawned[c] = NotSpawned,
         \A x \in Creatures : w.status[x] # "none" => c \notin w.summons[x],
         NEW v, Freed(w, v, c)
  PROVE  Good(v)
<1>1. w \in Worlds /\ Kin(w) /\ \A y \in Creatures : Fresh(w, y)
  BY DEF Good, Sound, Whole
<1>2. \A x \in Creatures : c \notin w.summons[x]
  BY <1>1 DEF Fresh
<1>3. w.summons[c] \subseteq Creatures
  BY <1>1 DEF Worlds
<1>4. ASSUME NEW d \in Creatures, NEW m \in Creatures
      PROVE  d \in v.summons[m] <=> v.master[d] = m
  <2>1. (d \in w.summons[m] <=> w.master[d] = m) /\ (d \in w.summons[c] <=> w.master[d] = c)
    BY <1>1 DEF Kin
  <2> QED BY <1>2, <2>1, Kinds DEF Freed
<1>5. ASSUME NEW d \in Creatures, v.master[d] # Nobody
      PROVE  d \in Monsters /\ (v.master[d] \in Monsters => v.summons[d] = {})
  BY <1>1, <1>5 DEF Kin, Freed
<1>6. Kin(v)
  BY <1>4, <1>5 DEF Kin
<1>7. ASSUME NEW y \in Creatures
      PROVE  Fresh(v, y) /\ Fits(v, y, Nobody) /\ Visited(v, y) /\ Present(v, y)
  <2>1. Fresh(w, y) /\ Fits(w, y, Nobody) /\ Visited(w, y) /\ Present(w, y)
    BY DEF Good, Sound, Whole
  <2>2. CASE y = c
    <3>1. Fresh(v, c)
      BY DEF Fresh, Freed
    <3>2. v.status[c] = "none"
      BY DEF Freed
    <3> QED BY <2>2, <3>1, <3>2 DEF Fits, Visited, Present
  <2>3. CASE y # c
    <3>1. Fresh(v, y)
      BY <2>1, <2>3 DEF Fresh, Freed
    <3>2. Fits(v, y, Nobody)
      <4>1. \A t : Fit(w, y, t, Nobody) => Fit(v, y, t, Nobody)
        BY <2>3, Kinds DEF Fit, OnFloor, Freed
      <4> QED BY <2>1, <2>3, <4>1 DEF Fits, Freed
    <3>3. Visited(v, y)
      BY <2>1, <2>3 DEF Visited, Freed
    <3>4. Present(v, y)
      <4>1. v.master[y] \in {w.master[y], Nobody} /\ w.master[y] \in Somebody
        BY <1>1 DEF Freed, Worlds
      <4> QED BY <2>1, <2>3, <4>1 DEF Present, Freed, Somebody
    <3> QED BY <3>1, <3>2, <3>3, <3>4
  <2> QED BY <2>2, <2>3
<1>8. Filled(v) = Filled(w)
  BY Kinds DEF Filled, Freed
<1>9. Counted(v)
  BY <1>8 DEF Counted, Freed, Good
<1> QED BY <1>6, <1>7, <1>9 DEF Good, Sound, Whole, Freed

-----------------------------------------------------------------------------
(* Steps.                                                                  *)

LEMMA BecomeGood ==
  ASSUME NEW w, Good(w), Become(w)
  PROVE  Good(World)'
<1>1. w \in Worlds
  BY GoodWhole
<1>2. World' = [status |-> w.status, where |-> w.where, alive |-> w.alive,
                attacked |-> w.attacked, follow |-> w.follow, master |-> w.master,
                summons |-> w.summons, targets |-> w.targets, idle |-> w.idle,
                afflicted |-> w.afflicted, check |-> w.check, listed |-> w.listed,
                release |-> w.release, spawned |-> w.spawned, spawnEvent |-> w.spawnEvent, minded |-> w.minded]
  BY DEF World, Become
<1>3. w = [status |-> w.status, where |-> w.where, alive |-> w.alive,
           attacked |-> w.attacked, follow |-> w.follow, master |-> w.master,
           summons |-> w.summons, targets |-> w.targets, idle |-> w.idle,
           afflicted |-> w.afflicted, check |-> w.check, listed |-> w.listed,
           release |-> w.release, spawned |-> w.spawned, spawnEvent |-> w.spawnEvent, minded |-> w.minded]
  BY <1>1 DEF Worlds
<1>4. World' = w
  BY <1>2, <1>3
<1> QED BY <1>4

LEMMA InWorld ==
  /\ World.status = status /\ World.where = where /\ World.alive = alive
  /\ World.attacked = attacked /\ World.follow = follow /\ World.master = master
  /\ World.summons = summons /\ World.targets = targets /\ World.idle = idle
  /\ World.check = check /\ World.listed = listed /\ World.spawned = spawned
  /\ World.afflicted = afflicted /\ World.release = release /\ World.spawnEvent = spawnEvent
  /\ World.minded = minded
BY DEF World

LEMMA CheckCreatureGood ==
  ASSUME Good(World), NEW c \in Creatures, CheckCreature(c)
  PROVE  Good(World)'
<1>1. PICK w : w = World
  OBVIOUS
<1>2. Good(w) /\ w \in Worlds /\ w.listed[c] = TRUE /\ w.status[c] # "none"
  <2>1. Good(w) /\ w \in Worlds
    BY <1>1, GoodWhole
  <2>2. w.listed[c]
    BY <1>1, InWorld DEF CheckCreature
  <2>3. w.listed[c] = TRUE
    BY <2>1, <2>2 DEF Worlds
  <2>4. Fresh(w, c)
    BY <2>1 DEF Good, Sound, Whole
  <2> QED BY <2>1, <2>3, <2>4 DEF Fresh
<1>3. CASE \E v \in Thoughts(w, c) : c \in Monsters /\ Become(Cleanup(v))
  <2>1. PICK v \in Thoughts(w, c) : c \in Monsters /\ Become(Cleanup(v))
    BY <1>3
  <2>2. Good(v)
    BY <1>2, <2>1, ThoughtsGood
  <2>3. PICK u : u = Cleanup(v)
    OBVIOUS
  <2>4. Good(u)
    BY <2>2, <2>3, CleanupGood
  <2> QED BY <2>1, <2>3, <2>4, BecomeGood
<1>4. CASE Become(Cleanup(w))
  <2>1. PICK u : u = Cleanup(w)
    OBVIOUS
  <2>2. Good(u)
    BY <1>2, <2>1, CleanupGood
  <2> QED BY <1>4, <2>1, <2>2, BecomeGood
<1>5. CASE c \in Monsters
           /\ \E first \in BOOLEAN : Become(Cleanup(RemoveCreature(Die(w, c), c, first)))
  <2>1. PICK first \in BOOLEAN : Become(Cleanup(RemoveCreature(Die(w, c), c, first)))
    BY <1>5
  <2>2. PICK d, v, u : d = Die(w, c) /\ v = RemoveCreature(d, c, first) /\ u = Cleanup(v)
    OBVIOUS
  <2>3. Good(d)
    BY <1>2, <1>5, <2>2, DieGood
  <2>4. Good(v)
    BY <2>2, <2>3, RemoveGood
  <2>5. Good(u)
    BY <2>2, <2>4, CleanupGood
  <2> QED BY <2>1, <2>2, <2>5, BecomeGood
<1>8. CASE /\ c \in Players
           /\ \E q \in {w.where[c], Temple} :
                \/ Become(Cleanup(Revive(w, c, q)))
                \/ \E first \in BOOLEAN : Become(Cleanup(RemoveCreature(Revive(w, c, q), c, first)))
  <2>1. PICK q \in {w.where[c], Temple} :
             \/ Become(Cleanup(Revive(w, c, q)))
             \/ \E first \in BOOLEAN : Become(Cleanup(RemoveCreature(Revive(w, c, q), c, first)))
    BY <1>8
  <2>2. q \in Places
    BY <1>2, <2>1, CreaturesAssumption DEF Worlds
  <2>3. PICK d : d = Revive(w, c, q)
    OBVIOUS
  <2>4. Good(d)
    BY <1>2, <1>8, <2>2, <2>3, ReviveGood
  <2>5. CASE Become(Cleanup(d))
    <3>1. PICK u : u = Cleanup(d)
      OBVIOUS
    <3>2. Good(u)
      BY <2>4, <3>1, CleanupGood
    <3> QED BY <2>5, <3>1, <3>2, BecomeGood
  <2>6. CASE \E first \in BOOLEAN : Become(Cleanup(RemoveCreature(d, c, first)))
    <3>1. PICK first \in BOOLEAN : Become(Cleanup(RemoveCreature(d, c, first)))
      BY <2>6
    <3>2. PICK v, u : v = RemoveCreature(d, c, first) /\ u = Cleanup(v)
      OBVIOUS
    <3>3. Good(v)
      BY <2>4, <3>2, RemoveGood
    <3>4. Good(u)
      BY <3>2, <3>3, CleanupGood
    <3> QED BY <3>1, <3>2, <3>4, BecomeGood
  <2> QED BY <2>1, <2>3, <2>5, <2>6
<1>6. CASE ~w.check[c] /\ Become(Cleanup([w EXCEPT !.listed[c] = FALSE]))
  <2>1. PICK l : l = [w.listed EXCEPT ![c] = FALSE]
    OBVIOUS
  <2>2. l \in [Creatures -> BOOLEAN]
    BY <1>2, <2>1 DEF Worlds
  <2>3. PICK v : v = [w EXCEPT !.listed[c] = FALSE]
    OBVIOUS
  <2>4. v = [w EXCEPT !.listed = l]
    BY <1>2, <2>1, <2>3 DEF Worlds
  <2>5. v \in Worlds
    BY <1>2, <2>2, <2>4 DEF Worlds
  <2>6. /\ v.status = w.status /\ v.where = w.where /\ v.alive = w.alive
        /\ v.attacked = w.attacked /\ v.follow = w.follow /\ v.master = w.master
        /\ v.summons = w.summons /\ v.idle = w.idle /\ v.check = w.check
        /\ v.spawned = w.spawned /\ v.minded = w.minded /\ v.spawnEvent = w.spawnEvent /\ v.listed = l
    BY <1>2, <2>4 DEF Worlds
  <2>7. l[c] = FALSE /\ \A y \in Creatures \ {c} : l[y] = w.listed[y]
    BY <1>2, <2>1 DEF Worlds
  <2>8. ASSUME NEW y \in Creatures
        PROVE  Fresh(v, y) /\ Fits(v, y, Nobody) /\ Visited(v, y) /\ Present(v, y)
    <3>1. Fresh(w, y) /\ Fits(w, y, Nobody) /\ Visited(w, y) /\ Present(w, y)
      BY <1>2 DEF Good, Sound, Whole
    <3>2. Fresh(v, y)
      BY <2>6, <2>7, <3>1 DEF Fresh
    <3>3. Fits(v, y, Nobody)
      BY <2>6, <3>1 DEF Fits, Fit, OnFloor
    <3>4. Visited(v, y)
      BY <1>6, <2>6, <2>7, <3>1 DEF Visited
    <3>5. Present(v, y)
      BY <2>6, <3>1 DEF Present
    <3> QED BY <3>2, <3>3, <3>4, <3>5
  <2>9. Kin(v) /\ Counted(v)
    BY <1>2, <2>6 DEF Good, Sound, Whole, Kin, Counted, Filled
  <2>10. Good(v)
    BY <2>5, <2>8, <2>9 DEF Good, Sound, Whole
  <2>11. PICK u : u = Cleanup(v)
    OBVIOUS
  <2>12. Good(u)
    BY <2>10, <2>11, CleanupGood
  <2> QED BY <1>6, <2>3, <2>11, <2>12, BecomeGood
<1>7. w.check = check /\ w.where = where /\ (c \in Players \/ c \in Monsters)
  BY <1>1, InWorld, Kinds
<1> QED BY <1>1, <1>3, <1>4, <1>5, <1>6, <1>7, <1>8 DEF CheckCreature

LEMMA TakeAwayGood ==
  ASSUME Good(World), NEW c \in Creatures, TakeAway(c)
  PROVE  Good(World)'
<1>1. PICK first \in BOOLEAN : Become(RemoveCreature(World, c, first))
  BY DEF TakeAway
<1>2. PICK v : v = RemoveCreature(World, c, first)
  OBVIOUS
<1>3. Good(v)
  BY <1>2, RemoveGood
<1> QED BY <1>1, <1>2, <1>3, BecomeGood

LEMMA WalkGood ==
  ASSUME Good(World), NEW c \in Creatures, NEW q \in Places, Walk(c, q)
  PROVE  Good(World)'
<1>1. PICK v, u : v = MoveCreature(World, c, q) /\ u = Cleanup(v)
  OBVIOUS
<1>2. Good(v)
  BY <1>1, MoveGood
<1>3. Good(u)
  BY <1>1, <1>2, CleanupGood
<1> QED BY <1>1, <1>2, <1>3, BecomeGood DEF Walk

LEMMA LoginGood ==
  ASSUME Good(World), NEW x \in Players, Login(x)
  PROVE  Good(World)'
<1>1. World.status[x] = "none" /\ x \in Creatures /\ Temple \in Places
  BY InWorld, Kinds, CreaturesAssumption DEF Login
<1>2. PICK v : v = PlaceCreature(World, x, Temple)
  OBVIOUS
<1>3. Good(v)
  BY <1>1, <1>2, PlaceGood
<1> QED BY <1>2, <1>3, BecomeGood DEF Login

LEMMA PlayerAttackGood ==
  ASSUME Good(World), NEW x \in Players, NEW c \in Creatures, NEW chase \in BOOLEAN,
         PlayerAttack(x, c, chase)
  PROVE  Good(World)'
<1>1. World.status[x] = "placed" /\ x \in Creatures
  BY InWorld, Kinds DEF PlayerAttack
<1>2. CASE status[c] = "placed" /\ Become(LET v == StartAttack(World, x, c)
                                          IN SetFollow(v, x, IF chase THEN c ELSE Nobody))
  <2>1. World.status[c] = "placed"
    BY <1>2, InWorld
  <2>2. PICK t : t = IF chase THEN c ELSE Nobody
    OBVIOUS
  <2>3. PICK v, u : v = StartAttack(World, x, c) /\ u = SetFollow(v, x, t)
    OBVIOUS
  <2>4. Good(u)
    BY <1>1, <2>1, <2>2, <2>3, AttackGood
  <2> QED BY <1>2, <2>2, <2>3, <2>4, BecomeGood
<1>3. CASE Become(SetFollow(StopAttack(World, {x}), x, Nobody))
  <2>1. PICK v, u : v = StopAttack(World, {x}) /\ u = SetFollow(v, x, Nobody)
    OBVIOUS
  <2>2. Good(u)
    BY <1>1, <2>1, CancelGood
  <2> QED BY <1>3, <2>1, <2>2, BecomeGood
<1> QED BY <1>2, <1>3 DEF PlayerAttack

LEMMA HitStepGood ==
  ASSUME Good(World), NEW c \in Creatures, NEW kills \in BOOLEAN, Hit(c, kills)
  PROVE  Good(World)'
<1>1. World.status[c] = "placed" /\ World.alive[c]
  BY InWorld DEF Hit
<1>2. PICK b : b = ~kills
  OBVIOUS
<1>3. PICK u, v : /\ u = IF c \in Monsters THEN SetIdle(World, c, FALSE) ELSE World
                  /\ v = [u EXCEPT !.alive[c] = b]
  OBVIOUS
<1>4. b \in BOOLEAN
  BY <1>2
<1>5. Good(v)
  BY <1>1, <1>3, <1>4, HitGood
<1>6. Become(v)
  BY <1>2, <1>3 DEF Hit
<1> QED BY <1>5, <1>6, BecomeGood

LEMMA SummonStepGood ==
  ASSUME Good(World), NEW m \in Monsters, NEW s \in Monsters, Summon(m, s)
  PROVE  Good(World)'
<1>1. World.status[m] = "placed" /\ World.status[s] = "none" /\ World.where = where
      /\ World.master[m] = Nobody
  BY InWorld DEF Summon, IsSummon
<1>2. PICK v, u : v = SetMaster(PlaceCreature(World, s, World.where[m]), s, m) /\ u = Cleanup(v)
  OBVIOUS
<1>3. Good(v)
  BY <1>1, <1>2, SummonGood
<1>4. Good(u)
  BY <1>2, <1>3, CleanupGood
<1> QED BY <1>1, <1>2, <1>4, BecomeGood DEF Summon

LEMMA ConvinceStepGood ==
  ASSUME Good(World), NEW x \in Players, NEW m \in Monsters, Convince(x, m)
  PROVE  Good(World)'
<1>1. World.status[x] = "placed" /\ World.status[m] = "placed"
  BY InWorld DEF Convince
<1>2. PICK v : v = SetMaster(World, m, x)
  OBVIOUS
<1>3. Good(v)
  BY <1>1, <1>2, ConvinceGood
<1> QED BY <1>2, <1>3, BecomeGood DEF Convince

LEMMA AfflictStepGood ==
  ASSUME Good(World), NEW m \in Monsters, Afflict(m)
  PROVE  Good(World)'
<1>1. World.status[m] = "placed"
  BY InWorld DEF Afflict
<1>2. PICK v, u : /\ v = [World EXCEPT !.afflicted = IF m \in World.afflicted
                            THEN World.afflicted \ {m} ELSE World.afflicted \cup {m}]
                  /\ u = UpdateIdleStatus(v, m)
  OBVIOUS
<1>3. Good(u)
  BY <1>1, <1>2, AfflictGood
<1>4. Become(u)
  BY <1>2 DEF Afflict
<1> QED BY <1>3, <1>4, BecomeGood

LEMMA ReleaseAllGood ==
  ASSUME Good(World), ReleaseAll
  PROVE  Good(World)'
<1>1. PICK u : u = Cleanup(World)
  OBVIOUS
<1>2. Good(u)
  BY <1>1, CleanupGood
<1> QED BY <1>1, <1>2, BecomeGood DEF ReleaseAll

LEMMA FreeGood ==
  ASSUME Good(World), NEW c \in Creatures, Free(c)
  PROVE  Good(World)'
<1>1. PICK w : w = World
  OBVIOUS
<1>2. Good(w) /\ w \in Worlds /\ Kin(w)
  BY <1>1, GoodWhole DEF Whole
<1>3. /\ w.status[c] = "removed" /\ w.listed[c] = FALSE
      /\ c \in Monsters => w.spawned[c] = NotSpawned
      /\ \A x \in Creatures : w.status[x] # "none" => c \notin w.summons[x]
  <2>1. /\ w.status[c] = "removed" /\ ~w.listed[c]
        /\ c \in Monsters => w.spawned[c] = NotSpawned
        /\ \A x \in Creatures : w.status[x] # "none" => c \notin w.summons[x]
    BY <1>1, InWorld DEF Free, Owned
  <2> QED BY <1>2, <2>1 DEF Worlds
<1>4. PICK S, u : S = w.summons[c] /\ u = StopAttack(w, S)
  OBVIOUS
<1>5. S \in SUBSET Creatures
  BY <1>2, <1>4 DEF Worlds
<1>6. Drops(w, u) /\ Good(u) /\ u \in Worlds
  <2>1. Drops(w, u)
    BY <1>2, <1>4, <1>5, StopAttackDrops
  <2> QED BY <1>2, <2>1, DropsGood DEF Drops
<1>7. PICK v : v = [u EXCEPT
        !.status[c] = "none", !.alive[c] = TRUE, !.where[c] = Temple,
        !.attacked[c] = Nobody, !.follow[c] = Nobody, !.summons[c] = {},
        !.master = [x \in Creatures |-> IF x \in S \cup {c} THEN Nobody ELSE u.master[x]],
        !.targets = [x \in Monsters |-> IF x = c THEN {} ELSE u.targets[x]],
        !.idle = [x \in Monsters |-> x = c \/ u.idle[x]], !.afflicted = u.afflicted \ {c}]
  OBVIOUS
<1>8. Become(v)
  BY <1>1, <1>4, <1>7, InWorld DEF Free
<1>9. PICK s, a, p1, t, f, h, m, r, i, d :
        /\ s = [u.status EXCEPT ![c] = "none"] /\ a = [u.alive EXCEPT ![c] = TRUE]
        /\ p1 = [u.where EXCEPT ![c] = Temple] /\ t = [u.attacked EXCEPT ![c] = Nobody]
        /\ f = [u.follow EXCEPT ![c] = Nobody] /\ h = [u.summons EXCEPT ![c] = {}]
        /\ m = [x \in Creatures |-> IF x \in S \cup {c} THEN Nobody ELSE u.master[x]]
        /\ r = [x \in Monsters |-> IF x = c THEN {} ELSE u.targets[x]]
        /\ i = [x \in Monsters |-> x = c \/ u.idle[x]] /\ d = u.afflicted \ {c}
  OBVIOUS
<1>10. /\ s \in [Creatures -> Statuses] /\ a \in [Creatures -> BOOLEAN]
       /\ p1 \in [Creatures -> Places] /\ t \in [Creatures -> Somebody]
       /\ f \in [Creatures -> Somebody] /\ h \in [Creatures -> SUBSET Creatures]
       /\ m \in [Creatures -> Somebody] /\ r \in [Monsters -> SUBSET Creatures]
       /\ i \in [Monsters -> BOOLEAN] /\ d \in SUBSET Monsters
  <2>1. s \in [Creatures -> Statuses] /\ a \in [Creatures -> BOOLEAN]
    BY <1>6, <1>9 DEF Worlds, Statuses
  <2>2. p1 \in [Creatures -> Places] /\ t \in [Creatures -> Somebody]
    BY <1>6, <1>9, Kinds, CreaturesAssumption DEF Worlds
  <2>3. f \in [Creatures -> Somebody] /\ h \in [Creatures -> SUBSET Creatures]
    BY <1>6, <1>9, Kinds DEF Worlds
  <2>4. m \in [Creatures -> Somebody] /\ r \in [Monsters -> SUBSET Creatures]
    BY <1>6, <1>9, Kinds DEF Worlds
  <2>5. i \in [Monsters -> BOOLEAN] /\ d \in SUBSET Monsters
    BY <1>6, <1>9 DEF Worlds
  <2> QED BY <2>1, <2>2, <2>3, <2>4, <2>5
<1>11. v = [u EXCEPT !.status = s, !.alive = a, !.where = p1, !.attacked = t, !.follow = f,
                     !.summons = h, !.master = m, !.targets = r, !.idle = i, !.afflicted = d]
  BY <1>6, <1>7, <1>9 DEF Worlds
<1>12. v \in Worlds
  BY <1>6, <1>10, <1>11 DEF Worlds
<1>13. /\ v.status = s /\ v.alive = a /\ v.where = p1 /\ v.attacked = t /\ v.follow = f
       /\ v.summons = h /\ v.master = m /\ v.idle = i
       /\ v.check = u.check /\ v.listed = u.listed /\ v.spawned = u.spawned /\ v.minded = u.minded
       /\ v.spawnEvent = u.spawnEvent
  BY <1>6, <1>11 DEF Worlds
<1>14. /\ s[c] = "none" /\ a[c] = TRUE /\ t[c] = Nobody /\ f[c] = Nobody
       /\ \A y \in Creatures \ {c} : /\ s[y] = u.status[y] /\ a[y] = u.alive[y]
                                     /\ p1[y] = u.where[y] /\ t[y] = u.attacked[y]
                                     /\ f[y] = u.follow[y]
  BY <1>6, <1>9 DEF Worlds
<1>15. /\ \A y \in Creatures : h[y] = IF y = c THEN {} ELSE u.summons[y]
       /\ \A y \in Creatures : m[y] = IF y \in u.summons[c] \cup {c} THEN Nobody ELSE u.master[y]
       /\ \A y \in Monsters \ {c} : i[y] = u.idle[y]
  <2>1. u.summons = w.summons
    BY <1>6 DEF Drops
  <2>2. \A y \in Creatures : h[y] = IF y = c THEN {} ELSE u.summons[y]
    BY <1>6, <1>9 DEF Worlds
  <2>3. \A y \in Creatures : m[y] = IF y \in u.summons[c] \cup {c} THEN Nobody ELSE u.master[y]
    BY <1>4, <1>9, <2>1
  <2>4. ASSUME NEW y \in Monsters, y # c PROVE i[y] = u.idle[y]
    <3>1. u.idle[y] \in BOOLEAN
      BY <1>6 DEF Worlds
    <3>2. i[y] = (y = c \/ u.idle[y])
      BY <1>9
    <3> QED BY <2>4, <3>1, <3>2
  <2> QED BY <2>2, <2>3, <2>4
<1>16. Freed(u, v, c)
  BY <1>12, <1>13, <1>14, <1>15 DEF Freed
<1>17. /\ u.status[c] = "removed" /\ u.listed[c] = FALSE
       /\ c \in Monsters => u.spawned[c] = NotSpawned
       /\ \A x \in Creatures : u.status[x] # "none" => c \notin u.summons[x]
  <2>1. u.status = w.status /\ u.spawned = w.spawned /\ u.minded = w.minded /\ u.summons = w.summons
    BY <1>6 DEF Drops
  <2>2. u.listed = w.listed
    BY <1>2, <1>4, <1>5, StopAttackDrops
  <2> QED BY <1>3, <2>1, <2>2
<1>18. Good(v)
  BY <1>6, <1>16, <1>17, FreedGood
<1> QED BY <1>8, <1>18, BecomeGood

LEMMA FurtherBoolean ==
  ASSUME NEW n
  PROVE  FurtherCheck(n) \in BOOLEAN /\ (n < Cardinality(Blocks) => FurtherCheck(n))
<1>1. CASE n < Cardinality(Blocks)
  <2>1. FurtherCheck(n) = TRUE
    BY <1>1 DEF FurtherCheck
  <2> QED BY <1>1, <2>1
<1>2. CASE ~(n < Cardinality(Blocks))
  <2>1. FurtherCheck(n) = FALSE
    BY <1>2 DEF FurtherCheck
  <2> QED BY <1>2, <2>1
<1> QED BY <1>1, <1>2

LEMMA CheckSpawnGood ==
  ASSUME Good(World), CheckSpawn
  PROVE  Good(World)'
<1>1. PICK w : w = World
  OBVIOUS
<1>2. Good(w) /\ w \in Worlds /\ Sound(w)
  BY <1>1, GoodWhole
<1>3. PICK s : s = [m \in Monsters |->
                      IF w.status[m] = "removed" THEN NotSpawned
                      ELSE IF w.spawned[m] \in Blocks /\ w.where[m] # Home[w.spawned[m]] THEN Stray
                      ELSE w.spawned[m]]
  OBVIOUS
<1>4. s \in [Monsters -> Keys]
  BY <1>2, <1>3 DEF Worlds, Keys
<1>5. \A m \in Monsters : w.status[m] = "none" => s[m] = NotSpawned
  <2>1. \A m \in Monsters : w.status[m] = "none" => w.spawned[m] = NotSpawned
    BY <1>2, Kinds DEF Sound, Whole, Fresh
  <2> QED BY <1>3, <2>1, CreaturesAssumption
<1>6. PICK K : K = {m \in Monsters : s[m] # NotSpawned}
  OBVIOUS
<1>7. K = {m \in Monsters : w.status[m] = "placed" /\ s[m] # NotSpawned}
  <2>1. \A m \in Monsters : w.status[m] \in Statuses
    BY <1>2, Kinds DEF Worlds
  <2>2. \A m \in Monsters : w.status[m] = "removed" => s[m] = NotSpawned
    BY <1>3
  <2> QED BY <1>5, <1>6, <2>1, <2>2 DEF Statuses
<1>8. IsFiniteSet(K)
  <2>1. K \subseteq Creatures
    BY <1>6, Kinds
  <2> QED BY <2>1, CreaturesAssumption, FS_Subset
<1>9. PICK v : v = [w EXCEPT !.spawned = s, !.minded = Cardinality(Blocks)]
  OBVIOUS
<1>10. /\ Sound(v) /\ v.status = w.status /\ v.spawned = s /\ v.minded = Cardinality(Blocks)
       /\ v \in Worlds
  <2>1. Cardinality(Blocks) \in Nat
    BY CreaturesAssumption, FS_CardinalityType
  <2>2. v \in Worlds /\ v.minded = Cardinality(Blocks)
    BY <1>2, <1>4, <1>9, <2>1 DEF Worlds
  <2>3. Respawned(w, v, s)
    BY <1>2, <1>4, <1>9, <2>2 DEF Worlds, Respawned
  <2>4. Sound(v)
    BY <1>2, <1>5, <2>3, RespawnedSound
  <2> QED BY <2>2, <2>3, <2>4 DEF Respawned
<1>11. s = [m \in Monsters |->
              IF status[m] = "removed" THEN NotSpawned
              ELSE IF spawned[m] \in Blocks /\ where[m] # Home[spawned[m]] THEN Stray
              ELSE spawned[m]]
  BY <1>1, <1>3, InWorld
<1>12. \/ Become([v EXCEPT !.spawnEvent = FurtherCheck(Cardinality(K))])
       \/ \E b \in Blocks, m \in Monsters :
            /\ status[m] = "none"
            /\ Become([PlaceCreature(v, m, Home[b]) EXCEPT
                         !.spawned[m] = b, !.spawnEvent = FurtherCheck(Cardinality(K) + 1)])
  BY <1>1, <1>6, <1>9, <1>11 DEF CheckSpawn
<1>13. CASE Become([v EXCEPT !.spawnEvent = FurtherCheck(Cardinality(K))])
  <2>1. PICK e : e = FurtherCheck(Cardinality(K))
    OBVIOUS
  <2>2. e \in BOOLEAN /\ (Cardinality(K) < Cardinality(Blocks) => e)
    BY <2>1, FurtherBoolean
  <2>3. PICK r : r = [v EXCEPT !.spawnEvent = e]
    OBVIOUS
  <2>4. r = [v EXCEPT !.spawned = s, !.spawnEvent = e]
    BY <1>10, <2>3 DEF Worlds
  <2>5. \A m \in Monsters : v.status[m] = "none" => s[m] = NotSpawned
    BY <1>5, <1>10
  <2>6. K = {m \in Monsters : v.status[m] = "placed" /\ s[m] # NotSpawned}
    BY <1>7, <1>10
  <2>7. Good(r)
    <3>1. Cardinality({m \in Monsters : v.status[m] = "placed" /\ s[m] # NotSpawned}) < v.minded => e
      BY <1>10, <2>2, <2>6
    <3> QED BY <1>4, <1>10, <2>2, <2>4, <2>5, <3>1, RespawnedGood
  <2> QED BY <1>13, <2>1, <2>3, <2>7, BecomeGood
<1>14. CASE \E b \in Blocks, m \in Monsters :
              /\ status[m] = "none"
              /\ Become([PlaceCreature(v, m, Home[b]) EXCEPT
                           !.spawned[m] = b, !.spawnEvent = FurtherCheck(Cardinality(K) + 1)])
  <2>1. PICK b \in Blocks, m \in Monsters :
              /\ status[m] = "none"
              /\ Become([PlaceCreature(v, m, Home[b]) EXCEPT
                           !.spawned[m] = b, !.spawnEvent = FurtherCheck(Cardinality(K) + 1)])
    BY <1>14
  <2>2. m \in Creatures /\ v.status[m] = "none" /\ s[m] = NotSpawned /\ Home[b] \in Places
    BY <1>1, <1>5, <1>10, <2>1, InWorld, Kinds, CreaturesAssumption
  <2>3. PICK u : u = PlaceCreature(v, m, Home[b])
    OBVIOUS
  <2>4. Sound(u) /\ Placing(v, u, m) /\ u \in Worlds
    BY <1>10, <2>2, <2>3, PlaceSound DEF Placing
  <2>5. PICK k, e : k = [s EXCEPT ![m] = b] /\ e = FurtherCheck(Cardinality(K) + 1)
    OBVIOUS
  <2>6. k \in [Monsters -> Keys] /\ k[m] = b /\ \A x \in Monsters \ {m} : k[x] = s[x]
    BY <1>4, <2>5 DEF Keys
  <2>7. u.spawned = s /\ u.minded = Cardinality(Blocks)
    BY <1>10, <2>4 DEF Placing
  <2>8. PICK r : r = [u EXCEPT !.spawned[m] = b, !.spawnEvent = e]
    OBVIOUS
  <2>9. r = [u EXCEPT !.spawned = k, !.spawnEvent = e]
    BY <2>4, <2>5, <2>7, <2>8 DEF Worlds
  <2>10. u.status[m] = "placed" /\ \A x \in Monsters \ {m} : u.status[x] = w.status[x]
    BY <1>10, <2>4, Kinds DEF Placing
  <2>11. \A x \in Monsters : u.status[x] = "none" => k[x] = NotSpawned
    BY <1>5, <2>6, <2>10
  <2>12. b # NotSpawned
    BY CreaturesAssumption
  <2>13. {x \in Monsters : u.status[x] = "placed" /\ k[x] # NotSpawned} = K \cup {m}
    BY <1>7, <2>2, <2>6, <2>10, <2>12
  <2>14. Cardinality(K \cup {m}) = Cardinality(K) + 1
    <3>1. m \notin K
      BY <1>6, <2>2
    <3> QED BY <1>8, <3>1, FS_AddElement
  <2>15. e \in BOOLEAN /\ (Cardinality(K \cup {m}) < Cardinality(Blocks) => e)
    BY <2>5, <2>14, FurtherBoolean
  <2>16. Good(r)
    BY <2>4, <2>6, <2>7, <2>9, <2>11, <2>13, <2>15, RespawnedGood
  <2> QED BY <2>1, <2>3, <2>5, <2>8, <2>16, BecomeGood
<1> QED BY <1>12, <1>13, <1>14

LEMMA InitGood ==
  ASSUME CreaturesInit
  PROVE  Good(World)
<1>0. PICK Made \in SUBSET Blocks : \E born \in [Made -> Monsters] :
        /\ \A b1, b2 \in Made : born[b1] = born[b2] => b1 = b2
        /\ LET First == {born[b] : b \in Made}
               block(m) == CHOOSE b \in Made : born[b] = m
           IN /\ status = [c \in Creatures |-> IF c \in First THEN "placed" ELSE "none"]
              /\ where = [c \in Creatures |-> IF c \in First THEN Home[block(c)] ELSE Temple]
              /\ spawned = [m \in Monsters |-> IF m \in First THEN block(m) ELSE NotSpawned]
        /\ alive = [c \in Creatures |-> TRUE] /\ attacked = [c \in Creatures |-> Nobody]
        /\ follow = attacked /\ master = attacked /\ summons = [c \in Creatures |-> {}]
        /\ targets = [m \in Monsters |-> {}] /\ idle = [m \in Monsters |-> TRUE] /\ afflicted = {}
        /\ check = [c \in Creatures |-> FALSE] /\ listed = check
        /\ release = [c \in Creatures |-> 0] /\ spawnEvent = FALSE
        /\ minded = Cardinality(Made)
  BY DEF CreaturesInit
<1>1. PICK born \in [Made -> Monsters] :
        /\ \A b1, b2 \in Made : born[b1] = born[b2] => b1 = b2
        /\ LET First == {born[b] : b \in Made}
               block(m) == CHOOSE b \in Made : born[b] = m
           IN /\ status = [c \in Creatures |-> IF c \in First THEN "placed" ELSE "none"]
              /\ where = [c \in Creatures |-> IF c \in First THEN Home[block(c)] ELSE Temple]
              /\ spawned = [m \in Monsters |-> IF m \in First THEN block(m) ELSE NotSpawned]
  BY <1>0
<1>2. PICK First : First = {born[b] : b \in Made}
  OBVIOUS
<1>3. PICK block : block = [m \in First |-> CHOOSE b \in Made : born[b] = m]
  OBVIOUS
<1>4. First \subseteq Monsters /\ block \in [First -> Made]
  <2>1. First \subseteq Monsters
    BY <1>2
  <2>2. ASSUME NEW m \in First PROVE (CHOOSE b \in Made : born[b] = m) \in Made
    <3>1. \E b \in Made : born[b] = m
      BY <1>2
    <3> QED BY <3>1
  <2> QED BY <1>3, <2>1, <2>2
<1>5. /\ status = [c \in Creatures |-> IF c \in First THEN "placed" ELSE "none"]
      /\ where = [c \in Creatures |-> IF c \in First THEN Home[block[c]] ELSE Temple]
      /\ spawned = [m \in Monsters |-> IF m \in First THEN block[m] ELSE NotSpawned]
  BY <1>1, <1>2, <1>3
<1>6. /\ alive = [c \in Creatures |-> TRUE] /\ attacked = [c \in Creatures |-> Nobody]
      /\ follow = attacked /\ master = attacked /\ summons = [c \in Creatures |-> {}]
      /\ targets = [m \in Monsters |-> {}] /\ idle = [m \in Monsters |-> TRUE] /\ afflicted = {}
      /\ check = [c \in Creatures |-> FALSE] /\ listed = check
      /\ release = [c \in Creatures |-> 0] /\ spawnEvent = FALSE
      /\ minded = Cardinality(Made)
  BY <1>0
<1>7. /\ status \in [Creatures -> Statuses] /\ where \in [Creatures -> Places]
      /\ spawned \in [Monsters -> Keys]
  <2>1. status \in [Creatures -> Statuses]
    BY <1>5 DEF Statuses
  <2>2. where \in [Creatures -> Places]
    BY <1>4, <1>5, CreaturesAssumption
  <2>3. spawned \in [Monsters -> Keys]
    BY <1>4, <1>5 DEF Keys
  <2> QED BY <2>1, <2>2, <2>3
<1>8. World \in Worlds
  <2>1. /\ alive \in [Creatures -> BOOLEAN] /\ attacked \in [Creatures -> Somebody]
        /\ follow \in [Creatures -> Somebody] /\ master \in [Creatures -> Somebody]
        /\ summons \in [Creatures -> SUBSET Creatures] /\ targets \in [Monsters -> SUBSET Creatures]
        /\ idle \in [Monsters -> BOOLEAN] /\ afflicted \in SUBSET Monsters
        /\ check \in [Creatures -> BOOLEAN] /\ listed \in [Creatures -> BOOLEAN]
        /\ release \in [Creatures -> Nat] /\ spawnEvent \in BOOLEAN
        /\ minded \in Nat
    <3>1. Cardinality(Made) \in Nat
      BY CreaturesAssumption, FS_Subset, FS_CardinalityType
    <3> QED BY <1>6, <3>1, Kinds
  <2> QED BY <1>7, <2>1 DEF World, Worlds
<1>9. PICK w : w = World
  OBVIOUS
<1>10. /\ w.status = status /\ w.where = where /\ w.alive = alive
       /\ w.attacked = attacked /\ w.follow = follow /\ w.master = master
       /\ w.summons = summons /\ w.idle = idle
       /\ w.check = check /\ w.listed = listed /\ w.spawned = spawned
       /\ w.spawnEvent = spawnEvent /\ w.minded = minded
  BY <1>9, InWorld
<1>11. Kin(w)
  BY <1>6, <1>10, Kinds DEF Kin
<1>12. ASSUME NEW y \in Creatures
       PROVE  Fresh(w, y) /\ Fits(w, y, Nobody) /\ Visited(w, y) /\ Present(w, y)
  <2>1. Fresh(w, y)
    BY <1>5, <1>6, <1>10 DEF Fresh
  <2>2. Fits(w, y, Nobody)
    BY <1>6, <1>10 DEF Fits, Fit
  <2>3. Visited(w, y)
    BY <1>4, <1>5, <1>6, <1>10 DEF Visited
  <2>4. Present(w, y)
    BY <1>6, <1>10 DEF Present
  <2> QED BY <2>1, <2>2, <2>3, <2>4
<1>13. Filled(w) = First
  <2>1. \A m \in First : block[m] # NotSpawned
    BY <1>4, CreaturesAssumption
  <2>2. ASSUME NEW m \in Monsters
        PROVE  (w.status[m] = "placed" /\ w.spawned[m] # NotSpawned) <=> m \in First
    BY <1>5, <1>10, <2>1, Kinds
  <2> QED BY <1>4, <2>2 DEF Filled
<1>14. Cardinality(First) = Cardinality(Made) /\ Cardinality(Made) \in Nat
  <2>1. born \in Surjection(Made, First) /\ born \in Injection(Made, First)
    <3>1. born \in [Made -> First] /\ \A m \in First : \E b \in Made : born[b] = m
      BY <1>2
    <3>2. born \in Surjection(Made, First)
      BY <3>1 DEF Surjection
    <3>3. born \in Injection(Made, First)
      BY <1>1, <3>1 DEF Injection, IsInjective
    <3> QED BY <3>2, <3>3
  <2>2. IsFiniteSet(Made)
    BY CreaturesAssumption, FS_Subset
  <2> QED BY <2>1, <2>2, FS_Surjection, FS_CardinalityType
<1>15. Counted(w)
  BY <1>6, <1>10, <1>13, <1>14 DEF Counted
<1> QED BY <1>8, <1>9, <1>11, <1>12, <1>15 DEF Good, Sound, Whole

LEMMA CreaturesStep ==
  ASSUME Good(World), [CreaturesNext]_creatureVars
  PROVE  Good(World)'
<1>1. CASE UNCHANGED creatureVars
  <2>1. World' = World
    BY <1>1 DEF creatureVars, World
  <2> QED BY <2>1
<1>2. ASSUME NEW c \in Creatures, CheckCreature(c) \/ TakeAway(c) \/ Free(c) PROVE Good(World)'
  BY <1>2, CheckCreatureGood, TakeAwayGood, FreeGood
<1>3. ASSUME NEW c \in Creatures, NEW q \in Places, Walk(c, q) PROVE Good(World)'
  BY <1>3, WalkGood
<1>4. ASSUME NEW x \in Players, Login(x) PROVE Good(World)'
  BY <1>4, LoginGood
<1>5. ASSUME NEW x \in Players, NEW c \in Creatures, NEW chase \in BOOLEAN, PlayerAttack(x, c, chase)
      PROVE  Good(World)'
  BY <1>5, PlayerAttackGood
<1>6. ASSUME NEW c \in Creatures, NEW kills \in BOOLEAN, Hit(c, kills) PROVE Good(World)'
  BY <1>6, HitStepGood
<1>7. ASSUME NEW m \in Monsters, NEW s \in Monsters, Summon(m, s) PROVE Good(World)'
  BY <1>7, SummonStepGood
<1>8. ASSUME NEW x \in Players, NEW m \in Monsters, Convince(x, m) PROVE Good(World)'
  BY <1>8, ConvinceStepGood
<1>9. ASSUME NEW m \in Monsters, Afflict(m) PROVE Good(World)'
  BY <1>9, AfflictStepGood
<1> QED BY <1>1, <1>2, <1>3, <1>4, <1>5, <1>6, <1>7, <1>8, <1>9, CheckSpawnGood, ReleaseAllGood
        DEF CreaturesNext

(* The invariant holds of every reachable world.                           *)
THEOREM WorldAlwaysGood == CreaturesSpec => []Good(World)
<1>1. CreaturesInit => Good(World)
  BY InitGood
<1>2. Good(World) /\ [CreaturesNext]_creatureVars => Good(World)'
  BY CreaturesStep
<1> QED BY <1>1, <1>2, PTL DEF CreaturesSpec

(* attackedCreature and followCreature never point to a creature that left *)
(* the game: removal, moves and lost sight clear them in time.             *)
THEOREM TargetsStayPresent == CreaturesSpec => []TargetsPresent
<1>1. Good(World) => TargetsPresent
  <2>1. SUFFICES ASSUME Good(World), NEW c \in Placed(World)
                 PROVE  {attacked[c], follow[c]} \subseteq Placed(World) \cup {Nobody}
    BY DEF TargetsPresent
  <2>2. c \in Creatures /\ World.status[c] = "placed"
    BY DEF Placed
  <2>3. Fit(World, c, World.attacked[c], Nobody) /\ Fit(World, c, World.follow[c], Nobody)
    BY <2>1, <2>2 DEF Good, Sound, Fits
  <2>4. \A t : Fit(World, c, t, Nobody) => t \in Placed(World) \cup {Nobody}
    BY <2>2, Kinds DEF Fit, Placed
  <2> QED BY <2>3, <2>4, InWorld
<1> QED BY <1>1, WorldAlwaysGood, PTL

(* Creature::master and Creature::summons stay inverse to each other, and  *)
(* a master is not freed while a summon points to it.                      *)
THEOREM SummonsAlwaysAgree == CreaturesSpec => []SummonsAgree
<1>1. Good(World) => SummonsAgree
  <2>1. SUFFICES ASSUME Good(World), NEW c \in Creatures, status[c] # "none"
                 PROVE  /\ master[c] # Nobody => c \in summons[master[c]] /\ status[master[c]] # "none"
                        /\ \A s \in summons[c] : master[s] = c
    BY DEF SummonsAgree
  <2>2. World \in Worlds /\ Kin(World) /\ \A y \in Creatures : Fresh(World, y)
    BY <2>1 DEF Good, Sound, Whole
  <2>3. summons[c] \subseteq Creatures /\ master[c] \in Somebody
    BY <2>2, InWorld DEF Worlds
  <2>4. ASSUME NEW s \in summons[c] PROVE master[s] = c
    BY <2>2, <2>3, InWorld DEF Kin
  <2>5. ASSUME master[c] # Nobody PROVE c \in summons[master[c]] /\ status[master[c]] # "none"
    <3>1. master[c] \in Creatures
      BY <2>3, <2>5 DEF Somebody
    <3>2. c \in summons[master[c]]
      BY <2>2, <3>1, InWorld DEF Kin
    <3> QED BY <2>2, <3>1, <3>2, InWorld DEF Fresh
  <2> QED BY <2>4, <2>5
<1> QED BY <1>1, WorldAlwaysGood, PTL

(* Who is dead or not idle is in a checkCreatures list, and a spawn short  *)
(* of a monster it looks after has a checkSpawn event.                     *)
THEOREM ChecksAlwaysServed == CreaturesSpec => []ChecksServed
<1>1. Good(World) => ChecksServed
  <2>1. SUFFICES ASSUME Good(World) PROVE ServedByCheck /\ SpawnChecked
    BY DEF ChecksServed
  <2>2. ASSUME NEW c \in Placed(World), ~alive[c] \/ (c \in Monsters /\ ~idle[c])
        PROVE  check[c] /\ listed[c]
    <3>1. c \in Creatures /\ World.status[c] = "placed" /\ World \in Worlds /\ Visited(World, c)
      BY <2>1 DEF Placed, Good, Sound, Whole
    <3>2. c \in Monsters => World.alive[c] = FALSE \/ World.idle[c] = FALSE
      BY <2>2, <3>1, InWorld DEF Worlds
    <3>3. World.check[c] = TRUE /\ World.listed[c] = TRUE
      BY <3>1, <3>2 DEF Visited
    <3> QED BY <3>3, InWorld
  <2>3. SpawnChecked
    BY <2>1, InWorld DEF Good, Counted, Filled, SpawnChecked
  <2> QED BY <2>2, <2>3 DEF ServedByCheck
<1> QED BY <1>1, WorldAlwaysGood, PTL

=============================================================================
