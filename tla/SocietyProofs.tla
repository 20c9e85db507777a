---------------------------- MODULE SocietyProofs ----------------------------
(***************************************************************************)
(* Proofs about MCSociety: the channels of Chat (which MCSociety calls     *)
(* Talk), for any number of players, of parties and of channels; the       *)
(* registries of events (Reg), for any number of keys and events; and the  *)
(* parties (Group), for any number of players, of addresses and of places; *)
(* the login queue (of WaitList), for any number of players and seats; and *)
(* the scripts (Lua), for any number of objects and any nesting for which  *)
(* there are environments.                                                 *)
(***************************************************************************)
EXTENDS MCSociety, TLAPS, WellFoundedInduction, FiniteSetTheorems

-----------------------------------------------------------------------------
(* Chat.                                                                   *)

(* ChannelsLive, with the types of what it speaks of.                      *)
ChatInv ==
  /\ chatOnline \subseteq Friends
  /\ users \in [DOMAIN users -> SUBSET chatOnline]
  /\ private \in [DOMAIN private -> Talk!PrivateChatChannel]
  /\ \A o \in DOMAIN private :
       /\ o \in private[o].users
       /\ private[o].users \subseteq private[o].invites \cup {o}
       /\ private[o].invites \subseteq chatOnline \ {o}

LEMMA ChatInit == Talk!Init => ChatInv
BY DEF Talk!Init, ChatInv, Talk!Normal, Talk!PrivateChatChannel

(* Every step of the channels keeps them; a player who leaves the game is  *)
(* taken out of every channel, also of those he can no longer name.        *)
LEMMA ChatStep ==
  ASSUME ChatInv, Talk!Next
  PROVE  ChatInv'
<1> USE DEF ChatInv, Talk!PrivateChatChannel
<1>1. ASSUME NEW p \in Friends, Talk!Login(p)
      PROVE  ChatInv'
  BY <1>1 DEF Talk!Login
<1>2. ASSUME NEW p \in chatOnline, Talk!RequestChannels(p)
      PROVE  ChatInv'
  BY <1>2 DEF Talk!RequestChannels
<1>3. ASSUME NEW p \in chatOnline, Talk!CreatePrivateChannel(p)
      PROVE  ChatInv'
  BY <1>3 DEF Talk!CreatePrivateChannel
<1>4. ASSUME NEW p \in chatOnline, NEW guest \in chatOnline,
             Talk!ChannelInvite(p, guest)
      PROVE  ChatInv'
  BY <1>4 DEF Talk!ChannelInvite
<1>5. ASSUME NEW p \in chatOnline, NEW guest \in chatOnline,
             Talk!ChannelExclude(p, guest)
      PROVE  ChatInv'
  BY <1>5 DEF Talk!ChannelExclude, Talk!Excluded
<1>6. ASSUME NEW p \in chatOnline, Talk!OpenChannel(p)
      PROVE  ChatInv'
  BY <1>6 DEF Talk!OpenChannel, Talk!GetPrivateChannels, Talk!IsInvited
<1>7. ASSUME NEW p \in chatOnline, Talk!CloseChannel(p)
      PROVE  ChatInv'
  BY <1>7 DEF Talk!CloseChannel, Talk!GetPrivateChannels, Talk!IsInvited
<1>8. ASSUME NEW p \in chatOnline, Talk!SetParty(p)
      PROVE  ChatInv'
  BY <1>8 DEF Talk!SetParty
<1>9. ASSUME NEW p \in chatOnline, Talk!Logout(p)
      PROVE  ChatInv'
  BY <1>9 DEF Talk!Logout, Talk!UsersWithout, Talk!PrivateWithout
<1>10. CASE Talk!Load
  <2>1. PICK again \in SUBSET users[Talk!Normal] :
          users' = [users EXCEPT ![Talk!Normal] = again]
    BY <1>10 DEF Talk!Load
  <2>2. UNCHANGED <<chatOnline, chatPartyOf, private>>
    BY <1>10 DEF Talk!Load
  <2>3. users' \in [DOMAIN users -> SUBSET chatOnline] /\ DOMAIN users' = DOMAIN users
    BY <2>1
  <2> QED BY <2>2, <2>3
<1> QED
  BY <1>1, <1>2, <1>3, <1>4, <1>5, <1>6, <1>7, <1>8, <1>9, <1>10 DEF Talk!Next

(* No channel holds a pointer to a player who has left the game, although  *)
(* the player may no longer be able to name it, and a private channel has  *)
(* its owner in it and only those who were invited                         *)
(* (Chat::removeUserFromAllChannels, PrivateChatChannel::excludePlayer).   *)
THEOREM ChannelsStayLive == AnySpec => []ChannelsLive
<1> DEFINE Kept == part = "chat" => ChatInv
<1>1. AnyInit => Kept
  BY ChatInit DEF AnyInit
<1>2. Kept /\ [AnyNext]_<<vars, part, partiesVars, chatVars, scriptsVars, registriesVars>> => Kept'
  <2> SUFFICES ASSUME Kept, part' = "chat",
                      [AnyNext]_<<vars, part, partiesVars, chatVars, scriptsVars, registriesVars>>
               PROVE  ChatInv'
    OBVIOUS
  <2>1. CASE Talk!Next /\ part = "chat"
    BY <2>1, ChatStep
  <2>2. CASE UNCHANGED <<part, chatVars>>
    BY <2>2 DEF ChatInv, chatVars, Talk!PrivateChatChannel
  <2> QED BY <2>1, <2>2 DEF AnyNext
<1>3. Kept => ChannelsLive
  BY DEF ChatInv, ChannelsLive, Talk!ChannelsLive
<1> QED
  BY <1>1, <1>2, <1>3, PTL DEF AnySpec

-----------------------------------------------------------------------------
(* Lists of events.                                                        *)

(* Every set that holds 0 and all successors of its numbers holds Nat.     *)
LEMMA Induction ==
  ASSUME NEW S, 0 \in S, \A n \in Nat : n \in S => n + 1 \in S
  PROVE  Nat \subseteq S
<1>1. IsWellFoundedOn(OpToRel(<, Nat), Nat)
  BY NatLessThanWellFounded
<1> SUFFICES ASSUME Nat \ S # {} PROVE FALSE
  OBVIOUS
<1>2. \E x \in Nat \ S : \A y \in Nat \ S : ~ (<<y, x>> \in OpToRel(<, Nat))
  BY <1>1, WFMin, Zenon
<1>3. PICK x \in Nat \ S : \A y \in Nat \ S : ~ (<<y, x>> \in OpToRel(<, Nat))
  BY <1>2
<1>4. x \in Nat /\ x # 0
  OBVIOUS
<1>5. PICK y \in Nat : x = y + 1
  BY <1>4
<1>6. <<y, x>> \in OpToRel(<, Nat)
  BY <1>4, <1>5 DEF OpToRel
<1>7. y \in S
  BY <1>3, <1>6
<1> QED BY <1>5, <1>7

(* What a clear leaves of a list is in it, by induction over the list.     *)
LEMMA AmongOK ==
  ASSUME NEW E, NEW s \in Seq(E), NEW S
  PROVE  Reg!Among(s, S) \in Seq(E \cap S)
<1> DEFINE n == Len(s)
           Step(f, i) == IF i = 0 THEN <<>>
                         ELSE IF s[i] \in S THEN Append(f[i - 1], s[i]) ELSE f[i - 1]
           Upto(m) == \E f : f = [i \in 0 .. m |-> Step(f, i)]
           D == {m \in Nat : Upto(m)}
<1>0. n \in Nat
  OBVIOUS
<1>1. 0 \in D
  <2> DEFINE f == [i \in 0 .. 0 |-> <<>>]
  <2>1. f = [i \in 0 .. 0 |-> Step(f, i)]
    OBVIOUS
  <2> QED BY <2>1
<1>2. ASSUME NEW m \in Nat, m \in D PROVE m + 1 \in D
  <2>1. PICK f : f = [i \in 0 .. m |-> Step(f, i)]
    BY <1>2
  <2> DEFINE g == [i \in 0 .. m + 1 |-> IF i = m + 1 THEN Step(f, m + 1) ELSE f[i]]
  <2>2. ASSUME NEW i \in 0 .. m + 1 PROVE g[i] = Step(g, i)
    <3>1. CASE i = m + 1
      <4>1. g[m] = f[m]
        OBVIOUS
      <4> QED BY <3>1, <4>1
    <3>2. CASE i \in 0 .. m
      <4>1. g[i] = f[i] /\ f[i] = Step(f, i)
        BY <2>1, <3>2
      <4>2. i # 0 => g[i - 1] = f[i - 1]
        BY <3>2
      <4> QED BY <4>1, <4>2
    <3> QED BY <3>1, <3>2
  <2>3. g = [i \in 0 .. m + 1 |-> Step(g, i)]
    BY <2>2
  <2> HIDE DEF g
  <2>4. Upto(m + 1)
    BY <2>3
  <2> QED BY <2>4
<1>3. n \in D
  <2> HIDE DEF D
  <2> QED BY <1>0, <1>1, <1>2, Induction
<1> DEFINE h == CHOOSE f : f = [i \in 0 .. n |-> Step(f, i)]
<1>4. h = [i \in 0 .. n |-> Step(h, i)]
  BY <1>3
<1>5. Reg!Among(s, S) = h[n]
  BY DEF Reg!Among
<1> HIDE DEF h
<1>9. \A i \in 0 .. n : h[i] = Step(h, i)
  BY <1>4, Zenon
<1> DEFINE T == {m \in Nat : m <= n => h[m] \in Seq(E \cap S)}
<1>6. 0 \in T
  BY <1>0, <1>4
<1>7. ASSUME NEW m \in Nat, m \in T PROVE m + 1 \in T
  <2> SUFFICES ASSUME m + 1 <= n PROVE h[m + 1] \in Seq(E \cap S)
    OBVIOUS
  <2>1. m + 1 \in 1 .. n /\ m <= n /\ m + 1 # 0 /\ (m + 1) - 1 = m
    BY <1>0
  <2>2. h[m + 1] = Step(h, m + 1)
    <3>1. m + 1 \in 0 .. n
      BY <2>1, <1>0
    <3> QED BY <1>9, <3>1
  <2>3. h[m] \in Seq(E \cap S) /\ s[m + 1] \in E
    BY <1>7, <2>1
  <2> QED BY <2>1, <2>2, <2>3
<1>8. n \in T
  <2> HIDE DEF T
  <2> QED BY <1>0, <1>6, <1>7, Induction
<1> QED BY <1>0, <1>5, <1>8

EventTypes == {"none", "use", "login", "death", "think", "timer", "server"}
Homes == {"none", "own", "scripts"}
Events == [type : EventTypes, fromLua : BOOLEAN, home : Homes, live : BOOLEAN,
           loaded : BOOLEAN, fresh : BOOLEAN]

TypesIn(k) == Reg!TypesOf(k) \cup {"none"}

(* CallsLive, of one event of the registry k.                              *)
Answered(e) == e.loaded /\ ~(e.fromLua /\ e.home = "own") => e.live
Sound(k) == {e \in Events : Answered(e) /\ e.type \in TypesIn(k)}
Books(k) == [Reg!Slots -> Seq(Sound(k))]

(* s holds an event of type x that its timer has not been seen to yet.     *)
FreshIn(s, x) == \E i \in DOMAIN s : s[i].type = x /\ s[i].fresh

(* A creature that points to the first event of s may point to that of r.  *)
SameHead(s, r) == s # <<>> => r # <<>> /\ r[1].type = s[1].type

LEMMA ElementOf ==
  ASSUME NEW S, NEW s \in Seq(S), NEW i \in DOMAIN s
  PROVE  s[i] \in S
OBVIOUS

LEMMA HeadOf ==
  ASSUME NEW S, NEW s \in Seq(S), s # <<>>
  PROVE  1 \in DOMAIN s
OBVIOUS

LEMMA NotEmpty ==
  ASSUME NEW s, 1 \in DOMAIN s
  PROVE  s # <<>>
OBVIOUS

LEMMA SeqGrows ==
  ASSUME NEW S, NEW T, S \subseteq T, NEW s \in Seq(S)
  PROVE  s \in Seq(T)
OBVIOUS

LEMMA SeqOfSame ==
  ASSUME NEW S, NEW T, NEW s \in Seq(S), NEW t,
         DOMAIN t = DOMAIN s, t = [i \in DOMAIN t |-> t[i]],
         \A i \in DOMAIN s : t[i] \in T
  PROVE  t \in Seq(T)
OBVIOUS

LEMMA StayingOK ==
  ASSUME NEW S, NEW s \in Seq(S), NEW fromLua
  PROVE  Reg!Staying(s, fromLua) \in Seq({e \in S : e.fromLua # fromLua})
<1> DEFINE T == {e \in Reg!ToSet(s) : e.fromLua # fromLua}
<1>1. Reg!Staying(s, fromLua) \in Seq(S \cap T)
  BY AmongOK DEF Reg!Staying
<1>2. S \cap T \subseteq {e \in S : e.fromLua # fromLua}
  OBVIOUS
<1> QED BY <1>1, <1>2, SeqGrows

-----------------------------------------------------------------------------
(* Clearing one half of a registry.                                        *)

(* What clear() of either half leaves: those of the other half, or, for    *)
(* creature events, all, of which those of this half are not loaded.       *)
LeftBy(k, fromLua) == {e \in Sound(k) : e.fromLua = fromLua => ~e.loaded}

LEMMA StayingLeft ==
  ASSUME NEW k, NEW s \in Seq(Sound(k)), NEW fromLua \in BOOLEAN
  PROVE  Reg!Staying(s, fromLua) \in Seq(LeftBy(k, fromLua))
<1>1. {e \in Sound(k) : e.fromLua # fromLua} \subseteq LeftBy(k, fromLua)
  BY DEF LeftBy
<1>2. Reg!Staying(s, fromLua) \in Seq({e \in Sound(k) : e.fromLua # fromLua})
  BY StayingOK
<1> QED BY <1>1, <1>2, SeqGrows

LEMMA EventForgotten ==
  ASSUME NEW k, NEW fromLua, NEW e \in LeftBy(k, fromLua),
         NEW f, f = [e EXCEPT !.fresh = FALSE]
  PROVE  f \in LeftBy(k, fromLua) /\ ~f.fresh
BY DEF LeftBy, Sound, Answered, Events

(* ClearGlobalEvents forgets that the events it leaves have a timer.       *)
LEMMA GlobalsLeft ==
  ASSUME NEW k, NEW s \in Seq(Sound(k)), NEW fromLua \in BOOLEAN, NEW t,
         t = [i \in DOMAIN Reg!Staying(s, fromLua) |->
                [Reg!Staying(s, fromLua)[i] EXCEPT !.fresh = FALSE]]
  PROVE  t \in Seq(LeftBy(k, fromLua)) /\ \A x : ~FreshIn(t, x)
<1>1. PICK r : r = Reg!Staying(s, fromLua)
  OBVIOUS
<1>2. r \in Seq(LeftBy(k, fromLua))
  BY <1>1, StayingLeft
<1>3. t = [i \in DOMAIN r |-> [r[i] EXCEPT !.fresh = FALSE]]
  BY <1>1
<1>4. ASSUME NEW i \in DOMAIN r
      PROVE  t[i] \in LeftBy(k, fromLua) /\ ~t[i].fresh
  <2>1. PICK e \in LeftBy(k, fromLua) : e = r[i]
    BY <1>2
  <2>2. t[i] = [e EXCEPT !.fresh = FALSE]
    BY <1>3, <2>1
  <2>3. PICK f : f = [e EXCEPT !.fresh = FALSE]
    OBVIOUS
  <2>4. f \in LeftBy(k, fromLua) /\ ~f.fresh
    BY <2>3, EventForgotten
  <2> QED BY <2>2, <2>3, <2>4
<1>5. DOMAIN t = DOMAIN r /\ t = [i \in DOMAIN t |-> t[i]]
  BY <1>3
<1>6. t \in Seq(LeftBy(k, fromLua))
  BY <1>2, <1>4, <1>5, SeqOfSame
<1> QED BY <1>4, <1>5, <1>6 DEF FreshIn

(* ClearCreatureEvents empties events where they are.                      *)
LEMMA CreatureEventsLeft ==
  ASSUME NEW k, NEW s \in Seq(Sound(k)), NEW fromLua \in BOOLEAN, NEW t,
         t = [i \in DOMAIN s |->
                IF s[i].fromLua = fromLua
                THEN [s[i] EXCEPT !.loaded = FALSE, !.live = FALSE, !.home = "none"]
                ELSE s[i]]
  PROVE  t \in Seq(LeftBy(k, fromLua)) /\ SameHead(s, t)
<1>1. ASSUME NEW i \in DOMAIN s
      PROVE  t[i] \in LeftBy(k, fromLua) /\ t[i].type = s[i].type
  <2>1. PICK e \in Sound(k) : e = s[i]
    BY ElementOf
  <2>2. t[i] = IF e.fromLua = fromLua
               THEN [e EXCEPT !.loaded = FALSE, !.live = FALSE, !.home = "none"] ELSE e
    BY <2>1
  <2> QED BY <2>1, <2>2 DEF LeftBy, Sound, Answered, Events, Homes
<1>2. DOMAIN t = DOMAIN s /\ t = [i \in DOMAIN t |-> t[i]]
  OBVIOUS
<1>3. t \in Seq(LeftBy(k, fromLua))
  BY <1>1, <1>2, SeqOfSame
<1>4. ASSUME s # <<>> PROVE 1 \in DOMAIN s /\ t # <<>>
  <2>1. 1 \in DOMAIN s
    BY <1>4, HeadOf
  <2> QED BY <1>2, <2>1, NotEmpty
<1> QED BY <1>1, <1>3, <1>4 DEF SameHead

(* A new table: the callbacks of the registry's own interface are dead.    *)
LEMMA TableReplaced ==
  ASSUME NEW k, NEW s \in Seq(LeftBy(k, FALSE)), NEW t,
         t = [i \in DOMAIN s |->
                IF s[i].home = "own" THEN [s[i] EXCEPT !.live = FALSE] ELSE s[i]]
  PROVE  /\ t \in Seq(Sound(k)) /\ SameHead(s, t)
         /\ \A x : FreshIn(t, x) => FreshIn(s, x)
<1>1. ASSUME NEW i \in DOMAIN s
      PROVE  t[i] \in Sound(k) /\ t[i].type = s[i].type /\ t[i].fresh = s[i].fresh
  <2>1. PICK e \in LeftBy(k, FALSE) : e = s[i]
    BY ElementOf
  <2>2. t[i] = IF e.home = "own" THEN [e EXCEPT !.live = FALSE] ELSE e
    BY <2>1
  <2> QED BY <2>1, <2>2 DEF LeftBy, Sound, Answered, Events
<1>2. DOMAIN t = DOMAIN s /\ t = [i \in DOMAIN t |-> t[i]]
  OBVIOUS
<1>3. t \in Seq(Sound(k))
  BY <1>1, <1>2, SeqOfSame
<1>4. ASSUME s # <<>> PROVE 1 \in DOMAIN s /\ t # <<>>
  <2>1. 1 \in DOMAIN s
    BY <1>4, HeadOf
  <2> QED BY <1>2, <2>1, NotEmpty
<1> QED BY <1>1, <1>2, <1>3, <1>4 DEF SameHead, FreshIn

(* clear() and what BaseEvents::reload does before it, of a whole registry:*)
(* c is what b is cleared to.                                              *)
ClearedFrom(k, b, c) ==
  /\ k = "creature" => \A n \in Reg!Slots : SameHead(b[n], c[n])
  /\ k = "global" => \A n \in Reg!Slots : \A x : ~FreshIn(c[n], x)

LEMMA HalfCleared ==
  ASSUME registryKind \in Reg!Kinds, NEW b \in Books(registryKind), NEW fromLua \in BOOLEAN
  PROVE  \E c \in [Reg!Slots -> Seq(LeftBy(registryKind, fromLua))] :
           /\ Reg!Cleared(b, fromLua) = Reg!ReInitState(c, fromLua)
           /\ ClearedFrom(registryKind, b, c)
<1> DEFINE Left == [Reg!Slots -> Seq(LeftBy(registryKind, fromLua))]
           kept == [n \in Reg!Slots |-> Reg!Staying(b[n], fromLua)]
           quiet == Reg!ClearGlobalEvents(b, fromLua)
           emptied == Reg!ClearCreatureEvents(b, fromLua)
<1>1. \A n \in Reg!Slots : b[n] \in Seq(Sound(registryKind))
  BY DEF Books
<1>2. kept \in Left
  BY <1>1, StayingLeft
<1>3. quiet \in Left /\ \A n \in Reg!Slots : \A x : ~FreshIn(quiet[n], x)
  <2>1. quiet = [n \in Reg!Slots |-> quiet[n]]
    BY DEF Reg!ClearGlobalEvents
  <2>2. ASSUME NEW n \in Reg!Slots
        PROVE  quiet[n] \in Seq(LeftBy(registryKind, fromLua)) /\ \A x : ~FreshIn(quiet[n], x)
    <3>1. quiet[n] = [i \in DOMAIN Reg!Staying(b[n], fromLua) |->
                        [Reg!Staying(b[n], fromLua)[i] EXCEPT !.fresh = FALSE]]
      BY DEF Reg!ClearGlobalEvents, Reg!Quiet
    <3> HIDE DEF quiet
    <3> QED BY <1>1, <3>1, GlobalsLeft
  <2> HIDE DEF quiet
  <2> QED BY <2>1, <2>2
<1>4. emptied \in Left /\ \A n \in Reg!Slots : SameHead(b[n], emptied[n])
  <2>1. emptied = [n \in Reg!Slots |-> emptied[n]]
    BY DEF Reg!ClearCreatureEvents
  <2>2. ASSUME NEW n \in Reg!Slots
        PROVE  /\ emptied[n] \in Seq(LeftBy(registryKind, fromLua))
               /\ SameHead(b[n], emptied[n])
    <3>1. emptied[n] = [i \in DOMAIN b[n] |->
                          IF b[n][i].fromLua = fromLua
                          THEN [b[n][i] EXCEPT !.loaded = FALSE, !.live = FALSE, !.home = "none"]
                          ELSE b[n][i]]
      BY DEF Reg!ClearCreatureEvents
    <3> HIDE DEF emptied
    <3> QED BY <1>1, <3>1, CreatureEventsLeft
  <2> HIDE DEF emptied
  <2> QED BY <2>1, <2>2
<1> DEFINE Goes(c) == /\ Reg!Cleared(b, fromLua) = Reg!ReInitState(c, fromLua)
                      /\ ClearedFrom(registryKind, b, c)
<1>5. CASE registryKind = "creature"
  <2>1. Reg!Cleared(b, fromLua) = Reg!ReInitState(emptied, fromLua)
    BY <1>5 DEF Reg!Cleared
  <2> HIDE DEF emptied
  <2>2. Goes(emptied)
    BY <1>4, <1>5, <2>1 DEF ClearedFrom
  <2> QED BY <1>4, <2>2
<1>6. CASE registryKind = "global"
  <2>1. Reg!Cleared(b, fromLua) = Reg!ReInitState(quiet, fromLua)
    BY <1>6 DEF Reg!Cleared
  <2> HIDE DEF quiet
  <2>2. Goes(quiet)
    BY <1>3, <1>6, <2>1 DEF ClearedFrom
  <2> QED BY <1>3, <2>2
<1>7. CASE registryKind \notin {"creature", "global"}
  <2>1. Reg!Cleared(b, fromLua) = Reg!ReInitState(kept, fromLua)
    BY <1>7 DEF Reg!Cleared, Reg!Kinds, Reg!ClearActions, Reg!ClearTalkActions,
       Reg!ClearSpells, Reg!ClearWeapons, Reg!ClearMoveEvents
  <2> HIDE DEF kept
  <2>2. Goes(kept)
    BY <1>7, <2>1 DEF ClearedFrom
  <2> QED BY <1>2, <2>2
<1> QED BY <1>5, <1>6, <1>7

LEMMA ClearedOK ==
  ASSUME registryKind \in Reg!Kinds, NEW b \in Books(registryKind), NEW fromLua \in BOOLEAN
  PROVE  /\ Reg!Cleared(b, fromLua) \in Books(registryKind)
         /\ ClearedFrom(registryKind, b, Reg!Cleared(b, fromLua))
<1> DEFINE d == Reg!Cleared(b, fromLua)
<1>1. PICK c \in [Reg!Slots -> Seq(LeftBy(registryKind, fromLua))] :
        /\ d = Reg!ReInitState(c, fromLua)
        /\ ClearedFrom(registryKind, b, c)
  BY HalfCleared
<1> HIDE DEF d
<1>2. LeftBy(registryKind, fromLua) \subseteq Sound(registryKind)
  BY DEF LeftBy
<1>3. CASE fromLua
  <2>1. d = c
    BY <1>1, <1>3 DEF Reg!ReInitState
  <2>2. \A n \in Reg!Slots : c[n] \in Seq(Sound(registryKind))
    BY <1>2, SeqGrows
  <2> QED BY <1>1, <2>1, <2>2 DEF Books, d
<1>4. CASE fromLua = FALSE
  <2>1. ASSUME NEW n \in Reg!Slots
        PROVE  /\ d[n] \in Seq(Sound(registryKind)) /\ SameHead(c[n], d[n])
               /\ \A x : FreshIn(d[n], x) => FreshIn(c[n], x)
    <3>1. d[n] = [i \in DOMAIN c[n] |->
                    IF c[n][i].home = "own" THEN [c[n][i] EXCEPT !.live = FALSE] ELSE c[n][i]]
      BY <1>1, <1>4 DEF Reg!ReInitState, Reg!Lapsed
    <3>2. c[n] \in Seq(LeftBy(registryKind, FALSE))
      BY <1>4
    <3> QED BY <3>1, <3>2, TableReplaced
  <2>2. d = [n \in Reg!Slots |-> d[n]]
    BY <1>1, <1>4 DEF Reg!ReInitState
  <2>3. d \in Books(registryKind)
    BY <2>1, <2>2 DEF Books
  <2>4. ClearedFrom(registryKind, b, d)
    BY <1>1, <2>1 DEF ClearedFrom, SameHead
  <2> QED BY <2>3, <2>4 DEF d
<1> QED BY <1>3, <1>4

-----------------------------------------------------------------------------
(* Registering an event under a key.                                       *)

(* r is s with the event e registered, or not.                             *)
Registered(s, r, e) ==
  /\ r \in Seq(Sound(registryKind))
  /\ registryKind = "creature" => SameHead(s, r)
  /\ \A x : FreshIn(r, x) => FreshIn(s, x) \/ e.type = x

LEMMA NotRegistered ==
  ASSUME NEW s \in Seq(Sound(registryKind)), NEW e
  PROVE  Registered(s, s, e)
BY DEF Registered, SameHead

LEMMA EmplaceOK ==
  ASSUME NEW s \in Seq(Sound(registryKind)), NEW e \in Sound(registryKind)
  PROVE  Registered(s, Reg!Emplace(s, e), e)
<1>1. CASE s = <<>>
  <2>1. Reg!Emplace(s, e) = <<e>>
    BY <1>1 DEF Reg!Emplace
  <2>2. Registered(s, <<e>>, e)
    BY <1>1 DEF Registered, SameHead, FreshIn
  <2> QED BY <2>1, <2>2
<1>2. CASE s # <<>>
  BY <1>2, NotRegistered DEF Reg!Emplace
<1> QED BY <1>1, <1>2

LEMMA AppendOK ==
  ASSUME NEW s \in Seq(Sound(registryKind)), NEW e \in Sound(registryKind)
  PROVE  Registered(s, Append(s, e), e)
<1>1. PICK r : r = Append(s, e)
  OBVIOUS
<1>2. /\ r \in Seq(Sound(registryKind)) /\ Len(s) \in Nat
      /\ DOMAIN s = 1 .. Len(s) /\ DOMAIN r = 1 .. Len(s) + 1
      /\ \A i \in 1 .. Len(s) : r[i] = s[i]
      /\ r[Len(s) + 1] = e
  BY <1>1
<1>3. SameHead(s, r)
  <2> SUFFICES ASSUME s # <<>> PROVE r # <<>> /\ r[1].type = s[1].type
    BY DEF SameHead
  <2>1. 1 \in DOMAIN s
    BY HeadOf
  <2> QED BY <1>2, <2>1, NotEmpty
<1>4. ASSUME NEW x, FreshIn(r, x)
      PROVE  FreshIn(s, x) \/ e.type = x
  <2>1. PICK i \in 1 .. Len(s) + 1 : r[i].type = x /\ r[i].fresh
    BY <1>2, <1>4 DEF FreshIn
  <2>2. CASE i \in 1 .. Len(s)
    BY <1>2, <2>1, <2>2 DEF FreshIn
  <2>3. CASE i = Len(s) + 1
    BY <1>2, <2>1, <2>3
  <2> QED BY <1>2, <2>2, <2>3
<1> QED BY <1>1, <1>2, <1>3, <1>4 DEF Registered

LEMMA CreatureEventRegistered ==
  ASSUME NEW s \in Seq(Sound(registryKind)), NEW e \in Sound(registryKind),
         e.live, e.loaded
  PROVE  Registered(s, Reg!RegisterCreatureEvent(s, e), e)
<1>1. CASE s = <<>>
  <2>1. Reg!RegisterCreatureEvent(s, e) = Reg!Emplace(s, e)
    BY <1>1 DEF Reg!Emplace, Reg!RegisterCreatureEvent
  <2> QED BY <2>1, EmplaceOK
<1>2. CASE s # <<>> /\ ~s[1].loaded /\ s[1].type = e.type
  <2>1. PICK o \in Sound(registryKind) : o = s[1]
    BY <1>2, HeadOf, ElementOf
  <2>2. PICK c : c = Reg!CopyEvent(o, e)
    OBVIOUS
  <2>3. c \in Sound(registryKind) /\ c.type = o.type
    BY <2>2 DEF Reg!CopyEvent, Sound, Answered, Events
  <2>4. PICK r : r = <<c>>
    OBVIOUS
  <2>5. r \in Seq(Sound(registryKind)) /\ r # <<>> /\ r[1] = c /\ DOMAIN r = {1}
    BY <2>3, <2>4
  <2>6. Registered(s, r, e)
    BY <1>2, <2>1, <2>3, <2>5 DEF Registered, SameHead, FreshIn
  <2>7. Reg!RegisterCreatureEvent(s, e) = r
    BY <1>2, <2>1, <2>2, <2>4 DEF Reg!RegisterCreatureEvent
  <2> QED BY <2>6, <2>7
<1>3. CASE s # <<>> /\ ~(~s[1].loaded /\ s[1].type = e.type)
  BY <1>3, NotRegistered DEF Reg!RegisterCreatureEvent
<1> QED BY <1>1, <1>2, <1>3

LEMMA WeaponRegistered ==
  ASSUME NEW s \in Seq(Sound(registryKind)), NEW e \in Sound(registryKind),
         registryKind = "weapon"
  PROVE  Registered(s, Reg!RegisterLuaWeapon(s, e), e)
<1>1. Reg!RegisterLuaWeapon(s, e) = <<e>>
  BY DEF Reg!RegisterLuaWeapon
<1>2. Registered(s, <<e>>, e)
  BY DEF Registered, FreshIn
<1> QED BY <1>1, <1>2

LEMMA RegisterOK ==
  ASSUME registryKind \in Reg!Kinds,
         NEW s \in Seq(Sound(registryKind)), NEW e \in Sound(registryKind),
         e.live, e.loaded
  PROVE  Registered(s, Reg!Register(s, e), e)
<1>1. CASE registryKind \in {"action", "talk", "spell", "weapon"}
  <2>1. Reg!Register(s, e) = Reg!Emplace(s, e)
    BY <1>1 DEF Reg!Register, Reg!RegisterAction, Reg!RegisterTalkAction, Reg!RegisterSpell,
       Reg!RegisterWeapon
  <2> QED BY <2>1, EmplaceOK
<1>2. CASE registryKind = "creature"
  BY <1>2, CreatureEventRegistered DEF Reg!Register
<1>3. CASE registryKind = "global"
  BY <1>3, NotRegistered, AppendOK DEF Reg!Register, Reg!RegisterGlobalEvent
<1>4. CASE registryKind = "move"
  BY <1>4, NotRegistered, AppendOK DEF Reg!Register, Reg!RegisterMoveEvent, Reg!AddMoveEvent
<1> QED BY <1>1, <1>2, <1>3, <1>4 DEF Reg!Kinds

-----------------------------------------------------------------------------
(* Loading a registry.                                                     *)

(* The registry c has the events of b and more, or in other places.        *)
Follows(b, c) ==
  /\ c \in Books(registryKind)
  /\ registryKind = "creature" => \A n \in Reg!Slots : SameHead(b[n], c[n])

LEMMA FollowsOn ==
  ASSUME NEW b, NEW c, NEW d, Follows(b, c), Follows(c, d)
  PROVE  Follows(b, d)
BY DEF Follows, SameHead

LEMMA EventOK ==
  ASSUME NEW type \in TypesIn(registryKind), NEW fromLua \in BOOLEAN, NEW home \in Homes
  PROVE  LET e == Reg!Event(type, fromLua, home)
         IN  e \in Sound(registryKind) /\ e.live /\ e.loaded /\ e.type = type
<1>1. type \in EventTypes
  BY DEF TypesIn, Reg!TypesOf, EventTypes, Reg!CreatureTypes, Reg!GlobalTypes
<1> QED BY <1>1 DEF Reg!Event, Sound, Answered, Events

(* The nodes of an XML file are events of types that the registry knows.   *)
LEMMA XmlLoaded ==
  ASSUME registryKind \in Reg!Kinds, NEW b \in Books(registryKind), NEW nodes \in Reg!Nodes
  PROVE  Follows(b, Reg!LoadFromXml(b, nodes))
<1> DEFINE c == Reg!LoadFromXml(b, nodes)
<1>1. c = [n \in Reg!Slots |-> c[n]]
  BY DEF Reg!LoadFromXml
<1>2. ASSUME NEW n \in Reg!Slots
      PROVE  /\ c[n] \in Seq(Sound(registryKind))
             /\ registryKind = "creature" => SameHead(b[n], c[n])
  <2>1. b[n] \in Seq(Sound(registryKind))
    BY DEF Books
  <2>2. CASE n \in DOMAIN nodes
    <3>1. PICK e : e = Reg!Event(nodes[n], FALSE, "own")
      OBVIOUS
    <3>2. nodes[n] \in TypesIn(registryKind)
      BY <2>2 DEF Reg!Nodes, TypesIn
    <3>3. e \in Sound(registryKind) /\ e.live /\ e.loaded
      BY <3>1, <3>2, EventOK DEF Homes
    <3>4. c[n] = Reg!Register(b[n], e)
      BY <2>2, <3>1 DEF Reg!LoadFromXml
    <3>5. Registered(b[n], Reg!Register(b[n], e), e)
      BY <2>1, <3>3, RegisterOK
    <3> QED BY <3>4, <3>5 DEF Registered
  <2>3. CASE n \notin DOMAIN nodes
    <3>1. c[n] = b[n]
      BY <2>3 DEF Reg!LoadFromXml
    <3> HIDE DEF c
    <3> QED BY <2>1, <3>1 DEF SameHead
  <2> QED BY <2>2, <2>3
<1> HIDE DEF c
<1>3. c \in Books(registryKind)
  BY <1>1, <1>2 DEF Books
<1> QED BY <1>2, <1>3 DEF Follows, c

(* Only weapons have defaults.                                             *)
LEMMA DefaultsLoaded ==
  ASSUME NEW b \in Books(registryKind), NEW armed
  PROVE  /\ Follows(b, Reg!LoadDefaults(b, armed))
         /\ registryKind # "weapon" => Reg!LoadDefaults(b, armed) = b
<1> DEFINE c == Reg!LoadDefaults(b, armed)
<1>1. c = [n \in Reg!Slots |-> c[n]]
  BY DEF Reg!LoadDefaults
<1>2. CASE registryKind = "weapon"
  <2>1. ASSUME NEW n \in Reg!Slots
        PROVE  c[n] \in Seq(Sound(registryKind))
    <3>1. b[n] \in Seq(Sound(registryKind))
      BY DEF Books
    <3>2. PICK e : e = Reg!Event("use", FALSE, "none")
      OBVIOUS
    <3>3. e \in Sound(registryKind)
      BY <1>2, <3>2, EventOK DEF Homes, TypesIn, Reg!TypesOf
    <3>4. c[n] = b[n] \/ c[n] = Reg!Emplace(b[n], e)
      BY <3>2 DEF Reg!LoadDefaults
    <3>5. Registered(b[n], Reg!Emplace(b[n], e), e)
      BY <3>1, <3>3, EmplaceOK
    <3> HIDE DEF c
    <3> QED BY <3>1, <3>4, <3>5 DEF Registered
  <2> HIDE DEF c
  <2>2. c \in Books(registryKind)
    BY <1>1, <2>1 DEF Books
  <2> QED BY <1>2, <2>2 DEF Follows, c
<1>3. CASE registryKind # "weapon"
  <2>1. c = [n \in Reg!Slots |-> b[n]]
    BY <1>3 DEF Reg!LoadDefaults
  <2>2. c = b
    BY <2>1 DEF Books
  <2> HIDE DEF c
  <2> QED BY <1>3, <2>2 DEF Follows, SameHead, c
<1> QED BY <1>2, <1>3

(* A clear leaves every list that creatures point to where it is.          *)
LEMMA ClearFollows ==
  ASSUME registryKind \in Reg!Kinds, NEW b \in Books(registryKind), NEW fromLua \in BOOLEAN
  PROVE  Follows(b, Reg!Cleared(b, fromLua))
BY ClearedOK DEF Follows, ClearedFrom

-----------------------------------------------------------------------------
(* The registries, step by step.                                           *)

(* RegistriesAgree, with the types of what it speaks of: CallsLive is      *)
(* within Books.  Only creature events are pointed to by creatures, only   *)
(* global events have timers, and a timer runs out only while the server   *)
(* runs.                                                                   *)
Made == [keys : Seq(Reg!Slots), type : TypesIn(registryKind), home : Homes,
         scripted : BOOLEAN]

RegTypes ==
  /\ registryKind \in Reg!Kinds
  /\ phase \in {"start", "loading", "running"}
  /\ book \in Books(registryKind)
  /\ made \in Made
  /\ task \in [Reg!Timers -> {"none", "waiting", "handed", "spent"}]
  /\ strays \in [Reg!Timers -> Nat]

ListKept ==
  /\ list \subseteq Reg!Slots
  /\ list # {} => registryKind = "creature"
  /\ \A n \in list : book[n] # <<>>
  /\ bits = {book[n][1].type : n \in list}

Serves(x) == task[x] \in {"waiting", "handed"} \/ strays[x] > 0

TimersKept ==
  /\ registryKind # "global" => \A x \in Reg!Timers : task[x] = "none" /\ strays[x] = 0
  /\ phase # "running" => \A x \in Reg!Timers : task[x] # "spent"
  /\ \A x \in Reg!Timers : (\E n \in Reg!Slots : FreshIn(book[n], x)) => Serves(x)

RegInv == RegTypes /\ ListKept /\ TimersKept

LEMMA RegInit == Reg!Init => RegInv
<1> SUFFICES ASSUME Reg!Init PROVE RegInv
  OBVIOUS
<1>1. made \in Made
  BY DEF Reg!Init, Reg!NotMade, Made, TypesIn, Homes
<1>2. book \in Books(registryKind) /\ \A n \in Reg!Slots : DOMAIN book[n] = {}
  BY DEF Reg!Init, Books
<1>3. RegTypes
  BY <1>1, <1>2 DEF Reg!Init, RegTypes
<1>4. ListKept
  BY DEF Reg!Init, ListKept
<1>5. TimersKept
  BY <1>2 DEF Reg!Init, TimersKept, FreshIn
<1> QED BY <1>3, <1>4, <1>5 DEF RegInv

(* A creature's list stays right while its registry is loaded and cleared. *)
LEMMA ListStays ==
  ASSUME RegInv, Follows(book, book'), UNCHANGED <<registryKind, list, bits>>
  PROVE  ListKept'
<1>1. \A n \in list : book'[n] # <<>> /\ book'[n][1].type = book[n][1].type
  BY DEF RegInv, ListKept, Follows, SameHead
<1> QED BY <1>1 DEF RegInv, ListKept

(* Only global events are fresh for a timer.                               *)
LEMMA OnlyGlobals ==
  ASSUME NEW s \in Seq(Sound(registryKind)), NEW x \in Reg!Timers, FreshIn(s, x)
  PROVE  registryKind = "global"
BY ElementOf DEF FreshIn, Sound, TypesIn, Reg!TypesOf, Reg!Timers, Reg!CreatureTypes,
   Reg!GlobalTypes

(* Whatever of the registry is fresh is among the types that were added.   *)
LEMMA FreshAdded ==
  ASSUME NEW b, NEW n \in Reg!Slots, NEW x, FreshIn(b[n], x)
  PROVE  x \in Reg!AddedTypes(b)
BY DEF FreshIn, Reg!AddedTypes

LEMMA StrayCounts ==
  ASSUME RegInv, Reg!Stray, UNCHANGED registryKind
  PROVE  /\ strays' \in [Reg!Timers -> Nat]
         /\ registryKind # "global" => \A x \in Reg!Timers : strays'[x] = 0
BY DEF RegInv, RegTypes, TimersKept, Reg!Stray, Reg!Forgotten

(* Timers that are started for all that is fresh serve it.                 *)
LEMMA TimersStarted ==
  ASSUME RegInv, Follows(book, book'), UNCHANGED <<registryKind, list, bits>>,
         phase' \in {"start", "loading", "running"}, made' \in Made,
         strays' \in [Reg!Timers -> Nat],
         registryKind # "global" => \A x \in Reg!Timers : strays'[x] = 0,
         NEW t \in [Reg!Timers -> {"none", "waiting", "handed"}],
         task' = Reg!GlobalsOnly(Reg!Started(t, Reg!AddedTypes(book')))
  PROVE  RegInv'
<1>1. CASE registryKind = "global"
  <2>1. task' = [x \in Reg!Timers |-> IF t[x] = "none" /\ x \in Reg!AddedTypes(book')
                                      THEN "waiting" ELSE t[x]]
    BY <1>1 DEF Reg!GlobalsOnly, Reg!Started
  <2>2. task' \in [Reg!Timers -> {"none", "waiting", "handed"}]
    BY <2>1
  <2>3. \A x \in Reg!Timers : x \in Reg!AddedTypes(book') => task'[x] \in {"waiting", "handed"}
    BY <2>1
  <2>4. TimersKept'
    BY <1>1, <2>2, <2>3, FreshAdded DEF TimersKept, Serves
  <2>5. RegTypes'
    BY <2>2 DEF RegInv, RegTypes, Follows, Made
  <2> QED BY <2>4, <2>5, ListStays DEF RegInv
<1>2. CASE registryKind # "global"
  <2>1. task' = task
    BY <1>2 DEF Reg!GlobalsOnly
  <2>2. \A n \in Reg!Slots : book'[n] \in Seq(Sound(registryKind))
    BY DEF Follows, Books
  <2>3. TimersKept'
    BY <1>2, <2>1, <2>2, OnlyGlobals DEF RegInv, TimersKept
  <2>4. RegTypes'
    BY <2>1 DEF RegInv, RegTypes, Follows, Made
  <2> QED BY <2>3, <2>4, ListStays DEF RegInv
<1> QED BY <1>1, <1>2

(* Timers that are stopped serve nothing, and nothing needs them.          *)
LEMMA TimersStopped ==
  ASSUME RegInv, Follows(book, book'), UNCHANGED <<registryKind, list, bits>>,
         phase' \in {"start", "loading", "running"}, made' \in Made,
         Reg!Stray,
         registryKind = "global" => \A n \in Reg!Slots : \A x : ~FreshIn(book'[n], x),
         task' = Reg!GlobalsOnly(Reg!StopTimers(task))
  PROVE  RegInv'
<1>1. \A n \in Reg!Slots : book'[n] \in Seq(Sound(registryKind))
  BY DEF Follows, Books
<1>2. /\ strays' \in [Reg!Timers -> Nat]
      /\ registryKind # "global" => \A x \in Reg!Timers : strays'[x] = 0
  BY StrayCounts
<1>3. task' \in [Reg!Timers -> {"none", "waiting", "handed", "spent"}]
  BY DEF RegInv, RegTypes, Reg!GlobalsOnly, Reg!StopTimers
<1>4. \A x \in Reg!Timers : task'[x] = "none"
  BY DEF RegInv, TimersKept, Reg!GlobalsOnly, Reg!StopTimers
<1>5. TimersKept'
  BY <1>1, <1>2, <1>4, OnlyGlobals DEF TimersKept
<1>6. RegTypes'
  BY <1>2, <1>3 DEF RegInv, RegTypes, Follows, Made
<1> QED BY <1>5, <1>6, ListStays DEF RegInv

LEMMA StartupKeeps ==
  ASSUME RegInv, NEW nodes \in Reg!Nodes, NEW armed, Reg!Startup(nodes, armed)
  PROVE  RegInv'
<1>1. Follows(book, Reg!LoadFromXml(book, nodes))
  BY XmlLoaded DEF RegInv, RegTypes
<1>2. Follows(book, book')
  BY <1>1, DefaultsLoaded, FollowsOn DEF Reg!Startup, Follows
<1>3. task \in [Reg!Timers -> {"none", "waiting", "handed"}]
  BY DEF RegInv, RegTypes, TimersKept, Reg!Startup
<1> QED BY <1>2, <1>3, TimersStarted DEF Reg!Startup, RegInv, RegTypes, TimersKept, Made

LEMMA ReloadXmlKeeps ==
  ASSUME RegInv, NEW nodes \in Reg!Nodes, NEW armed, Reg!ReloadXml(nodes, armed)
  PROVE  RegInv'
<1>1. Follows(book, Reg!Cleared(book, FALSE))
  BY ClearFollows DEF RegInv, RegTypes
<1>2. Follows(Reg!Cleared(book, FALSE), Reg!LoadFromXml(Reg!Cleared(book, FALSE), nodes))
  BY <1>1, XmlLoaded DEF RegInv, RegTypes, Follows
<1>3. Follows(book, book')
  BY <1>1, <1>2, DefaultsLoaded, FollowsOn DEF Reg!ReloadXml, Reg!ReloadedBook, Follows
<1>4. Reg!StopTimers(task) \in [Reg!Timers -> {"none", "waiting", "handed"}]
  BY DEF Reg!StopTimers
<1>5. /\ strays' \in [Reg!Timers -> Nat]
      /\ registryKind # "global" => \A x \in Reg!Timers : strays'[x] = 0
  BY StrayCounts DEF Reg!ReloadXml
<1> QED
  BY <1>3, <1>4, <1>5, TimersStarted DEF Reg!ReloadXml, RegInv, RegTypes, Made

LEMMA NotMadeOK == Reg!NotMade \in Made
BY DEF Reg!NotMade, Made, TypesIn, Homes

LEMMA ReloadScriptsKeeps ==
  ASSUME RegInv, NEW armed, Reg!ReloadScripts(armed)
  PROVE  RegInv'
<1>1. /\ Follows(book, Reg!Cleared(book, TRUE))
      /\ ClearedFrom(registryKind, book, Reg!Cleared(book, TRUE))
  BY ClearFollows, ClearedOK DEF RegInv, RegTypes
<1>2. Follows(book, book')
  BY <1>1, DefaultsLoaded, FollowsOn DEF Reg!ReloadScripts, Follows
<1>3. registryKind = "global" => \A n \in Reg!Slots : \A x : ~FreshIn(book'[n], x)
  BY <1>1, DefaultsLoaded DEF Reg!ReloadScripts, Follows, ClearedFrom
<1>4. made' \in Made
  BY NotMadeOK DEF Reg!ReloadScripts
<1> QED BY <1>2, <1>3, <1>4, TimersStopped DEF Reg!ReloadScripts

LEMMA ReloadAllKeeps ==
  ASSUME RegInv, NEW nodes \in Reg!Nodes, NEW armed, Reg!ReloadAll(nodes, armed)
  PROVE  RegInv'
<1> DEFINE b1 == Reg!Cleared(book, FALSE)
           b2 == Reg!LoadFromXml(b1, nodes)
           b3 == Reg!Cleared(b2, TRUE)
<1>0. registryKind \in Reg!Kinds /\ book \in Books(registryKind)
  BY DEF RegInv, RegTypes
<1>1. Follows(book, b1) /\ b1 \in Books(registryKind)
  BY <1>0, ClearFollows DEF Follows
<1>2. Follows(b1, b2) /\ b2 \in Books(registryKind)
  <2> HIDE DEF b1
  <2> QED BY <1>0, <1>1, XmlLoaded DEF Follows
<1>3. Follows(b2, b3) /\ b3 \in Books(registryKind) /\ ClearedFrom(registryKind, b2, b3)
  <2> HIDE DEF b1, b2
  <2> QED BY <1>0, <1>2, ClearFollows, ClearedOK DEF Follows
<1>4. book' = Reg!LoadDefaults(b3, armed)
  BY DEF Reg!ReloadAll
<1> HIDE DEF b1, b2, b3
<1>5. Follows(book, b2)
  BY <1>1, <1>2, FollowsOn
<1>6. Follows(book, b3)
  BY <1>3, <1>5, FollowsOn
<1>7. Follows(book, book')
  BY <1>3, <1>4, <1>6, DefaultsLoaded, FollowsOn
<1>8. registryKind = "global" => \A n \in Reg!Slots : \A x : ~FreshIn(book'[n], x)
  BY <1>3, <1>4, DefaultsLoaded DEF ClearedFrom
<1>9. made' \in Made
  BY NotMadeOK DEF Reg!ReloadAll
<1> QED BY <1>7, <1>8, <1>9, TimersStopped DEF Reg!ReloadAll

(* Scripts only build the event they are about to register.                *)
LEMMA ScriptsKeep ==
  ASSUME RegInv, made' \in Made, phase' = phase,
         UNCHANGED <<registryKind, book, list, bits, task, strays>>
  PROVE  RegInv'
BY DEF RegInv, RegTypes, ListKept, TimersKept, Serves, Made

LEMMA KeysAppended ==
  ASSUME NEW m \in Made, NEW n \in Reg!Slots
  PROVE  /\ [m EXCEPT !.keys = Append(@, n)] \in Made
         /\ [m EXCEPT !.keys = <<n>>] \in Made
<1>1. Append(m.keys, n) \in Seq(Reg!Slots) /\ <<n>> \in Seq(Reg!Slots)
  BY DEF Made
<1> QED BY <1>1 DEF Made

LEMMA LuaKeeps ==
  ASSUME RegInv,
         Reg!LuaCreate \/ Reg!LuaSetKey \/ Reg!LuaSetType \/ Reg!LoadCallback
  PROVE  RegInv'
<1>0. registryKind \in Reg!Kinds /\ made \in Made
  BY DEF RegInv, RegTypes
<1>1. CASE Reg!LuaCreate
  <2>1. ASSUME NEW keys \in {<<>>} \cup {<<n>> : n \in Reg!Slots},
               NEW type \in TypesIn(registryKind), NEW home \in Homes
        PROVE  Reg!NewEvent(keys, type, home) \in Made
    <3>1. keys \in Seq(Reg!Slots)
      <4>1. CASE keys = <<>>
        BY <4>1
      <4>2. ASSUME NEW n \in Reg!Slots, keys = <<n>>
            PROVE  keys \in Seq(Reg!Slots)
        BY <4>2
      <4> QED BY <4>1, <4>2
    <3> QED BY <3>1 DEF Reg!NewEvent, Made
  <2>2. CASE registryKind \in {"action", "move"}
    <3>1. made' = Reg!NewEvent(<<>>, "use", "scripts")
      BY <1>1, <2>2 DEF Reg!LuaCreate, Reg!CreateAction, Reg!CreateMoveEvent
    <3> QED BY <1>1, <2>1, <2>2, <3>1, ScriptsKeep
         DEF Reg!LuaCreate, TypesIn, Reg!TypesOf, Homes
  <2>3. CASE registryKind \in {"talk", "creature", "global"}
    <3>1. PICK n \in Keys, type \in TypesIn(registryKind) :
            made' = Reg!NewEvent(<<n>>, type, "scripts")
      BY <1>1, <2>3 DEF Reg!LuaCreate, Reg!CreateTalkAction, Reg!CreateCreatureEvent,
         Reg!CreateGlobalEvent, TypesIn, Reg!TypesOf, Reg!GlobalTypes
    <3>2. n \in Reg!Slots
      BY DEF Reg!Slots
    <3> QED BY <1>1, <2>1, <3>1, <3>2, ScriptsKeep DEF Reg!LuaCreate, Homes
  <2>4. CASE registryKind \in {"spell", "weapon"}
    <3>1. PICK home \in Homes : made' = Reg!NewEvent(<<NoKey>>, "use", home)
      BY <1>1, <2>4 DEF Reg!LuaCreate, Reg!CreateSpell, Reg!CreateWeapon, Homes
    <3>2. NoKey \in Reg!Slots
      BY DEF Reg!Slots
    <3> QED BY <1>1, <2>1, <2>4, <3>1, <3>2, ScriptsKeep
         DEF Reg!LuaCreate, TypesIn, Reg!TypesOf
  <2> QED BY <1>0, <2>2, <2>3, <2>4 DEF Reg!Kinds
<1>2. CASE Reg!LuaSetKey
  <2>1. PICK n \in Reg!Slots : \/ made' = [made EXCEPT !.keys = Append(@, n)]
                               \/ made' = [made EXCEPT !.keys = <<n>>]
    BY <1>2 DEF Reg!LuaSetKey, Reg!ActionIds, Reg!MoveEventIds, Reg!SpellWords,
       Reg!SpellRuneId, Reg!WeaponId, Reg!Slots
  <2>2. made' \in Made
    BY <1>0, <2>1, KeysAppended
  <2> QED BY <1>2, <2>2, ScriptsKeep DEF Reg!LuaSetKey
<1>3. CASE Reg!LuaSetType
  <2>1. PICK t \in TypesIn(registryKind) : made' = [made EXCEPT !.type = t]
    BY <1>3 DEF Reg!LuaSetType, Reg!CreatureEventType, Reg!GlobalEventType,
       Reg!GlobalEventTime, TypesIn, Reg!TypesOf, Reg!GlobalTypes
  <2>2. made' \in Made
    BY <1>0, <2>1 DEF Made
  <2> QED BY <1>3, <2>2, ScriptsKeep DEF Reg!LuaSetType
<1>4. CASE Reg!LoadCallback
  <2>1. made' \in Made
    BY <1>0, <1>4 DEF Made, Reg!LoadCallback
  <2> QED BY <1>4, <2>1, ScriptsKeep DEF Reg!LoadCallback
<1> QED BY <1>1, <1>2, <1>3, <1>4

LEMMA LoadedKeeps ==
  ASSUME RegInv, Reg!Loaded
  PROVE  RegInv'
BY NotMadeOK DEF Reg!Loaded, RegInv, RegTypes, ListKept, TimersKept, Serves, Made

(* The event that a script made is registered under its keys, with the     *)
(* callback that the script gave it.                                       *)
LEMMA AllRegistered ==
  ASSUME registryKind \in Reg!Kinds, book \in Books(registryKind), made \in Made,
         Reg!LuaRegister
  PROVE  \A n \in Reg!Slots :
           book'[n] = book[n] \/ Registered(book[n], book'[n], Reg!MadeEvent)
<1> DEFINE e == Reg!MadeEvent
<1>1. e \in Sound(registryKind) /\ e.live /\ e.loaded
  <2>1. PICK home \in Homes : home = IF made.scripted THEN made.home ELSE "none"
    BY DEF Made, Homes
  <2>2. e = Reg!Event(made.type, registryKind # "weapon", home)
    BY <2>1 DEF Reg!MadeEvent
  <2>3. made.type \in TypesIn(registryKind)
    BY DEF Made
  <2> HIDE DEF e
  <2> QED BY <2>2, <2>3, EventOK
<1>2. ASSUME NEW n \in Reg!Slots
      PROVE  \/ book'[n] = book[n]
             \/ book'[n] = Reg!Emplace(book[n], e)
             \/ registryKind = "creature" /\ book'[n] = Reg!RegisterCreatureEvent(book[n], e)
             \/ book'[n] = Reg!RegisterGlobalEvent(book[n], e)
             \/ book'[n] = Reg!AddMoveEvent(book[n], e)
             \/ registryKind = "weapon" /\ book'[n] = Reg!RegisterLuaWeapon(book[n], e)
  <2> HIDE DEF e
  <2> QED BY DEF Reg!LuaRegister, Reg!RegisterLuaAction, Reg!RegisterLuaTalkAction,
       Reg!RegisterLuaCreatureEvent, Reg!RegisterLuaGlobalEvent, Reg!RegisterLuaSpell,
       Reg!RegisterLuaWeaponEvent, Reg!RegisterLuaFunction, Reg!RegisterLuaMoveEvent,
       Reg!RegisterAll, Reg!RegisterAction, Reg!RegisterTalkAction, Reg!RegisterSpell, e
<1> HIDE DEF e
<1>3. ASSUME NEW s \in Seq(Sound(registryKind))
      PROVE  /\ Registered(s, Reg!Emplace(s, e), e)
             /\ Registered(s, Reg!RegisterCreatureEvent(s, e), e)
             /\ Registered(s, Reg!RegisterGlobalEvent(s, e), e)
             /\ Registered(s, Reg!AddMoveEvent(s, e), e)
             /\ registryKind = "weapon" => Registered(s, Reg!RegisterLuaWeapon(s, e), e)
  BY <1>1, EmplaceOK, CreatureEventRegistered, NotRegistered, AppendOK, WeaponRegistered
     DEF Reg!RegisterGlobalEvent, Reg!AddMoveEvent
<1>4. \A n \in Reg!Slots : book[n] \in Seq(Sound(registryKind))
  BY DEF Books
<1> QED BY <1>2, <1>3, <1>4 DEF e

LEMMA RegisterKeeps ==
  ASSUME RegInv, Reg!LuaRegister
  PROVE  RegInv'
<1>0. /\ registryKind \in Reg!Kinds /\ book \in Books(registryKind) /\ made \in Made
      /\ \A n \in Reg!Slots : book[n] \in Seq(Sound(registryKind))
      /\ task \in [Reg!Timers -> {"none", "waiting", "handed"}]
      /\ phase = "loading"
  BY DEF RegInv, RegTypes, Books, TimersKept, Reg!LuaRegister
<1>1. \A n \in Reg!Slots :
        book'[n] = book[n] \/ Registered(book[n], book'[n], Reg!MadeEvent)
  BY <1>0, AllRegistered
<1>2. book' = book \/ book' = [n \in Reg!Slots |-> book'[n]]
  BY DEF Reg!LuaRegister, Reg!RegisterLuaAction, Reg!RegisterLuaTalkAction,
     Reg!RegisterLuaCreatureEvent, Reg!RegisterLuaGlobalEvent, Reg!RegisterLuaSpell,
     Reg!RegisterLuaWeaponEvent, Reg!RegisterLuaFunction, Reg!RegisterLuaMoveEvent,
     Reg!RegisterAll
<1>3. UNCHANGED <<registryKind, phase, list, bits, strays>> /\ made' = Reg!NotMade
  BY DEF Reg!LuaRegister
<1>4. Follows(book, book')
  <2>1. \A n \in Reg!Slots :
          /\ book'[n] \in Seq(Sound(registryKind))
          /\ registryKind = "creature" => SameHead(book[n], book'[n])
    BY <1>0, <1>1 DEF Registered, SameHead
  <2>2. book' \in Books(registryKind)
    BY <1>0, <1>2, <2>1 DEF Books
  <2> QED BY <2>1, <2>2 DEF Follows
<1>5. Reg!MadeEvent.type = made.type
  BY DEF Reg!MadeEvent, Reg!Event
<1>6. ASSUME NEW x \in Reg!Timers, NEW n \in Reg!Slots, FreshIn(book'[n], x)
      PROVE  FreshIn(book[n], x) \/ (book' # book /\ made.type = x)
  BY <1>1, <1>5, <1>6 DEF Registered
<1>7. /\ task' \in [Reg!Timers -> {"none", "waiting", "handed"}]
      /\ \A x \in Reg!Timers : task[x] # "none" => task'[x] = task[x]
      /\ registryKind # "global" => task' = task
      /\ registryKind = "global" /\ book' # book =>
           \A x \in Reg!Timers : made.type = x => task'[x] \in {"waiting", "handed"}
  BY <1>0 DEF Reg!LuaRegister, Reg!GlobalsOnly, Reg!Started
<1>8. TimersKept'
  <2>1. ASSUME NEW x \in Reg!Timers, NEW n \in Reg!Slots, FreshIn(book'[n], x)
        PROVE  Serves(x)'
    <3>1. registryKind = "global"
      BY <1>3, <1>4, <2>1, OnlyGlobals DEF Follows, Books
    <3>2. CASE FreshIn(book[n], x)
      <4>1. Serves(x)
        BY <3>2 DEF RegInv, TimersKept
      <4> QED BY <1>3, <1>7, <4>1 DEF Serves
    <3>3. CASE book' # book /\ made.type = x
      BY <1>7, <3>1, <3>3 DEF Serves
    <3> QED BY <1>6, <2>1, <3>2, <3>3
  <2>2. registryKind # "global" => \A x \in Reg!Timers : task'[x] = "none" /\ strays'[x] = 0
    BY <1>3, <1>7 DEF RegInv, TimersKept
  <2> QED BY <1>3, <1>7, <2>1, <2>2 DEF TimersKept
<1>9. RegTypes'
  BY <1>3, <1>4, <1>7, NotMadeOK DEF RegInv, RegTypes, Follows, Made
<1> QED BY <1>3, <1>4, <1>8, <1>9, ListStays DEF RegInv

(* Registering with a creature and unregistering from it.                  *)
LEMMA CreatureKeeps ==
  ASSUME RegInv, NEW n \in Keys, Reg!AddToCreature(n) \/ Reg!RemoveFromCreature(n)
  PROVE  RegInv'
<1>0. n \in Reg!Slots
  BY DEF Reg!Slots
<1>1. CASE Reg!AddToCreature(n)
  <2>1. ListKept'
    BY <1>0, <1>1 DEF RegInv, ListKept, Reg!AddToCreature
  <2> QED BY <1>1, <2>1 DEF RegInv, RegTypes, TimersKept, Serves, Made, Reg!AddToCreature
<1>2. CASE Reg!RemoveFromCreature(n)
  <2>1. ListKept'
    <3>1. list' = list \ {n} /\ book' = book /\ registryKind' = registryKind
      BY <1>2 DEF Reg!RemoveFromCreature
    <3>2. bits' = {book[m][1].type : m \in list'}
      <4>1. CASE \E m \in list' : book[m][1].type = book[n][1].type
        BY <1>2, <3>1, <4>1 DEF Reg!RemoveFromCreature, RegInv, ListKept
      <4>2. CASE ~\E m \in list' : book[m][1].type = book[n][1].type
        <5>1. bits' = bits \ {book[n][1].type}
          BY <1>2, <4>2 DEF Reg!RemoveFromCreature
        <5> QED BY <3>1, <4>2, <5>1 DEF RegInv, ListKept
      <4> QED BY <4>1, <4>2
    <3> QED BY <3>1, <3>2 DEF RegInv, ListKept
  <2> QED BY <1>2, <2>1 DEF RegInv, RegTypes, TimersKept, Serves, Made, Reg!RemoveFromCreature
<1> QED BY <1>1, <1>2

LEMMA HandOverKeeps ==
  ASSUME RegInv, NEW x \in Reg!Timers, Reg!HandOver(x)
  PROVE  RegInv'
<1>1. \A y \in Reg!Timers : Serves(y) => Serves(y)'
  BY DEF RegInv, RegTypes, Serves, Reg!HandOver
<1>2. TimersKept'
  BY <1>1 DEF RegInv, RegTypes, TimersKept, Reg!HandOver
<1> QED BY <1>2 DEF RegInv, RegTypes, ListKept, Made, Reg!HandOver

(* Running a timer can only take events out of the registry.               *)
LEMMA AmongFresh ==
  ASSUME NEW E, NEW s \in Seq(E), NEW S, NEW x, FreshIn(Reg!Among(s, S), x)
  PROVE  FreshIn(s, x)
<1> DEFINE T == {s[i] : i \in DOMAIN s}
<1>1. s \in Seq(T)
  OBVIOUS
<1>2. PICK r : r = Reg!Among(s, S)
  OBVIOUS
<1>3. r \in Seq(T \cap S)
  BY <1>1, <1>2, AmongOK
<1>4. PICK i \in DOMAIN r : r[i].type = x /\ r[i].fresh
  BY <1>2 DEF FreshIn
<1>5. r[i] \in T
  BY <1>3, <1>4, ElementOf
<1> QED BY <1>4, <1>5 DEF FreshIn

LEMMA RunOK ==
  ASSUME book \in Books(registryKind), NEW x, NEW failed,
         NEW b, b = Reg!AfterRun(x, failed)
  PROVE  /\ b \in Books(registryKind)
         /\ \A n \in Reg!Slots : \A y : FreshIn(b[n], y) => FreshIn(book[n], y)
<1>0. \A n \in Reg!Slots : book[n] \in Seq(Sound(registryKind))
  BY DEF Books
<1>1. CASE x = "timer"
  <2>1. b = Reg!AfterTimer(x, failed)
    BY <1>1 DEF Reg!AfterRun
  <2>2. ASSUME NEW n \in Reg!Slots
        PROVE  /\ b[n] \in Seq(Sound(registryKind))
               /\ \A y : FreshIn(b[n], y) => FreshIn(book[n], y)
    <3>1. CASE n \in failed
      <4>1. PICK S : S = {e \in Reg!ToSet(book[n]) : e.type # x}
        OBVIOUS
      <4>2. b[n] = Reg!Among(book[n], S)
        BY <2>1, <3>1, <4>1 DEF Reg!AfterTimer
      <4>3. Reg!Among(book[n], S) \in Seq(Sound(registryKind) \cap S)
        BY <1>0, AmongOK
      <4>4. Reg!Among(book[n], S) \in Seq(Sound(registryKind))
        BY <4>3, SeqGrows
      <4> QED BY <1>0, <4>2, <4>4, AmongFresh
    <3>2. CASE n \notin failed
      <4>1. b[n] = book[n]
        BY <2>1, <3>2 DEF Reg!AfterTimer
      <4> QED BY <1>0, <4>1
    <3> QED BY <3>1, <3>2
  <2>3. b = [n \in Reg!Slots |-> b[n]]
    BY <2>1 DEF Reg!AfterTimer
  <2> QED BY <2>2, <2>3 DEF Books
<1>2. CASE x # "timer"
  <2>1. b = book
    BY <1>2 DEF Reg!AfterRun, Reg!AfterThink
  <2> QED BY <2>1
<1> QED BY <1>1, <1>2

(* A timer is scheduled again while its map has an event left, also when   *)
(* the one that ran had been forgotten by stopEvent.                       *)
LEMMA RunKeeps ==
  ASSUME RegInv, NEW x \in Reg!Timers, NEW failed,
         Reg!RunTimer(x, failed) \/ Reg!RunStray(x, failed)
  PROVE  RegInv'
<1>1. /\ book \in Books(registryKind)
      /\ task \in [Reg!Timers -> {"none", "waiting", "handed", "spent"}]
      /\ strays \in [Reg!Timers -> Nat]
  BY DEF RegInv, RegTypes
<1>2. book' = Reg!AfterRun(x, failed)
  BY DEF Reg!RunTimer, Reg!RunStray
<1>3. /\ book' \in Books(registryKind)
      /\ \A n \in Reg!Slots : \A y : FreshIn(book'[n], y) => FreshIn(book[n], y)
  BY <1>1, <1>2, RunOK
<1>4. UNCHANGED <<registryKind, phase, made, list, bits>> /\ phase = "running"
  BY DEF Reg!RunTimer, Reg!RunStray
<1>5. registryKind = "global"
  BY <1>1 DEF RegInv, TimersKept, Reg!RunTimer, Reg!RunStray
<1>6. /\ task' \in [Reg!Timers -> {"none", "waiting", "handed", "spent"}]
      /\ strays' \in [Reg!Timers -> Nat]
      /\ \A y \in Reg!Timers \ {x} : task'[y] = task[y] /\ strays'[y] = strays[y]
      /\ Reg!InMap(book', x) => task'[x] = "waiting"
  BY <1>1 DEF Reg!RunTimer, Reg!RunStray
<1>7. ASSUME NEW y \in Reg!Timers, NEW n \in Reg!Slots, FreshIn(book'[n], y)
      PROVE  Serves(y)'
  <2>1. CASE y = x
    <3>1. Reg!InMap(book', x)
      BY <1>7, <2>1 DEF FreshIn, Reg!InMap
    <3> QED BY <1>6, <2>1, <3>1 DEF Serves
  <2>2. CASE y # x
    <3>1. Serves(y)
      BY <1>3, <1>7 DEF RegInv, TimersKept
    <3> QED BY <1>6, <2>2, <3>1 DEF Serves
  <2> QED BY <2>1, <2>2
<1>8. TimersKept'
  BY <1>4, <1>5, <1>7 DEF TimersKept
<1>9. RegTypes'
  BY <1>3, <1>4, <1>6 DEF RegInv, RegTypes, Made
<1>10. ListKept'
  BY <1>4, <1>5 DEF RegInv, ListKept
<1> QED BY <1>8, <1>9, <1>10 DEF RegInv

LEMMA RegStep ==
  ASSUME RegInv, Reg!Next
  PROVE  RegInv'
<1>1. CASE Reg!Load
  BY <1>1, StartupKeeps, ReloadXmlKeeps, ReloadAllKeeps DEF Reg!Load
<1>2. ASSUME NEW armed \in Reg!Armed, Reg!ReloadScripts(armed)
      PROVE  RegInv'
  BY <1>2, ReloadScriptsKeeps
<1>3. CASE Reg!Loaded
  BY <1>3, LoadedKeeps
<1>4. CASE Reg!LuaCreate \/ Reg!LuaSetKey \/ Reg!LuaSetType \/ Reg!LoadCallback
  BY <1>4, LuaKeeps
<1>5. CASE Reg!LuaRegister
  BY <1>5, RegisterKeeps
<1>6. ASSUME NEW n \in Keys, Reg!AddToCreature(n) \/ Reg!RemoveFromCreature(n)
      PROVE  RegInv'
  BY <1>6, CreatureKeeps
<1>7. ASSUME NEW x \in Reg!Timers, Reg!HandOver(x)
      PROVE  RegInv'
  BY <1>7, HandOverKeeps
<1>8. ASSUME NEW x \in Reg!Timers, NEW failed \in Reg!Failing(x),
             Reg!RunTimer(x, failed) \/ Reg!RunStray(x, failed)
      PROVE  RegInv'
  BY <1>8, RunKeeps
<1> QED
  BY <1>1, <1>2, <1>3, <1>4, <1>5, <1>6, <1>7, <1>8 DEF Reg!Next

LEMMA RegAgrees == RegInv => Reg!RegistriesAgree
<1> SUFFICES ASSUME RegInv PROVE Reg!RegistriesAgree
  OBVIOUS
<1>1. Reg!CallsLive
  <2>1. ASSUME NEW n \in Reg!Slots, NEW i \in DOMAIN book[n]
        PROVE  Answered(book[n][i])
    <3>1. book[n] \in Seq(Sound(registryKind))
      BY DEF RegInv, RegTypes, Books
    <3>2. book[n][i] \in Sound(registryKind)
      BY <3>1, ElementOf
    <3> QED BY <3>2 DEF Sound
  <2> QED BY <2>1 DEF Reg!CallsLive, Answered
<1>2. Reg!BitsAgree
  BY DEF RegInv, ListKept, Reg!BitsAgree
<1>3. Reg!FreshServed
  BY DEF RegInv, TimersKept, Serves, FreshIn, Reg!FreshServed
<1> QED BY <1>1, <1>2, <1>3 DEF Reg!RegistriesAgree

(* Through every order of loading, reloading and registering, in any of    *)
(* the seven registries: a loaded event calls its own callback, the bits   *)
(* by which a creature skips event types are those of the events it points *)
(* to, and an interval or timed event that was registered since the last   *)
(* clear has a task that will run it (Game::reload, clear(), reInitState,  *)
(* the register functions, Creature::registerCreatureEvent and             *)
(* GlobalEvents::think and timer).                                         *)
THEOREM RegistriesStayInStep == AnySpec => []RegistriesAgree
<1> DEFINE Kept == part = "registries" => RegInv
<1>1. AnyInit => Kept
  BY RegInit DEF AnyInit
<1>2. Kept /\ [AnyNext]_<<vars, part, partiesVars, chatVars, scriptsVars, registriesVars>> => Kept'
  <2> SUFFICES ASSUME Kept, part' = "registries",
                      [AnyNext]_<<vars, part, partiesVars, chatVars, scriptsVars, registriesVars>>
               PROVE  RegInv'
    OBVIOUS
  <2>1. CASE Reg!Next /\ part = "registries"
    BY <2>1, RegStep
  <2>2. CASE UNCHANGED <<part, registriesVars>>
    <3>1. RegInv
      BY <2>2
    <3>2. UNCHANGED <<registryKind, phase, book, made, list, bits, task, strays>>
      BY <2>2 DEF registriesVars
    <3> QED BY <3>1, <3>2 DEF RegInv, RegTypes, ListKept, TimersKept, Serves, Made
  <2> QED BY <2>1, <2>2 DEF AnyNext
<1>3. Kept => RegistriesAgree
  BY RegAgrees DEF RegistriesAgree
<1> QED
  BY <1>1, <1>2, <1>3, PTL DEF AnySpec

-----------------------------------------------------------------------------
(* Parties: lists of players.                                              *)

OnceEach(s) == \A i, j \in DOMAIN s : s[i] = s[j] => i = j

LEMMA PlayerErased ==
  ASSUME NEW S, NEW s \in Seq(S), OnceEach(s), NEW p
  PROVE  /\ Group!Erased(s, p) \in Seq(S)
         /\ OnceEach(Group!Erased(s, p))
         /\ Group!Range(Group!Erased(s, p)) = Group!Range(s) \ {p}
<1>1. CASE p \notin Group!Range(s)
  BY <1>1 DEF Group!Erased
<1>2. CASE p \in Group!Range(s)
  <2>1. PICK r : r = Group!Erased(s, p)
    OBVIOUS
  <2>2. PICK n \in Nat : n = Len(s) /\ DOMAIN s = 1 .. n
    OBVIOUS
  <2>3. PICK i \in 1 .. n : i = CHOOSE j \in DOMAIN s : s[j] = p
    BY <1>2, <2>2 DEF Group!Range
  <2>4. s[i] = p
    BY <1>2, <2>2, <2>3 DEF Group!Range
  <2>5. r = [j \in 1 .. n - 1 |-> s[IF j < i THEN j ELSE j + 1]]
    BY <1>2, <2>1, <2>2, <2>3 DEF Group!Erased
  <2>6. \A j \in 1 .. n - 1 : r[j] = s[IF j < i THEN j ELSE j + 1] /\ r[j] \in S
    BY <2>2, <2>5
  <2>7. n - 1 \in Nat /\ DOMAIN r = 1 .. n - 1
    BY <2>2, <2>5
  <2>8. r \in Seq(S)
    BY <2>5, <2>6, <2>7
  <2>9. OnceEach(r)
    <3> SUFFICES ASSUME NEW a \in 1 .. n - 1, NEW b \in 1 .. n - 1, r[a] = r[b]
                 PROVE  a = b
      BY <2>7 DEF OnceEach
    <3>1. PICK c, d : /\ c = (IF a < i THEN a ELSE a + 1)
                      /\ d = (IF b < i THEN b ELSE b + 1)
      OBVIOUS
    <3>2. c \in 1 .. n /\ d \in 1 .. n /\ s[c] = s[d]
      BY <2>2, <2>6, <3>1
    <3>3. c = d
      BY <2>2, <3>2 DEF OnceEach
    <3> QED BY <2>2, <3>1, <3>3
  <2>10. Group!Range(r) \subseteq Group!Range(s) \ {p}
    <3> SUFFICES ASSUME NEW j \in 1 .. n - 1
                 PROVE  r[j] \in Group!Range(s) /\ r[j] # p
      BY <2>7 DEF Group!Range
    <3>1. PICK k \in 1 .. n : k # i /\ r[j] = s[k]
      BY <2>2, <2>6
    <3> QED BY <2>2, <2>4, <3>1 DEF OnceEach, Group!Range
  <2>11. Group!Range(s) \ {p} \subseteq Group!Range(r)
    <3> SUFFICES ASSUME NEW k \in 1 .. n, s[k] # p
                 PROVE  s[k] \in Group!Range(r)
      BY <2>2 DEF Group!Range
    <3>1. k # i
      BY <2>4
    <3>2. CASE k < i
      <4>1. k \in 1 .. n - 1 /\ r[k] = s[k]
        BY <2>2, <2>6, <3>2
      <4> QED BY <2>7, <4>1 DEF Group!Range
    <3>3. CASE k > i
      <4>1. k - 1 \in 1 .. n - 1 /\ r[k - 1] = s[k]
        BY <2>2, <2>6, <3>3
      <4> QED BY <2>7, <4>1 DEF Group!Range
    <3> QED BY <2>2, <3>1, <3>2, <3>3
  <2> QED BY <2>1, <2>8, <2>9, <2>10, <2>11
<1> QED BY <1>1, <1>2

LEMMA PlayerInFront ==
  ASSUME NEW S, NEW s \in Seq(S), NEW x \in S
  PROVE  LET r == <<x>> \o s
         IN  /\ r \in Seq(S)
             /\ Group!Range(r) = {x} \cup Group!Range(s)
             /\ OnceEach(r) <=> OnceEach(s) /\ x \notin Group!Range(s)
<1>1. PICK n \in Nat : n = Len(s) /\ DOMAIN s = 1 .. n
  OBVIOUS
<1>2. PICK r : r = <<x>> \o s
  OBVIOUS
<1>3. /\ r \in Seq(S) /\ DOMAIN r = 1 .. n + 1
      /\ r[1] = x /\ \A i \in 1 .. n : r[i + 1] = s[i]
  BY <1>1, <1>2
<1>4. \A k \in 2 .. n + 1 : k - 1 \in 1 .. n /\ r[k] = s[k - 1]
  <2> TAKE k \in 2 .. n + 1
  <2>1. k - 1 \in 1 .. n
    BY <1>1
  <2>2. r[(k - 1) + 1] = s[k - 1]
    BY <1>3, <2>1
  <2> QED BY <2>1, <2>2
<1>5. Group!Range(r) = {x} \cup Group!Range(s)
  <2>1. 1 \in 1 .. n + 1 /\ \A i \in 1 .. n : i + 1 \in 1 .. n + 1
    BY <1>1
  <2>2. \A k \in 1 .. n + 1 : k = 1 \/ k \in 2 .. n + 1
    BY <1>1
  <2>3. ASSUME NEW y \in Group!Range(r)
        PROVE  y \in {x} \cup Group!Range(s)
    <3>1. PICK k \in 1 .. n + 1 : r[k] = y
      BY <1>3 DEF Group!Range
    <3>2. CASE k = 1
      BY <1>3, <3>1, <3>2
    <3>3. CASE k \in 2 .. n + 1
      <4>1. k - 1 \in DOMAIN s /\ y = s[k - 1]
        BY <1>1, <1>4, <3>1, <3>3
      <4> QED BY <4>1 DEF Group!Range
    <3> QED BY <2>2, <3>1, <3>2, <3>3
  <2>4. \A y \in {x} \cup Group!Range(s) : y \in Group!Range(r)
    BY <1>1, <1>3, <2>1 DEF Group!Range
  <2> QED BY <2>3, <2>4
<1>6. ASSUME OnceEach(r)
      PROVE  OnceEach(s) /\ x \notin Group!Range(s)
  <2>1. ASSUME NEW i \in 1 .. n
        PROVE  i + 1 \in DOMAIN r /\ i + 1 # 1 /\ r[i + 1] = s[i]
    BY <1>1, <1>3
  <2>2. 1 \in DOMAIN r
    BY <1>1, <1>3
  <2>3. ASSUME NEW i \in 1 .. n, NEW j \in 1 .. n, s[i] = s[j]
        PROVE  i = j
    <3>1. r[i + 1] = r[j + 1]
      BY <2>1, <2>3
    <3>2. i + 1 = j + 1
      BY <1>6, <2>1, <3>1 DEF OnceEach
    <3> QED BY <1>1, <3>2
  <2>4. ASSUME NEW i \in 1 .. n, s[i] = x
        PROVE  FALSE
    <3>1. r[i + 1] = r[1]
      BY <1>3, <2>1, <2>4
    <3> QED BY <1>6, <2>1, <2>2, <3>1 DEF OnceEach
  <2> QED BY <1>1, <2>3, <2>4 DEF OnceEach, Group!Range
<1>7. ASSUME OnceEach(s), x \notin Group!Range(s)
      PROVE  OnceEach(r)
  <2> SUFFICES ASSUME NEW i \in 1 .. n + 1, NEW j \in 1 .. n + 1, r[i] = r[j]
               PROVE  i = j
    BY <1>3 DEF OnceEach
  <2>1. CASE i = 1 /\ j = 1
    BY <2>1
  <2>2. CASE i = 1 /\ j \in 2 .. n + 1
    BY <1>1, <1>3, <1>4, <1>7, <2>2 DEF Group!Range
  <2>3. CASE j = 1 /\ i \in 2 .. n + 1
    BY <1>1, <1>3, <1>4, <1>7, <2>3 DEF Group!Range
  <2>4. CASE i \in 2 .. n + 1 /\ j \in 2 .. n + 1
    <3>1. s[i - 1] = s[j - 1] /\ i - 1 \in 1 .. n /\ j - 1 \in 1 .. n
      BY <1>4, <2>4
    <3>2. i - 1 = j - 1
      BY <1>1, <1>7, <3>1 DEF OnceEach
    <3> QED BY <3>2
  <2> QED BY <1>1, <2>1, <2>2, <2>3, <2>4
<1> QED BY <1>2, <1>3, <1>5, <1>6, <1>7

LEMMA PlayerBehind ==
  ASSUME NEW S, NEW s \in Seq(S), NEW x \in S, OnceEach(s), x \notin Group!Range(s)
  PROVE  LET r == Append(s, x)
         IN  /\ r \in Seq(S) /\ OnceEach(r)
             /\ Group!Range(r) = {x} \cup Group!Range(s)
<1>1. PICK n \in Nat : n = Len(s) /\ DOMAIN s = 1 .. n
  OBVIOUS
<1>2. PICK r : r = Append(s, x)
  OBVIOUS
<1>3. /\ r \in Seq(S) /\ DOMAIN r = 1 .. n + 1
      /\ r[n + 1] = x /\ \A i \in 1 .. n : r[i] = s[i]
  BY <1>1, <1>2
<1>4. \A i \in 1 .. n + 1 : i \in 1 .. n \/ i = n + 1
  BY <1>1
<1>5. n + 1 \in 1 .. n + 1 /\ \A i \in 1 .. n : i \in 1 .. n + 1
  BY <1>1
<1>6. OnceEach(r)
  BY <1>1, <1>3, <1>4 DEF OnceEach, Group!Range
<1>7. Group!Range(r) = {x} \cup Group!Range(s)
  BY <1>1, <1>3, <1>4, <1>5 DEF Group!Range
<1> QED BY <1>2, <1>3, <1>6, <1>7

-----------------------------------------------------------------------------
(* One party.                                                              *)

Ticks == UNION {[D -> {"recent", "old"}] : D \in SUBSET Friends}

PartyRecord ==
  [leader : Friends, members : Seq(Friends), invites : SUBSET Friends, ticks : Ticks,
   active : BOOLEAN, enabled : BOOLEAN]

(* The leader is not among the members, and nobody is among them twice.    *)
Distinct(q) == OnceEach(q.members) /\ q.leader \notin Group!Range(q.members)

(* SharedFresh, of one party.                                              *)
Fresh(q, spots) ==
  q.active =>
    /\ Group!CanEnableSharedExperience(q, spots) => q.enabled
    /\ q.enabled => \A p \in Group!Company(q) :
                      spots[p] = spots[q.leader] /\ p \in DOMAIN q.ticks

(* q and r are of the same people.                                         *)
SamePeople(q, r) ==
  r.leader = q.leader /\ r.members = q.members /\ r.invites = q.invites

LEMMA TicksKept ==
  ASSUME NEW t \in Ticks, NEW p \in Friends
  PROVE  /\ Group!With(t, p, "recent") \in Ticks
         /\ [r \in DOMAIN t \ {p} |-> t[r]] \in Ticks
         /\ [t EXCEPT ![p] = "old"] \in Ticks
<1>1. PICK D \in SUBSET Friends : t \in [D -> {"recent", "old"}]
  BY DEF Ticks
<1>2. Group!With(t, p, "recent") \in [D \cup {p} -> {"recent", "old"}]
  BY <1>1 DEF Group!With
<1>3. [r \in DOMAIN t \ {p} |-> t[r]] \in [D \ {p} -> {"recent", "old"}]
  BY <1>1
<1>4. [t EXCEPT ![p] = "old"] \in [D -> {"recent", "old"}]
  BY <1>1
<1>5. D \cup {p} \in SUBSET Friends /\ D \ {p} \in SUBSET Friends
  OBVIOUS
<1> QED BY <1>2, <1>3, <1>4, <1>5 DEF Ticks

(* Whether sharing can be in force does not depend on the stored flags.    *)
LEMMA FlagsIgnored ==
  ASSUME NEW q, NEW r, NEW spots,
         r.leader = q.leader, r.members = q.members, r.ticks = q.ticks
  PROVE  /\ Group!Company(r) = Group!Company(q)
         /\ Group!CanEnableSharedExperience(r, spots)
              <=> Group!CanEnableSharedExperience(q, spots)
BY DEF Group!Company, Group!CanEnableSharedExperience, Group!CanUseSharedExperience

LEMMA CanEnableMeans ==
  ASSUME NEW q, NEW spots, Group!CanEnableSharedExperience(q, spots)
  PROVE  \A p \in Group!Company(q) : spots[p] = spots[q.leader] /\ p \in DOMAIN q.ticks
BY DEF Group!CanEnableSharedExperience, Group!CanUseSharedExperience

(* updateSharedExperience leaves the flag right, whatever it was.          *)
LEMMA Updated ==
  ASSUME NEW q \in PartyRecord, NEW spots, NEW r,
         r = Group!UpdateSharedExperience(q, spots)
  PROVE  r \in PartyRecord /\ SamePeople(q, r) /\ Fresh(r, spots)
<1>1. CASE q.active
  <2>1. PICK on : on = Group!CanEnableSharedExperience(q, spots)
    OBVIOUS
  <2>2. on \in BOOLEAN
    BY <2>1 DEF Group!CanEnableSharedExperience
  <2>3. r = [q EXCEPT !.enabled = on]
    BY <1>1, <2>1 DEF Group!UpdateSharedExperience
  <2>4. r \in PartyRecord /\ SamePeople(q, r) /\ r.ticks = q.ticks /\ r.enabled = on
    BY <2>2, <2>3 DEF PartyRecord, SamePeople
  <2>5. on => \A p \in Group!Company(q) : spots[p] = spots[q.leader] /\ p \in DOMAIN q.ticks
    BY <2>1, CanEnableMeans
  <2> QED BY <2>1, <2>4, <2>5, FlagsIgnored DEF Fresh, SamePeople
<1>2. CASE ~q.active
  BY <1>2 DEF Group!UpdateSharedExperience, SamePeople, Fresh
<1> QED BY <1>1, <1>2

LEMMA SharingSet ==
  ASSUME NEW q \in PartyRecord, Fresh(q, place), NEW on \in BOOLEAN, NEW r,
         r = Group!SetSharedExperience(q, on)
  PROVE  r \in PartyRecord /\ SamePeople(q, r) /\ Fresh(r, place)
<1>1. PICK b : b = IF on /\ ~q.active THEN Group!CanEnableSharedExperience(q, place)
                   ELSE q.enabled
  OBVIOUS
<1>2. b \in BOOLEAN
  BY <1>1 DEF Group!CanEnableSharedExperience, PartyRecord
<1>3. r = [q EXCEPT !.active = on, !.enabled = b]
  BY <1>1 DEF Group!SetSharedExperience
<1>4. r \in PartyRecord /\ SamePeople(q, r) /\ r.ticks = q.ticks /\ r.active = on
      /\ r.enabled = b
  BY <1>2, <1>3 DEF PartyRecord, SamePeople
<1>5. CASE on /\ ~q.active
  BY <1>1, <1>4, <1>5, CanEnableMeans, FlagsIgnored DEF Fresh, SamePeople
<1>6. CASE ~on \/ q.active
  BY <1>1, <1>4, <1>6, FlagsIgnored DEF Fresh, SamePeople
<1> QED BY <1>5, <1>6

LEMMA TicksUpdated ==
  ASSUME NEW q \in PartyRecord, NEW p \in Friends, NEW r,
         r = Group!UpdatePlayerTicks(q, p)
  PROVE  r \in PartyRecord /\ SamePeople(q, r) /\ Fresh(r, place)
<1>1. PICK t : t = Group!With(q.ticks, p, "recent")
  OBVIOUS
<1>2. t \in Ticks
  BY <1>1, TicksKept DEF PartyRecord
<1>3. PICK m : m = [q EXCEPT !.ticks = t]
  OBVIOUS
<1>4. m \in PartyRecord /\ SamePeople(q, m)
  BY <1>2, <1>3 DEF PartyRecord, SamePeople
<1>5. r = Group!UpdateSharedExperience(m, place)
  BY <1>1, <1>3 DEF Group!UpdatePlayerTicks
<1> QED BY <1>4, <1>5, Updated DEF SamePeople

LEMMA PointsCleared ==
  ASSUME NEW q \in PartyRecord, Fresh(q, place), NEW p \in Friends, NEW r,
         r = Group!ClearPlayerPoints(q, p)
  PROVE  r \in PartyRecord /\ SamePeople(q, r) /\ Fresh(r, place)
<1>1. CASE p \in DOMAIN q.ticks
  <2>1. PICK t : t = [x \in DOMAIN q.ticks \ {p} |-> q.ticks[x]]
    OBVIOUS
  <2>2. t \in Ticks
    BY <2>1, TicksKept DEF PartyRecord
  <2>3. PICK m : m = [q EXCEPT !.ticks = t]
    OBVIOUS
  <2>4. m \in PartyRecord /\ SamePeople(q, m)
    BY <2>2, <2>3 DEF PartyRecord, SamePeople
  <2>5. r = Group!UpdateSharedExperience(m, place)
    BY <1>1, <2>1, <2>3 DEF Group!ClearPlayerPoints
  <2> QED BY <2>4, <2>5, Updated DEF SamePeople
<1>2. CASE p \notin DOMAIN q.ticks
  BY <1>2 DEF Group!ClearPlayerPoints, SamePeople
<1> QED BY <1>1, <1>2

(* Sharing fades: an action that has grown old changes nothing at once.    *)
LEMMA TickForgotten ==
  ASSUME NEW q \in PartyRecord, Fresh(q, place), NEW p \in Friends, NEW r,
         r = [q EXCEPT !.ticks[p] = "old"]
  PROVE  r \in PartyRecord /\ SamePeople(q, r) /\ Fresh(r, place)
<1>1. PICK t : t = [q.ticks EXCEPT ![p] = "old"]
  OBVIOUS
<1>2. t \in Ticks /\ DOMAIN t = DOMAIN q.ticks
  BY <1>1, TicksKept DEF PartyRecord
<1>3. \A x \in DOMAIN q.ticks : t[x] = "recent" => q.ticks[x] = "recent"
  BY <1>1
<1>4. r = [q EXCEPT !.ticks = t]
  BY <1>1
<1>5. r \in PartyRecord /\ SamePeople(q, r) /\ r.ticks = t /\ r.active = q.active
      /\ r.enabled = q.enabled
  BY <1>2, <1>4 DEF PartyRecord, SamePeople
<1>6. Group!Company(r) = Group!Company(q)
  BY <1>5 DEF Group!Company, SamePeople
<1>7. Group!CanEnableSharedExperience(r, place) => Group!CanEnableSharedExperience(q, place)
  BY <1>2, <1>3, <1>5, <1>6
     DEF Group!CanEnableSharedExperience, Group!CanUseSharedExperience, SamePeople
<1> QED BY <1>2, <1>5, <1>6, <1>7 DEF Fresh, SamePeople

LEMMA LeadershipPassed ==
  ASSUME NEW q \in PartyRecord, Distinct(q), NEW p \in Group!Range(q.members), NEW r,
         r = Group!PassPartyLeadership(q, p)
  PROVE  /\ r \in PartyRecord /\ Distinct(r) /\ Fresh(r, place)
         /\ r.leader = p /\ r.invites = q.invites
         /\ Group!Company(r) = Group!Company(q)
<1>0. p \in Friends /\ p # q.leader
  BY DEF Group!Range, PartyRecord, Distinct
<1>1. PICK rest : rest = Group!Erased(q.members, p)
  OBVIOUS
<1>2. rest \in Seq(Friends) /\ OnceEach(rest)
      /\ Group!Range(rest) = Group!Range(q.members) \ {p}
  BY <1>1, PlayerErased DEF PartyRecord, Distinct
<1>3. PICK s : s = <<q.leader>> \o rest
  OBVIOUS
<1>4. s \in Seq(Friends) /\ OnceEach(s)
      /\ Group!Range(s) = {q.leader} \cup (Group!Range(q.members) \ {p})
  BY <1>2, <1>3, PlayerInFront DEF PartyRecord, Distinct
<1>5. PICK m : m = [q EXCEPT !.leader = p, !.members = s]
  OBVIOUS
<1>6. m \in PartyRecord /\ m.leader = p /\ m.members = s /\ m.invites = q.invites
  BY <1>0, <1>4, <1>5 DEF PartyRecord
<1>7. r = Group!UpdateSharedExperience(m, place)
  BY <1>1, <1>3, <1>5 DEF Group!PassPartyLeadership
<1>8. r \in PartyRecord /\ SamePeople(m, r) /\ Fresh(r, place)
  BY <1>6, <1>7, Updated
<1>9. r.leader = p /\ r.members = s /\ r.invites = q.invites
  BY <1>6, <1>8 DEF SamePeople
<1> QED BY <1>0, <1>4, <1>8, <1>9 DEF Distinct, Group!Company

LEMMA MemberJoined ==
  ASSUME NEW q \in PartyRecord, Distinct(q), NEW p \in Friends,
         p \notin Group!Company(q), NEW r,
         r = Group!UpdateSharedExperience(
               [q EXCEPT !.invites = @ \ {p}, !.members = Append(@, p)], place)
  PROVE  /\ r \in PartyRecord /\ Distinct(r) /\ Fresh(r, place)
         /\ r.invites = q.invites \ {p}
         /\ r.members # <<>>
         /\ Group!Company(r) = Group!Company(q) \cup {p}
<1>1. PICK s : s = Append(q.members, p)
  OBVIOUS
<1>2. s \in Seq(Friends) /\ OnceEach(s) /\ Group!Range(s) = {p} \cup Group!Range(q.members)
  BY <1>1, PlayerBehind DEF PartyRecord, Distinct, Group!Company
<1>3. PICK m : m = [q EXCEPT !.invites = @ \ {p}, !.members = s]
  OBVIOUS
<1>4. m \in PartyRecord /\ m.leader = q.leader /\ m.members = s
      /\ m.invites = q.invites \ {p}
  BY <1>2, <1>3 DEF PartyRecord
<1>5. r = Group!UpdateSharedExperience(m, place)
  BY <1>1, <1>3
<1>6. r \in PartyRecord /\ SamePeople(m, r) /\ Fresh(r, place)
  BY <1>4, <1>5, Updated
<1>7. r.leader = q.leader /\ r.members = s /\ r.invites = q.invites \ {p}
  BY <1>4, <1>6 DEF SamePeople
<1>8. s # <<>>
  BY <1>2 DEF Group!Range
<1> QED BY <1>2, <1>6, <1>7, <1>8 DEF Distinct, Group!Company

(* Guests do not share.                                                    *)
LEMMA GuestsChanged ==
  ASSUME NEW q \in PartyRecord, NEW guests \in SUBSET Friends, NEW r,
         r = [q EXCEPT !.invites = guests]
  PROVE  /\ r \in PartyRecord /\ r.invites = guests
         /\ r.leader = q.leader /\ r.members = q.members
         /\ Group!Company(r) = Group!Company(q)
         /\ Distinct(q) => Distinct(r)
         /\ \A spots : Fresh(q, spots) => Fresh(r, spots)
<1>1. /\ r \in PartyRecord /\ r.invites = guests
      /\ r.leader = q.leader /\ r.members = q.members /\ r.ticks = q.ticks
      /\ r.active = q.active /\ r.enabled = q.enabled
  BY DEF PartyRecord
<1> QED BY <1>1, FlagsIgnored DEF Distinct, Fresh

-----------------------------------------------------------------------------
(* The parties, and the players who point to them.                         *)

(* MembersAgree, of the parties pa, the pointers of and the invitations to,*)
(* when those in `who' are in the game; with the types.                    *)
Links(pa, of, to, who) ==
  /\ who \subseteq Friends
  /\ DOMAIN pa \subseteq Addresses
  /\ pa \in [DOMAIN pa -> PartyRecord]
  /\ of \in [Friends -> Addresses \cup {NoParty}]
  /\ to \in [Friends -> SUBSET Addresses]
  /\ \A p \in Friends : of[p] # NoParty => of[p] \in DOMAIN pa
  /\ \A p \in Friends : to[p] \subseteq DOMAIN pa
  /\ \A a \in DOMAIN pa :
       /\ Distinct(pa[a])
       /\ ~Group!Empty(pa[a])
       /\ pa[a].invites \cap Group!Company(pa[a]) = {}
       /\ Group!Company(pa[a]) \cup pa[a].invites \subseteq who
       /\ Group!Company(pa[a]) = {p \in Friends : of[p] = a}
       /\ pa[a].invites = {p \in Friends : a \in to[p]}

AllFresh(pa, spots) == \A a \in DOMAIN pa : Fresh(pa[a], spots)

(* One party is replaced by r, or founded as r, with those who point to it.*)
Changed(pa, of, to, who, a, r, pa2, of2, to2) ==
  /\ a \in Addresses
  /\ r \in PartyRecord
  /\ Distinct(r)
  /\ ~Group!Empty(r)
  /\ r.invites \cap Group!Company(r) = {}
  /\ Group!Company(r) \cup r.invites \subseteq who
  /\ pa2 = [b \in DOMAIN pa \cup {a} |-> IF b = a THEN r ELSE pa[b]]
  /\ of2 \in [Friends -> Addresses \cup {NoParty}]
  /\ to2 \in [Friends -> SUBSET Addresses]
  /\ Group!Company(r) = {p \in Friends : of2[p] = a}
  /\ \A p \in Friends : of2[p] # of[p] => {of[p], of2[p]} \subseteq {a, NoParty}
  /\ r.invites = {p \in Friends : a \in to2[p]}
  /\ \A p \in Friends : \A b \in Addresses \ {a} : b \in to2[p] <=> b \in to[p]

LEMMA OneChanged ==
  ASSUME NEW pa, NEW of, NEW to, NEW who, Links(pa, of, to, who),
         NEW a, NEW r, NEW pa2, NEW of2, NEW to2,
         Changed(pa, of, to, who, a, r, pa2, of2, to2)
  PROVE  Links(pa2, of2, to2, who)
<1> USE DEF Changed
<1>1. NoParty \notin Addresses
  BY PartiesAssumption
<1>2. DOMAIN pa2 = DOMAIN pa \cup {a} /\ DOMAIN pa2 \subseteq Addresses
      /\ pa2 \in [DOMAIN pa2 -> PartyRecord]
      /\ pa2[a] = r /\ \A b \in DOMAIN pa \ {a} : pa2[b] = pa[b]
  BY DEF Links
<1>3. \A p \in Friends : of2[p] # NoParty => of2[p] \in DOMAIN pa2
  BY <1>2 DEF Links
<1>4. \A p \in Friends : to2[p] \subseteq DOMAIN pa2
  BY <1>2 DEF Links
<1>5. ASSUME NEW b \in DOMAIN pa, b # a
      PROVE  /\ {p \in Friends : of2[p] = b} = {p \in Friends : of[p] = b}
             /\ {p \in Friends : b \in to2[p]} = {p \in Friends : b \in to[p]}
  <2>1. b \in Addresses /\ b # NoParty
    BY <1>1 DEF Links
  <2>2. \A p \in Friends : of2[p] = b <=> of[p] = b
    BY <1>5, <2>1
  <2>3. \A p \in Friends : b \in to2[p] <=> b \in to[p]
    BY <1>5, <2>1
  <2> QED BY <2>2, <2>3
<1>6. ASSUME NEW b \in DOMAIN pa2
      PROVE  /\ Distinct(pa2[b])
             /\ ~Group!Empty(pa2[b])
             /\ pa2[b].invites \cap Group!Company(pa2[b]) = {}
             /\ Group!Company(pa2[b]) \cup pa2[b].invites \subseteq who
             /\ Group!Company(pa2[b]) = {p \in Friends : of2[p] = b}
             /\ pa2[b].invites = {p \in Friends : b \in to2[p]}
  <2>1. CASE b = a
    BY <1>2, <2>1
  <2>2. CASE b # a
    <3>1. b \in DOMAIN pa /\ pa2[b] = pa[b]
      BY <1>2, <2>2
    <3>2. /\ Distinct(pa[b])
          /\ ~Group!Empty(pa[b])
          /\ pa[b].invites \cap Group!Company(pa[b]) = {}
          /\ Group!Company(pa[b]) \cup pa[b].invites \subseteq who
          /\ Group!Company(pa[b]) = {p \in Friends : of[p] = b}
          /\ pa[b].invites = {p \in Friends : b \in to[p]}
      BY <3>1 DEF Links
    <3> QED BY <1>5, <2>2, <3>1, <3>2
  <2> QED BY <2>1, <2>2
<1>7. who \subseteq Friends
  BY DEF Links
<1> QED BY <1>2, <1>3, <1>4, <1>6, <1>7 DEF Links

(* One party ends; whoever pointed to it points to none.                   *)
LEMMA OneEnded ==
  ASSUME NEW pa, NEW of, NEW to, NEW who, Links(pa, of, to, who),
         NEW a, NEW pa2, NEW of2, NEW to2,
         pa2 = [b \in DOMAIN pa \ {a} |-> pa[b]],
         of2 \in [Friends -> Addresses \cup {NoParty}],
         to2 \in [Friends -> SUBSET Addresses],
         \A p \in Friends : of2[p] = IF of[p] = a THEN NoParty ELSE of[p],
         \A p \in Friends : to2[p] = to[p] \ {a}
  PROVE  Links(pa2, of2, to2, who)
<1>1. NoParty \notin Addresses
  BY PartiesAssumption
<1>2. DOMAIN pa2 = DOMAIN pa \ {a} /\ DOMAIN pa2 \subseteq Addresses
      /\ pa2 \in [DOMAIN pa2 -> PartyRecord]
      /\ \A b \in DOMAIN pa2 : pa2[b] = pa[b]
  BY DEF Links
<1>3. \A p \in Friends : of2[p] # NoParty => of2[p] \in DOMAIN pa2
  BY <1>2 DEF Links
<1>4. \A p \in Friends : to2[p] \subseteq DOMAIN pa2
  BY <1>2 DEF Links
<1>5. ASSUME NEW b \in DOMAIN pa2
      PROVE  /\ {p \in Friends : of2[p] = b} = {p \in Friends : of[p] = b}
             /\ {p \in Friends : b \in to2[p]} = {p \in Friends : b \in to[p]}
  <2>1. b \in Addresses /\ b # NoParty /\ b # a
    BY <1>1, <1>2
  <2>2. \A p \in Friends : of2[p] = b <=> of[p] = b
    BY <2>1
  <2>3. \A p \in Friends : b \in to2[p] <=> b \in to[p]
    BY <2>1
  <2> QED BY <2>2, <2>3
<1>6. ASSUME NEW b \in DOMAIN pa2
      PROVE  /\ Distinct(pa2[b])
             /\ ~Group!Empty(pa2[b])
             /\ pa2[b].invites \cap Group!Company(pa2[b]) = {}
             /\ Group!Company(pa2[b]) \cup pa2[b].invites \subseteq who
             /\ Group!Company(pa2[b]) = {p \in Friends : of2[p] = b}
             /\ pa2[b].invites = {p \in Friends : b \in to2[p]}
  <2>1. b \in DOMAIN pa /\ pa2[b] = pa[b]
    BY <1>2
  <2>2. /\ Distinct(pa[b])
        /\ ~Group!Empty(pa[b])
        /\ pa[b].invites \cap Group!Company(pa[b]) = {}
        /\ Group!Company(pa[b]) \cup pa[b].invites \subseteq who
        /\ Group!Company(pa[b]) = {p \in Friends : of[p] = b}
        /\ pa[b].invites = {p \in Friends : b \in to[p]}
    BY <2>1 DEF Links
  <2> QED BY <1>5, <2>1, <2>2
<1>7. who \subseteq Friends
  BY DEF Links
<1> QED BY <1>2, <1>3, <1>4, <1>6, <1>7 DEF Links

(* A party changes what its people share, and not who they are.            *)
LEMMA PeopleKept ==
  ASSUME NEW pa, NEW of, NEW to, NEW who, Links(pa, of, to, who),
         NEW a \in DOMAIN pa, NEW r \in PartyRecord,
         SamePeople(pa[a], r), NEW pa2, pa2 = [pa EXCEPT ![a] = r]
  PROVE  Links(pa2, of, to, who)
<1>2. a \in Addresses /\ of \in [Friends -> Addresses \cup {NoParty}]
      /\ to \in [Friends -> SUBSET Addresses]
  BY DEF Links
<1>3. pa2 = [b \in DOMAIN pa \cup {a} |-> IF b = a THEN r ELSE pa[b]]
  <2>1. DOMAIN pa \cup {a} = DOMAIN pa
    OBVIOUS
  <2> QED BY <2>1 DEF Links
<1>4. Group!Company(r) = Group!Company(pa[a]) /\ r.invites = pa[a].invites
      /\ (Distinct(pa[a]) => Distinct(r)) /\ (Group!Empty(r) => Group!Empty(pa[a]))
  BY DEF SamePeople, Group!Company, Distinct, Group!Empty
<1>5. /\ Distinct(pa[a]) /\ ~Group!Empty(pa[a])
      /\ pa[a].invites \cap Group!Company(pa[a]) = {}
      /\ Group!Company(pa[a]) \cup pa[a].invites \subseteq who
      /\ Group!Company(pa[a]) = {p \in Friends : of[p] = a}
      /\ pa[a].invites = {p \in Friends : a \in to[p]}
  BY DEF Links
<1>6. Changed(pa, of, to, who, a, r, pa2, of, to)
  BY <1>2, <1>3, <1>4, <1>5 DEF Changed
<1> QED BY <1>6, OneChanged

LEMMA PartyTouched ==
  ASSUME NEW pa, NEW of, NEW to, NEW who, NEW spots, Links(pa, of, to, who),
         AllFresh(pa, spots), NEW a \in DOMAIN pa, NEW r \in PartyRecord,
         SamePeople(pa[a], r), Fresh(r, spots), NEW pa2, pa2 = [pa EXCEPT ![a] = r]
  PROVE  Links(pa2, of, to, who) /\ AllFresh(pa2, spots)
<1>1. DOMAIN pa2 = DOMAIN pa /\ pa2[a] = r /\ \A b \in DOMAIN pa \ {a} : pa2[b] = pa[b]
  BY DEF Links
<1>2. AllFresh(pa2, spots)
  BY <1>1 DEF AllFresh
<1> QED BY <1>2, PeopleKept

(* What a party shares depends on where its own people are.                *)
LEMMA FreshElsewhere ==
  ASSUME NEW q, NEW w1, NEW w2, Fresh(q, w1),
         \A p \in Group!Company(q) : w2[p] = w1[p]
  PROVE  Fresh(q, w2)
<1>1. q.leader \in Group!Company(q)
  BY DEF Group!Company
<1>2. Group!CanEnableSharedExperience(q, w2) <=> Group!CanEnableSharedExperience(q, w1)
  BY <1>1 DEF Group!CanEnableSharedExperience, Group!CanUseSharedExperience
<1> QED BY <1>1, <1>2 DEF Fresh

(* A party that ends, as OneEnded says it.                                 *)
Ended(pa, of, to, a, pa2, of2, to2) ==
  /\ pa2 = [b \in DOMAIN pa \ {a} |-> pa[b]]
  /\ of2 = [p \in Friends |-> IF of[p] = a THEN NoParty ELSE of[p]]
  /\ to2 = [p \in Friends |-> to[p] \ {a}]

LEMMA EndedOK ==
  ASSUME NEW pa, NEW of, NEW to, NEW who, NEW spots, Links(pa, of, to, who),
         AllFresh(pa, spots), NEW a, NEW pa2, NEW of2, NEW to2,
         Ended(pa, of, to, a, pa2, of2, to2)
  PROVE  Links(pa2, of2, to2, who) /\ AllFresh(pa2, spots)
<1>1. /\ of2 \in [Friends -> Addresses \cup {NoParty}]
      /\ to2 \in [Friends -> SUBSET Addresses]
      /\ \A p \in Friends : of2[p] = IF of[p] = a THEN NoParty ELSE of[p]
      /\ \A p \in Friends : to2[p] = to[p] \ {a}
      /\ pa2 = [b \in DOMAIN pa \ {a} |-> pa[b]]
  BY DEF Ended, Links
<1>2. Links(pa2, of2, to2, who)
  BY <1>1, OneEnded
<1>3. AllFresh(pa2, spots)
  BY <1>1 DEF AllFresh
<1> QED BY <1>2, <1>3

(* disband() of a party that has already let go of p, or of nobody.        *)
LEMMA DisbandOK ==
  ASSUME NEW pa, NEW of, NEW to, NEW who, Links(pa, of, to, who),
         NEW a \in DOMAIN pa, NEW p \in Friends, of[p] = a,
         NEW r, r.invites = pa[a].invites,
         Group!Company(r) \cup {p} = Group!Company(pa[a]),
         NEW s, s = [party |-> [pa EXCEPT ![a] = r], partyOf |-> [of EXCEPT ![p] = NoParty],
                     invitedTo |-> to],
         NEW t, t = Group!Disband(s, a)
  PROVE  Ended(pa, of, to, a, t.party, t.partyOf, t.invitedTo)
<1>1. /\ s.party = [pa EXCEPT ![a] = r]
      /\ s.partyOf = [of EXCEPT ![p] = NoParty]
      /\ s.invitedTo = to
  OBVIOUS
<1>2. s.party[a] = r /\ DOMAIN s.party = DOMAIN pa
      /\ \A b \in DOMAIN pa \ {a} : s.party[b] = pa[b]
  BY <1>1 DEF Links
<1>3. /\ t.party = [b \in DOMAIN s.party \ {a} |-> s.party[b]]
      /\ t.partyOf = [x \in Friends |-> IF x \in Group!Company(r) THEN NoParty
                                        ELSE s.partyOf[x]]
      /\ t.invitedTo = [x \in Friends |-> IF x \in r.invites THEN s.invitedTo[x] \ {a}
                                          ELSE s.invitedTo[x]]
  BY <1>2 DEF Group!Disband
<1>4. Group!Company(pa[a]) = {x \in Friends : of[x] = a}
      /\ pa[a].invites = {x \in Friends : a \in to[x]}
  BY DEF Links
<1>5. t.party = [b \in DOMAIN pa \ {a} |-> pa[b]]
  BY <1>2, <1>3
<1>6. t.partyOf = [x \in Friends |-> IF of[x] = a THEN NoParty ELSE of[x]]
  <2>1. ASSUME NEW x \in Friends
        PROVE  t.partyOf[x] = IF of[x] = a THEN NoParty ELSE of[x]
    <3>1. t.partyOf[x] = IF x \in Group!Company(r) THEN NoParty ELSE s.partyOf[x]
      BY <1>3
    <3>2. s.partyOf[x] = IF x = p THEN NoParty ELSE of[x]
      BY <1>1 DEF Links
    <3>3. of[x] = a <=> x \in Group!Company(r) \/ x = p
      BY <1>4
    <3> QED BY <3>1, <3>2, <3>3
  <2> QED BY <1>3, <2>1
<1>7. t.invitedTo = [x \in Friends |-> to[x] \ {a}]
  <2>1. ASSUME NEW x \in Friends
        PROVE  t.invitedTo[x] = to[x] \ {a}
    <3>1. t.invitedTo[x] = IF x \in r.invites THEN to[x] \ {a} ELSE to[x]
      BY <1>1, <1>3
    <3>2. a \in to[x] <=> x \in r.invites
      BY <1>4
    <3> QED BY <3>1, <3>2
  <2> QED BY <1>3, <2>1
<1> QED BY <1>5, <1>6, <1>7 DEF Ended

(* The party of a player p who leaves it, before it may disband: r.        *)
LEMMA LeftBehind ==
  ASSUME NEW q \in PartyRecord, Distinct(q), NEW p \in Group!Company(q),
         NEW r, r = Group!PartyWithout(q, p)
  PROVE  /\ r \in PartyRecord /\ Distinct(r) /\ Fresh(r, place)
         /\ r.invites = q.invites
         /\ Group!Company(r) \cup {p} = Group!Company(q)
         /\ ~Group!MissingLeader(q, p) => Group!Company(r) = Group!Company(q) \ {p}
<1> DEFINE missing == Group!MissingLeader(q, p)
<1>20. PICK led : led = IF q.leader = p /\ ~missing
                       THEN Group!PassPartyLeadership(q, Head(q.members)) ELSE q
  OBVIOUS
<1>21. PICK left : left = Group!UpdateSharedExperience(
                           [led EXCEPT !.members = Group!Erased(led.members, p)], place)
  OBVIOUS
<1>22. r = Group!ClearPlayerPoints(left, p)
  BY <1>20, <1>21 DEF Group!PartyWithout
<1>0. p \in Friends
  BY DEF Group!Company, Group!Range, PartyRecord
<1>1. /\ led \in PartyRecord /\ Distinct(led) /\ led.invites = q.invites
      /\ Group!Company(led) = Group!Company(q)
      /\ ~missing => led.leader # p
  <2>1. CASE q.leader = p /\ ~missing
    <3>1. q.members # <<>> /\ q.members \in Seq(Friends)
      BY <2>1 DEF PartyRecord, Group!MissingLeader
    <3>2. PICK h : h = Head(q.members)
      OBVIOUS
    <3>3. h \in Group!Range(q.members)
      BY <3>1, <3>2 DEF Group!Range
    <3>4. h # p
      BY <2>1, <3>3 DEF Distinct
    <3>5. led = Group!PassPartyLeadership(q, h)
      BY <1>20, <2>1, <3>2
    <3> QED BY <3>3, <3>4, <3>5, LeadershipPassed
  <2>2. CASE ~(q.leader = p /\ ~missing)
    BY <1>20, <2>2 DEF Group!MissingLeader
  <2> QED BY <2>1, <2>2
<1>2. PICK rest : rest = Group!Erased(led.members, p)
  OBVIOUS
<1>3. rest \in Seq(Friends) /\ OnceEach(rest)
      /\ Group!Range(rest) = Group!Range(led.members) \ {p}
  BY <1>1, <1>2, PlayerErased DEF PartyRecord, Distinct
<1>4. PICK m : m = [led EXCEPT !.members = rest]
  OBVIOUS
<1>5. m \in PartyRecord /\ m.leader = led.leader /\ m.members = rest
      /\ m.invites = led.invites
  BY <1>1, <1>3, <1>4 DEF PartyRecord
<1>6. left \in PartyRecord /\ SamePeople(m, left) /\ Fresh(left, place)
  BY <1>2, <1>4, <1>5, <1>21, Updated
<1>7. r \in PartyRecord /\ SamePeople(left, r) /\ Fresh(r, place)
  BY <1>0, <1>6, <1>22, PointsCleared
<1>8. r.leader = led.leader /\ r.members = rest /\ r.invites = q.invites
  BY <1>1, <1>5, <1>6, <1>7 DEF SamePeople
<1>9. Distinct(r)
  BY <1>1, <1>3, <1>8 DEF Distinct
<1>10. Group!Company(r) = {led.leader} \cup (Group!Range(led.members) \ {p})
  BY <1>3, <1>8 DEF Group!Company
<1>11. Group!Company(q) = {led.leader} \cup Group!Range(led.members)
  BY <1>1 DEF Group!Company
<1> QED BY <1>1, <1>7, <1>8, <1>9, <1>10, <1>11

(* The three parts of the state, as Party's methods pass them on.          *)
IsState(s, pa, of, to) == s = [party |-> pa, partyOf |-> of, invitedTo |-> to]

(* leaveParty: whoever stays agrees, and nobody points to what has ended.  *)
LEMMA LeaveOK ==
  ASSUME NEW pa, NEW of, NEW to, NEW who, Links(pa, of, to, who), AllFresh(pa, place),
         NEW p \in Friends, NEW a, a = of[p], a # NoParty,
         NEW s, IsState(s, pa, of, to), NEW t, t = Group!LeaveParty(s, a, p)
  PROVE  /\ Links(t.party, t.partyOf, t.invitedTo, who)
         /\ AllFresh(t.party, place)
         /\ t.partyOf[p] = NoParty
         /\ t.invitedTo[p] \subseteq to[p]
<1>1. a \in DOMAIN pa /\ a \in Addresses /\ p \in Group!Company(pa[a])
  BY DEF Links
<1>2. PICK q : q = pa[a]
  OBVIOUS
<1>3. /\ q \in PartyRecord /\ Distinct(q) /\ p \in Group!Company(q)
      /\ Group!Company(q) = {x \in Friends : of[x] = a}
      /\ q.invites = {x \in Friends : a \in to[x]}
      /\ q.invites \cap Group!Company(q) = {}
      /\ Group!Company(q) \cup q.invites \subseteq who
  BY <1>1, <1>2 DEF Links
<1>4. s.party[a] = q
  BY <1>2 DEF IsState
<1>8. PICK r : r = Group!PartyWithout(q, p)
  OBVIOUS
<1> DEFINE missing == Group!MissingLeader(q, p)
<1>9. /\ r \in PartyRecord /\ Distinct(r) /\ Fresh(r, place)
      /\ r.invites = q.invites
      /\ Group!Company(r) \cup {p} = Group!Company(q)
      /\ ~missing => Group!Company(r) = Group!Company(q) \ {p}
  BY <1>3, <1>8, LeftBehind
<1>10. PICK gone : gone = [party |-> [pa EXCEPT ![a] = r],
                           partyOf |-> [of EXCEPT ![p] = NoParty], invitedTo |-> to]
  OBVIOUS
<1>11. s.party = pa /\ s.partyOf = of /\ s.invitedTo = to
  BY DEF IsState
<1>12. t = IF missing \/ Group!Empty(r) THEN Group!Disband(gone, a) ELSE gone
  BY <1>4, <1>8, <1>10, <1>11 DEF Group!LeaveParty
<1>13. CASE missing \/ Group!Empty(r)
  <2>1. t = Group!Disband(gone, a)
    BY <1>12, <1>13
  <2>2. Ended(pa, of, to, a, t.party, t.partyOf, t.invitedTo)
    BY <1>1, <1>2, <1>9, <1>10, <2>1, DisbandOK
  <2>3. Links(t.party, t.partyOf, t.invitedTo, who) /\ AllFresh(t.party, place)
    BY <2>2, EndedOK
  <2> QED BY <2>2, <2>3 DEF Ended
<1>14. CASE ~(missing \/ Group!Empty(r))
  <2>1. t.party = [pa EXCEPT ![a] = r] /\ t.partyOf = [of EXCEPT ![p] = NoParty]
        /\ t.invitedTo = to
    BY <1>10, <1>12, <1>14
  <2>2. t.party = [b \in DOMAIN pa \cup {a} |-> IF b = a THEN r ELSE pa[b]]
    <3>1. DOMAIN pa \cup {a} = DOMAIN pa
      BY <1>1
    <3> QED BY <2>1, <3>1 DEF Links
  <2>3. t.partyOf \in [Friends -> Addresses \cup {NoParty}]
        /\ \A x \in Friends : t.partyOf[x] = IF x = p THEN NoParty ELSE of[x]
    BY <2>1 DEF Links
  <2>4. NoParty \notin Addresses
    BY PartiesAssumption
  <2>5. Group!Company(r) = {x \in Friends : t.partyOf[x] = a}
    BY <1>1, <1>3, <1>9, <1>14, <2>3, <2>4
  <2>6. \A x \in Friends : t.partyOf[x] # of[x] => {of[x], t.partyOf[x]} \subseteq {a, NoParty}
    BY <2>3
  <2>7. t.invitedTo \in [Friends -> SUBSET Addresses]
    BY <2>1 DEF Links
  <2>8. Changed(pa, of, to, who, a, r, t.party, t.partyOf, t.invitedTo)
    BY <1>1, <1>3, <1>9, <1>14, <2>1, <2>2, <2>3, <2>5, <2>6, <2>7 DEF Changed
  <2>9. Links(t.party, t.partyOf, t.invitedTo, who)
    BY <2>8, OneChanged
  <2>10. AllFresh(t.party, place)
    BY <1>9, <2>2 DEF AllFresh
  <2> QED BY <2>1, <2>3, <2>9, <2>10
<1> QED BY <1>13, <1>14

LEMMA OnePointer ==
  ASSUME NEW S, NEW f \in [Friends -> S], NEW p \in Friends, NEW v \in S, NEW g,
         g = [f EXCEPT ![p] = v]
  PROVE  g \in [Friends -> S] /\ \A x \in Friends : g[x] = IF x = p THEN v ELSE f[x]
OBVIOUS

LEMMA PartiesReplaced ==
  ASSUME NEW pa, pa \in [DOMAIN pa -> PartyRecord], NEW a \in DOMAIN pa, NEW r, NEW g,
         g = [pa EXCEPT ![a] = r]
  PROVE  g = [b \in DOMAIN pa \cup {a} |-> IF b = a THEN r ELSE pa[b]]
<1>1. DOMAIN pa \cup {a} = DOMAIN pa
  OBVIOUS
<1> QED BY <1>1

LEMMA RemoveInviteOK ==
  ASSUME NEW pa, NEW of, NEW to, NEW who, Links(pa, of, to, who), AllFresh(pa, place),
         NEW a \in DOMAIN pa, NEW p \in pa[a].invites,
         NEW s, IsState(s, pa, of, to), NEW t, t = Group!RemoveInvite(s, a, p)
  PROVE  Links(t.party, t.partyOf, t.invitedTo, who) /\ AllFresh(t.party, place)
<1>1. a \in Addresses
  BY DEF Links
<1>2. PICK q : q = pa[a]
  OBVIOUS
<1>3. /\ q \in PartyRecord /\ Distinct(q) /\ p \in q.invites /\ p \in Friends
      /\ Group!Company(q) = {x \in Friends : of[x] = a}
      /\ q.invites = {x \in Friends : a \in to[x]}
      /\ q.invites \cap Group!Company(q) = {}
      /\ Group!Company(q) \cup q.invites \subseteq who
      /\ Fresh(q, place)
  BY <1>1, <1>2 DEF Links, AllFresh
<1>4. s.party = pa /\ s.partyOf = of /\ s.invitedTo = to
  BY DEF IsState
<1>5. PICK r : r = Group!Inviting(q, q.invites \ {p})
  OBVIOUS
<1>6. q.invites \ {p} \in SUBSET Friends
  BY <1>3
<1>7. /\ r \in PartyRecord /\ r.invites = q.invites \ {p} /\ Distinct(r) /\ Fresh(r, place)
      /\ Group!Company(r) = Group!Company(q)
  BY <1>3, <1>5, <1>6, GuestsChanged DEF Group!Inviting
<1>8. PICK to1 : to1 = [to EXCEPT ![p] = @ \ {a}]
  OBVIOUS
<1>9. /\ to1 \in [Friends -> SUBSET Addresses]
      /\ \A x \in Friends : to1[x] = IF x = p THEN to[x] \ {a} ELSE to[x]
  BY <1>8 DEF Links
<1>10. PICK gone : gone = [party |-> [pa EXCEPT ![a] = r], partyOf |-> of, invitedTo |-> to1]
  OBVIOUS
<1>11. t = IF Group!Empty(r) THEN Group!Disband(gone, a) ELSE gone
  BY <1>2, <1>4, <1>5, <1>8, <1>10 DEF Group!RemoveInvite
<1>12. gone.party = [pa EXCEPT ![a] = r] /\ gone.partyOf = of /\ gone.invitedTo = to1
  BY <1>10
<1>13. /\ gone.party = [b \in DOMAIN pa \cup {a} |-> IF b = a THEN r ELSE pa[b]]
       /\ gone.party[a] = r /\ DOMAIN gone.party = DOMAIN pa
       /\ \A b \in DOMAIN pa \ {a} : gone.party[b] = pa[b]
  <2>1. DOMAIN pa \cup {a} = DOMAIN pa
    OBVIOUS
  <2> QED BY <1>12, <2>1 DEF Links
<1>14. CASE Group!Empty(r)
  <2>1. t = Group!Disband(gone, a)
    BY <1>11, <1>14
  <2>2. /\ t.party = [b \in DOMAIN gone.party \ {a} |-> gone.party[b]]
        /\ t.partyOf = [x \in Friends |-> IF x \in Group!Company(r) THEN NoParty ELSE of[x]]
        /\ t.invitedTo = [x \in Friends |-> IF x \in r.invites THEN to1[x] \ {a} ELSE to1[x]]
    BY <1>12, <1>13, <2>1 DEF Group!Disband
  <2>3. t.party = [b \in DOMAIN pa \ {a} |-> pa[b]]
    BY <1>13, <2>2
  <2>4. t.partyOf = [x \in Friends |-> IF of[x] = a THEN NoParty ELSE of[x]]
    BY <1>3, <1>7, <2>2
  <2>5. r.invites = {}
    BY <1>14 DEF Group!Empty
  <2>6. \A x \in Friends : to1[x] = to[x] \ {a}
    BY <1>3, <1>7, <1>9, <2>5
  <2>7. t.invitedTo = [x \in Friends |-> to[x] \ {a}]
    BY <2>2, <2>5, <2>6
  <2>8. Ended(pa, of, to, a, t.party, t.partyOf, t.invitedTo)
    BY <2>3, <2>4, <2>7 DEF Ended
  <2> QED BY <2>8, EndedOK
<1>15. CASE ~Group!Empty(r)
  <2>1. t.party = gone.party /\ t.partyOf = of /\ t.invitedTo = to1
    BY <1>11, <1>12, <1>15
  <2>2. r.invites = {x \in Friends : a \in to1[x]}
    BY <1>3, <1>7, <1>9
  <2>3. of \in [Friends -> Addresses \cup {NoParty}]
    BY DEF Links
  <2>4. Changed(pa, of, to, who, a, r, gone.party, of, to1)
    BY <1>1, <1>3, <1>7, <1>9, <1>13, <1>15, <2>2, <2>3 DEF Changed
  <2>5. AllFresh(gone.party, place)
    BY <1>7, <1>13 DEF AllFresh
  <2> QED BY <2>1, <2>4, <2>5, OneChanged
<1> QED BY <1>14, <1>15

LEMMA JoinOK ==
  ASSUME NEW pa, NEW of, NEW to, NEW who, Links(pa, of, to, who), AllFresh(pa, place),
         NEW a \in DOMAIN pa, NEW p \in pa[a].invites, of[p] = NoParty,
         NEW s, IsState(s, pa, of, to), NEW t, t = Group!JoinParty(s, a, p)
  PROVE  Links(t.party, t.partyOf, t.invitedTo, who) /\ AllFresh(t.party, place)
<1>1. a \in Addresses /\ NoParty \notin Addresses
  BY PartiesAssumption DEF Links
<1>2. PICK q : q = pa[a]
  OBVIOUS
<1>3. /\ q \in PartyRecord /\ Distinct(q) /\ p \in q.invites /\ p \in Friends
      /\ Group!Company(q) = {x \in Friends : of[x] = a}
      /\ q.invites = {x \in Friends : a \in to[x]}
      /\ q.invites \cap Group!Company(q) = {}
      /\ Group!Company(q) \cup q.invites \subseteq who
      /\ Fresh(q, place)
  BY <1>1, <1>2 DEF Links, AllFresh
<1>4. PICK r : r = Group!PartyWith(q, p)
  OBVIOUS
<1>5. /\ r \in PartyRecord /\ Distinct(r) /\ Fresh(r, place)
      /\ r.invites = q.invites \ {p}
      /\ r.members # <<>>
      /\ Group!Company(r) = Group!Company(q) \cup {p}
  BY <1>3, <1>4, MemberJoined DEF Group!PartyWith
<1>6. s.party = pa /\ s.partyOf = of /\ s.invitedTo = to
  BY DEF IsState
<1>7. /\ t.party = [pa EXCEPT ![a] = r]
      /\ t.partyOf = [of EXCEPT ![p] = a]
      /\ t.invitedTo = [to EXCEPT ![p] = @ \ {a}]
  BY <1>2, <1>4, <1>6 DEF Group!JoinParty
<1>8. /\ t.party = [b \in DOMAIN pa \cup {a} |-> IF b = a THEN r ELSE pa[b]]
      /\ t.partyOf \in [Friends -> Addresses \cup {NoParty}]
      /\ t.invitedTo \in [Friends -> SUBSET Addresses]
      /\ \A x \in Friends : t.partyOf[x] = IF x = p THEN a ELSE of[x]
      /\ \A x \in Friends : t.invitedTo[x] = IF x = p THEN to[p] \ {a} ELSE to[x]
  <2>1. /\ of \in [Friends -> Addresses \cup {NoParty}]
        /\ to \in [Friends -> SUBSET Addresses] /\ to[p] \ {a} \in SUBSET Addresses
        /\ a \in Addresses \cup {NoParty}
        /\ pa \in [DOMAIN pa -> PartyRecord]
    BY <1>1, <1>3 DEF Links
  <2>2. PICK left \in SUBSET Addresses : left = to[p] \ {a}
    BY <2>1
  <2>3. t.invitedTo = [to EXCEPT ![p] = left]
    BY <1>7, <2>2
  <2>4. /\ t.invitedTo \in [Friends -> SUBSET Addresses]
        /\ \A x \in Friends : t.invitedTo[x] = IF x = p THEN left ELSE to[x]
    BY <1>3, <2>1, <2>3, OnePointer
  <2>5. /\ t.partyOf \in [Friends -> Addresses \cup {NoParty}]
        /\ \A x \in Friends : t.partyOf[x] = IF x = p THEN a ELSE of[x]
    BY <1>3, <1>7, <2>1, OnePointer
  <2> QED BY <1>7, <2>1, <2>2, <2>4, <2>5, PartiesReplaced
<1>9. ~Group!Empty(r)
  BY <1>5 DEF Group!Empty
<1>10. Group!Company(r) = {x \in Friends : t.partyOf[x] = a}
  BY <1>3, <1>5, <1>8
<1>11. r.invites = {x \in Friends : a \in t.invitedTo[x]}
  BY <1>3, <1>5, <1>8
<1>12. Changed(pa, of, to, who, a, r, t.party, t.partyOf, t.invitedTo)
  BY <1>1, <1>3, <1>5, <1>8, <1>9, <1>10, <1>11 DEF Changed
<1>13. AllFresh(t.party, place)
  BY <1>5, <1>8 DEF AllFresh
<1> QED BY <1>12, <1>13, OneChanged

LEMMA InviteOK ==
  ASSUME NEW pa, NEW of, NEW to, NEW who, Links(pa, of, to, who), AllFresh(pa, place),
         NEW a \in DOMAIN pa, NEW p \in who, of[p] = NoParty,
         NEW s, IsState(s, pa, of, to), NEW t, t = Group!InvitePlayer(s, a, p)
  PROVE  Links(t.party, t.partyOf, t.invitedTo, who) /\ AllFresh(t.party, place)
<1>1. a \in Addresses /\ NoParty \notin Addresses /\ p \in Friends
  BY PartiesAssumption DEF Links
<1>2. PICK q : q = pa[a]
  OBVIOUS
<1>3. /\ q \in PartyRecord /\ Distinct(q)
      /\ Group!Company(q) = {x \in Friends : of[x] = a}
      /\ q.invites = {x \in Friends : a \in to[x]}
      /\ q.invites \cap Group!Company(q) = {}
      /\ Group!Company(q) \cup q.invites \subseteq who
      /\ Fresh(q, place)
  BY <1>1, <1>2 DEF Links, AllFresh
<1>4. PICK r : r = Group!Inviting(q, q.invites \cup {p})
  OBVIOUS
<1>5. q.invites \cup {p} \in SUBSET Friends
  BY <1>1, <1>3
<1>6. /\ r \in PartyRecord /\ r.invites = q.invites \cup {p} /\ Distinct(r)
      /\ Fresh(r, place) /\ Group!Company(r) = Group!Company(q)
  BY <1>3, <1>4, <1>5, GuestsChanged DEF Group!Inviting
<1>7. s.party = pa /\ s.partyOf = of /\ s.invitedTo = to
  BY DEF IsState
<1>8. /\ t.party = [pa EXCEPT ![a] = r]
      /\ t.partyOf = of
      /\ t.invitedTo = [to EXCEPT ![p] = @ \cup {a}]
  BY <1>2, <1>4, <1>7 DEF Group!InvitePlayer
<1>9. /\ t.party = [b \in DOMAIN pa \cup {a} |-> IF b = a THEN r ELSE pa[b]]
      /\ t.partyOf \in [Friends -> Addresses \cup {NoParty}]
      /\ t.invitedTo \in [Friends -> SUBSET Addresses]
      /\ \A x \in Friends : t.invitedTo[x] = IF x = p THEN to[p] \cup {a} ELSE to[x]
  <2>1. /\ of \in [Friends -> Addresses \cup {NoParty}]
        /\ to \in [Friends -> SUBSET Addresses] /\ to[p] \cup {a} \in SUBSET Addresses
        /\ pa \in [DOMAIN pa -> PartyRecord]
    BY <1>1 DEF Links
  <2> QED BY <1>1, <1>8, <2>1, OnePointer, PartiesReplaced
<1>10. ~Group!Empty(r)
  BY <1>6 DEF Group!Empty
<1>11. r.invites \cap Group!Company(r) = {}
  BY <1>1, <1>3, <1>6
<1>12. r.invites = {x \in Friends : a \in t.invitedTo[x]}
  BY <1>1, <1>3, <1>6, <1>9
<1>13. Changed(pa, of, to, who, a, r, t.party, t.partyOf, t.invitedTo)
  BY <1>1, <1>3, <1>6, <1>8, <1>9, <1>10, <1>11, <1>12 DEF Changed
<1>14. AllFresh(t.party, place)
  BY <1>6, <1>9 DEF AllFresh
<1> QED BY <1>13, <1>14, OneChanged

(* A new party has a leader and his first guest at once.                   *)
LEMMA FoundOK ==
  ASSUME Links(party, partyOf, invitedTo, partyOnline), AllFresh(party, place),
         NEW a \in Addresses \ DOMAIN party, NEW p \in partyOnline, NEW guest \in partyOnline,
         p # guest, partyOf[p] = NoParty, partyOf[guest] = NoParty,
         NEW t, t = Group!InvitePlayer(Group!Founded(a, p), a, guest)
  PROVE  Links(t.party, t.partyOf, t.invitedTo, partyOnline) /\ AllFresh(t.party, place)
<1>1. p \in Friends /\ guest \in Friends /\ NoParty \notin Addresses
  BY PartiesAssumption DEF Links
<1>2. PICK q : q = Group!NewParty(p)
  OBVIOUS
<1>3. <<>> \in Ticks
  <2>1. <<>> \in [{} -> {"recent", "old"}]
    OBVIOUS
  <2> QED BY <2>1 DEF Ticks
<1>4. /\ q \in PartyRecord /\ q.leader = p /\ q.members = <<>> /\ q.invites = {}
      /\ q.active = FALSE
  BY <1>1, <1>2, <1>3 DEF Group!NewParty, PartyRecord
<1>5. Distinct(q) /\ Fresh(q, place) /\ Group!Company(q) = {p}
  BY <1>4 DEF Distinct, OnceEach, Fresh, Group!Company, Group!Range
<1>6. PICK r : r = Group!Inviting(q, {guest})
  OBVIOUS
<1>7. PICK guests \in SUBSET Friends : guests = {guest}
  BY <1>1
<1>8. /\ r \in PartyRecord /\ r.invites = {guest} /\ Distinct(r) /\ Fresh(r, place)
      /\ Group!Company(r) = {p}
  <2>1. r = [q EXCEPT !.invites = guests]
    BY <1>6, <1>7 DEF Group!Inviting
  <2>2. /\ r \in PartyRecord /\ r.invites = guests
        /\ Group!Company(r) = Group!Company(q)
        /\ Distinct(q) => Distinct(r)
        /\ \A w : Fresh(q, w) => Fresh(r, w)
    BY <1>4, <2>1, GuestsChanged
  <2> QED BY <1>5, <1>7, <2>2
<1>9. PICK pa : pa = Group!With(party, a, q)
  OBVIOUS
<1>10. pa[a] = q /\ DOMAIN pa = DOMAIN party \cup {a}
       /\ \A b \in DOMAIN party : pa[b] = party[b]
  BY <1>9 DEF Group!With
<1>11. PICK s : s = Group!Founded(a, p)
  OBVIOUS
<1>12. s.party = pa /\ s.partyOf = [partyOf EXCEPT ![p] = a] /\ s.invitedTo = invitedTo
  BY <1>2, <1>9, <1>11 DEF Group!Founded
<1>13. q.invites \cup {guest} = {guest}
  BY <1>4
<1>14. /\ t.party = [pa EXCEPT ![a] = r]
       /\ t.partyOf = [partyOf EXCEPT ![p] = a]
       /\ t.invitedTo = [invitedTo EXCEPT ![guest] = @ \cup {a}]
  BY <1>6, <1>10, <1>11, <1>12, <1>13 DEF Group!InvitePlayer
<1>15. t.party = [b \in DOMAIN party \cup {a} |-> IF b = a THEN r ELSE party[b]]
  <2>1. pa = [b \in DOMAIN party \cup {a} |-> pa[b]]
    BY <1>9 DEF Group!With
  <2> QED BY <1>10, <1>14, <2>1
<1>16. /\ t.partyOf \in [Friends -> Addresses \cup {NoParty}]
       /\ t.invitedTo \in [Friends -> SUBSET Addresses]
       /\ \A x \in Friends : t.partyOf[x] = IF x = p THEN a ELSE partyOf[x]
       /\ \A x \in Friends : t.invitedTo[x] = IF x = guest THEN invitedTo[guest] \cup {a}
                                              ELSE invitedTo[x]
  <2>1. /\ partyOf \in [Friends -> Addresses \cup {NoParty}]
        /\ invitedTo \in [Friends -> SUBSET Addresses]
        /\ invitedTo[guest] \cup {a} \in SUBSET Addresses
        /\ a \in Addresses \cup {NoParty}
    BY <1>1 DEF Links
  <2> QED BY <1>1, <1>14, <2>1, OnePointer
<1>17. \A x \in Friends : partyOf[x] # a /\ a \notin invitedTo[x]
  BY <1>1 DEF Links
<1>18. Group!Company(r) = {x \in Friends : t.partyOf[x] = a}
  BY <1>1, <1>8, <1>16, <1>17
<1>19. r.invites = {x \in Friends : a \in t.invitedTo[x]}
  BY <1>1, <1>8, <1>16, <1>17
<1>20. ~Group!Empty(r)
  BY <1>8 DEF Group!Empty
<1>21. Changed(party, partyOf, invitedTo, partyOnline, a, r, t.party, t.partyOf, t.invitedTo)
  BY <1>8, <1>15, <1>16, <1>18, <1>19, <1>20 DEF Changed
<1>22. AllFresh(t.party, place)
  BY <1>8, <1>15 DEF AllFresh
<1> QED BY <1>21, <1>22, OneChanged

(* clearPartyInvitations: every party that invited p is without p, or gone.*)
LEMMA InvitationsCleared ==
  ASSUME NEW pa, NEW of, NEW to, NEW who, Links(pa, of, to, who), AllFresh(pa, place),
         NEW p \in Friends, NEW s, IsState(s, pa, of, to),
         NEW t, t = Group!ClearPartyInvitations(s, p)
  PROVE  /\ Links(t.party, t.partyOf, t.invitedTo, who) /\ AllFresh(t.party, place)
         /\ t.invitedTo[p] = {}
         /\ t.partyOf \in [Friends -> Addresses \cup {NoParty}]
<1> DEFINE asks == to[p]
<1>1. s.party = pa /\ s.partyOf = of /\ s.invitedTo = to
  BY DEF IsState
<1>2. PICK kept : kept = [a \in DOMAIN pa |->
                            IF a \in asks THEN Group!Inviting(pa[a], pa[a].invites \ {p})
                            ELSE pa[a]]
  OBVIOUS
<1>3. PICK over : over = {a \in asks : Group!Empty(kept[a])}
  OBVIOUS
<1>4. /\ t.party = [a \in DOMAIN pa \ over |-> kept[a]]
      /\ t.partyOf = [x \in Friends |-> IF \E a \in over : x \in Group!Company(pa[a])
                                        THEN NoParty ELSE of[x]]
      /\ t.invitedTo = [to EXCEPT ![p] = {}]
  BY <1>1, <1>2, <1>3 DEF Group!ClearPartyInvitations
<1>5. asks \subseteq DOMAIN pa /\ over \subseteq asks /\ NoParty \notin Addresses
      /\ DOMAIN pa \subseteq Addresses
  BY <1>3, PartiesAssumption DEF Links
<1>6. ASSUME NEW a \in DOMAIN pa
      PROVE  /\ kept[a] \in PartyRecord /\ Distinct(kept[a]) /\ Fresh(kept[a], place)
             /\ Group!Company(kept[a]) = Group!Company(pa[a])
             /\ kept[a].invites = pa[a].invites \ {p}
             /\ kept[a].members = pa[a].members
             /\ a \notin asks => kept[a] = pa[a]
  <2>1. pa[a] \in PartyRecord /\ Distinct(pa[a]) /\ Fresh(pa[a], place)
        /\ pa[a].invites = {x \in Friends : a \in to[x]}
    BY DEF Links, AllFresh
  <2>2. CASE a \in asks
    <3>1. PICK guests \in SUBSET Friends : guests = pa[a].invites \ {p}
      BY <2>1
    <3>2. kept[a] = [pa[a] EXCEPT !.invites = guests]
      BY <1>2, <2>2, <3>1 DEF Group!Inviting
    <3> QED BY <2>1, <2>2, <3>1, <3>2, GuestsChanged
  <2>3. CASE a \notin asks
    <3>1. kept[a] = pa[a]
      BY <1>2, <2>3
    <3>2. p \notin pa[a].invites
      BY <2>1, <2>3
    <3> QED BY <2>1, <3>1, <3>2
  <2> QED BY <2>2, <2>3
<1>7. /\ t.invitedTo \in [Friends -> SUBSET Addresses]
      /\ \A x \in Friends : t.invitedTo[x] = IF x = p THEN {} ELSE to[x]
  <2>1. to \in [Friends -> SUBSET Addresses] /\ {} \in SUBSET Addresses
    BY DEF Links
  <2> QED BY <1>4, <2>1, OnePointer
<1>8. ASSUME NEW x \in Friends
      PROVE  t.partyOf[x] = IF of[x] \in over THEN NoParty ELSE of[x]
  <2>1. \A a \in over : x \in Group!Company(pa[a]) <=> of[x] = a
    BY <1>5 DEF Links
  <2> QED BY <1>4, <2>1
<1>9. t.partyOf \in [Friends -> Addresses \cup {NoParty}]
  <2>1. \A x \in Friends : t.partyOf[x] \in Addresses \cup {NoParty}
    BY <1>8 DEF Links
  <2> QED BY <1>4, <2>1
<1>10. DOMAIN t.party = DOMAIN pa \ over /\ DOMAIN t.party \subseteq Addresses
       /\ \A a \in DOMAIN t.party : t.party[a] = kept[a]
  BY <1>4, <1>5
<1>11. t.party \in [DOMAIN t.party -> PartyRecord]
  BY <1>4, <1>6
<1>12. \A x \in Friends : t.partyOf[x] # NoParty => t.partyOf[x] \in DOMAIN t.party
  BY <1>8, <1>10 DEF Links
<1>13. ASSUME NEW x \in Friends
       PROVE  t.invitedTo[x] \subseteq DOMAIN t.party
  <2>1. CASE x = p
    BY <1>7, <2>1
  <2>2. CASE x # p
    <3>1. ASSUME NEW a \in to[x]
          PROVE  a \in DOMAIN pa /\ a \notin over
      <4>1. a \in DOMAIN pa /\ x \in pa[a].invites
        BY DEF Links
      <4>2. x \in kept[a].invites
        BY <1>6, <2>2, <4>1
      <4> QED BY <1>3, <4>1, <4>2 DEF Group!Empty
    <3> QED BY <1>7, <1>10, <2>2, <3>1
  <2> QED BY <2>1, <2>2
<1>14. ASSUME NEW a \in DOMAIN t.party
       PROVE  /\ Distinct(t.party[a])
              /\ ~Group!Empty(t.party[a])
              /\ t.party[a].invites \cap Group!Company(t.party[a]) = {}
              /\ Group!Company(t.party[a]) \cup t.party[a].invites \subseteq who
              /\ Group!Company(t.party[a]) = {x \in Friends : t.partyOf[x] = a}
              /\ t.party[a].invites = {x \in Friends : a \in t.invitedTo[x]}
  <2>1. a \in DOMAIN pa /\ a \notin over /\ a \in Addresses /\ t.party[a] = kept[a]
    BY <1>5, <1>10
  <2>2. /\ ~Group!Empty(pa[a])
        /\ pa[a].invites \cap Group!Company(pa[a]) = {}
        /\ Group!Company(pa[a]) \cup pa[a].invites \subseteq who
        /\ Group!Company(pa[a]) = {x \in Friends : of[x] = a}
        /\ pa[a].invites = {x \in Friends : a \in to[x]}
    BY <2>1 DEF Links
  <2>3. ~Group!Empty(kept[a])
    BY <1>3, <1>6, <2>1, <2>2
  <2>4. \A x \in Friends : t.partyOf[x] = a <=> of[x] = a
    BY <1>5, <1>8, <2>1
  <2>5. \A x \in Friends : a \in t.invitedTo[x] <=> x # p /\ a \in to[x]
    BY <1>7
  <2>6. Group!Company(kept[a]) = {x \in Friends : t.partyOf[x] = a}
    BY <1>6, <2>1, <2>2, <2>4
  <2>7. kept[a].invites = {x \in Friends : a \in t.invitedTo[x]}
    BY <1>6, <2>1, <2>2, <2>5
  <2> QED BY <1>6, <2>1, <2>2, <2>3, <2>6, <2>7
<1>15. who \subseteq Friends
  BY DEF Links
<1>16. Links(t.party, t.partyOf, t.invitedTo, who)
  BY <1>7, <1>9, <1>10, <1>11, <1>12, <1>13, <1>14, <1>15 DEF Links
<1>17. AllFresh(t.party, place)
  BY <1>6, <1>10 DEF AllFresh
<1> QED BY <1>7, <1>9, <1>16, <1>17

-----------------------------------------------------------------------------
(* The commands.                                                           *)

GroupInv ==
  /\ Links(party, partyOf, invitedTo, partyOnline)
  /\ AllFresh(party, place)
  /\ place = [p \in Friends |-> place[p]]

LEMMA GroupInit == Group!Init => GroupInv
<1> SUFFICES ASSUME Group!Init PROVE GroupInv
  OBVIOUS
<1>1. DOMAIN party = {}
  BY DEF Group!Init
<1> QED BY <1>1 DEF Group!Init, GroupInv, Links, AllFresh

(* A step that leaves places and players as they are.                      *)
LEMMA Became ==
  ASSUME GroupInv, NEW t, Group!Become(t), UNCHANGED <<partyOnline, place>>,
         Links(t.party, t.partyOf, t.invitedTo, partyOnline), AllFresh(t.party, place)
  PROVE  GroupInv'
<1>1. /\ party' = t.party /\ partyOf' = t.partyOf /\ invitedTo' = t.invitedTo
      /\ partyOnline' = partyOnline /\ place' = place
  BY DEF Group!Become
<1>2. Links(party, partyOf, invitedTo, partyOnline)'
  BY <1>1 DEF Links
<1>3. AllFresh(party, place)'
  BY <1>1 DEF AllFresh, Fresh, Group!CanEnableSharedExperience, Group!CanUseSharedExperience
<1>4. place' = [p \in Friends |-> place'[p]]
  BY <1>1 DEF GroupInv
<1> QED BY <1>2, <1>3, <1>4 DEF GroupInv

LEMMA StateIs == IsState(Group!State, party, partyOf, invitedTo)
BY DEF IsState, Group!State

(* A step in which the party of p changes what its people share.           *)
LEMMA TouchedKeeps ==
  ASSUME GroupInv, NEW a \in DOMAIN party, NEW r \in PartyRecord,
         SamePeople(party[a], r), Fresh(r, place), party' = [party EXCEPT ![a] = r],
         UNCHANGED <<partyOnline, place, partyOf, invitedTo>>
  PROVE  GroupInv'
<1>1. Links(party', partyOf, invitedTo, partyOnline) /\ AllFresh(party', place)
  BY PartyTouched DEF GroupInv
<1> QED BY <1>1 DEF GroupInv

LEMMA PartyOfOK ==
  ASSUME GroupInv, NEW p \in Friends, partyOf[p] # NoParty
  PROVE  /\ partyOf[p] \in DOMAIN party /\ partyOf[p] \in Addresses
         /\ party[partyOf[p]] \in PartyRecord
         /\ Fresh(party[partyOf[p]], place)
         /\ Distinct(party[partyOf[p]])
         /\ p \in Group!Company(party[partyOf[p]])
BY DEF GroupInv, Links, AllFresh

LEMMA InviteKeeps ==
  ASSUME GroupInv, NEW p \in partyOnline, NEW guest \in partyOnline,
         Group!PlayerInviteToParty(p, guest)
  PROVE  GroupInv'
<1>1. p # guest /\ partyOf[guest] = NoParty /\ UNCHANGED <<partyOnline, place>>
      /\ p \in Friends /\ guest \in Friends
  BY DEF Group!PlayerInviteToParty, GroupInv, Links
<1>2. CASE /\ partyOf[p] = NoParty
           /\ \E a \in Addresses \ DOMAIN party :
                Group!Become(Group!InvitePlayer(Group!Founded(a, p), a, guest))
  <2>1. PICK a \in Addresses \ DOMAIN party :
          Group!Become(Group!InvitePlayer(Group!Founded(a, p), a, guest))
    BY <1>2
  <2>2. PICK t : t = Group!InvitePlayer(Group!Founded(a, p), a, guest)
    OBVIOUS
  <2>3. Links(t.party, t.partyOf, t.invitedTo, partyOnline) /\ AllFresh(t.party, place)
    BY <1>1, <1>2, <2>2, FoundOK DEF GroupInv
  <2> QED BY <1>1, <2>1, <2>2, <2>3, Became
<1>3. CASE /\ Group!Leads(p)
           /\ Group!Become(Group!InvitePlayer(Group!State, partyOf[p], guest))
  <2>1. partyOf[p] \in DOMAIN party
    BY <1>1, <1>3, PartyOfOK DEF Group!Leads
  <2>2. PICK t : t = Group!InvitePlayer(Group!State, partyOf[p], guest)
    OBVIOUS
  <2>3. Links(t.party, t.partyOf, t.invitedTo, partyOnline) /\ AllFresh(t.party, place)
    BY <1>1, <2>1, <2>2, StateIs, InviteOK DEF GroupInv
  <2> QED BY <1>1, <1>3, <2>2, <2>3, Became
<1> QED BY <1>2, <1>3 DEF Group!PlayerInviteToParty

LEMMA JoinKeeps ==
  ASSUME GroupInv, NEW p \in partyOnline, NEW leader \in partyOnline,
         Group!PlayerJoinParty(p, leader)
  PROVE  GroupInv'
<1>1. leader \in Friends /\ partyOf[leader] # NoParty
      /\ p \in party[partyOf[leader]].invites
      /\ partyOf[p] = NoParty /\ UNCHANGED <<partyOnline, place>>
  BY DEF Group!PlayerJoinParty, Group!IsInviting, Group!Leads, GroupInv, Links
<1>2. partyOf[leader] \in DOMAIN party
  BY <1>1, PartyOfOK
<1>3. PICK t : t = Group!JoinParty(Group!State, partyOf[leader], p)
  OBVIOUS
<1>4. Links(t.party, t.partyOf, t.invitedTo, partyOnline) /\ AllFresh(t.party, place)
  BY <1>1, <1>2, <1>3, StateIs, JoinOK DEF GroupInv
<1>5. Group!Become(t)
  BY <1>3 DEF Group!PlayerJoinParty
<1> QED BY <1>1, <1>4, <1>5, Became

LEMMA RevokeKeeps ==
  ASSUME GroupInv, NEW p \in partyOnline, NEW guest \in partyOnline,
         Group!PlayerRevokePartyInvitation(p, guest)
  PROVE  GroupInv'
<1>1. p \in Friends /\ partyOf[p] # NoParty /\ guest \in party[partyOf[p]].invites
      /\ UNCHANGED <<partyOnline, place>>
  BY DEF Group!PlayerRevokePartyInvitation, Group!IsInviting, Group!Leads, GroupInv, Links
<1>2. partyOf[p] \in DOMAIN party
  BY <1>1, PartyOfOK
<1>3. PICK t : t = Group!RemoveInvite(Group!State, partyOf[p], guest)
  OBVIOUS
<1>4. Links(t.party, t.partyOf, t.invitedTo, partyOnline) /\ AllFresh(t.party, place)
  BY <1>1, <1>2, <1>3, StateIs, RemoveInviteOK DEF GroupInv
<1>5. Group!Become(t)
  BY <1>3 DEF Group!PlayerRevokePartyInvitation
<1> QED BY <1>1, <1>4, <1>5, Became

LEMMA LeaveKeeps ==
  ASSUME GroupInv, NEW p \in partyOnline, Group!PlayerLeaveParty(p)
  PROVE  GroupInv'
<1>1. p \in Friends /\ partyOf[p] # NoParty /\ UNCHANGED <<partyOnline, place>>
  BY DEF Group!PlayerLeaveParty, GroupInv, Links
<1>2. PICK t : t = Group!LeaveParty(Group!State, partyOf[p], p)
  OBVIOUS
<1>3. Links(t.party, t.partyOf, t.invitedTo, partyOnline) /\ AllFresh(t.party, place)
  BY <1>1, <1>2, StateIs, LeaveOK DEF GroupInv
<1>4. Group!Become(t)
  BY <1>2 DEF Group!PlayerLeaveParty
<1> QED BY <1>1, <1>3, <1>4, Became

(* A new leader was a member: the old one is no member of his own party.   *)
LEMMA PassKeeps ==
  ASSUME GroupInv, NEW p \in partyOnline, NEW other \in partyOnline,
         Group!PlayerPassPartyLeadership(p, other)
  PROVE  GroupInv'
<1>1. /\ p \in Friends /\ other \in Friends /\ partyOf[p] # NoParty
      /\ party[partyOf[p]].leader = p /\ other # p /\ partyOf[other] = partyOf[p]
      /\ UNCHANGED <<partyOnline, place, partyOf, invitedTo>>
  BY DEF Group!PlayerPassPartyLeadership, Group!IsPartner, Group!Leads, GroupInv, Links
<1>2. PICK a : a = partyOf[p]
  OBVIOUS
<1>3. PICK q : q = party[a]
  OBVIOUS
<1>4. /\ a \in DOMAIN party /\ a \in Addresses /\ q \in PartyRecord /\ Distinct(q)
      /\ q.invites \cap Group!Company(q) = {}
      /\ Group!Company(q) \cup q.invites \subseteq partyOnline
      /\ Group!Company(q) = {x \in Friends : partyOf[x] = a}
      /\ q.invites = {x \in Friends : a \in invitedTo[x]}
  BY <1>1, <1>2, <1>3 DEF GroupInv, Links
<1>5. other \in Group!Range(q.members)
  BY <1>1, <1>2, <1>3, <1>4 DEF Group!Company
<1>6. PICK r : r = Group!PassPartyLeadership(q, other)
  OBVIOUS
<1>7. /\ r \in PartyRecord /\ Distinct(r) /\ Fresh(r, place)
      /\ r.leader = other /\ r.invites = q.invites
      /\ Group!Company(r) = Group!Company(q)
  BY <1>4, <1>5, <1>6, LeadershipPassed
<1>8. ~Group!Empty(r)
  <2>1. p \in Group!Company(r)
    BY <1>1, <1>3, <1>2, <1>7 DEF Group!Company
  <2> QED BY <1>1, <1>7, <2>1 DEF Group!Empty, Group!Company, Group!Range
<1>9. party' = [party EXCEPT ![a] = r]
  BY <1>2, <1>3, <1>6 DEF Group!PlayerPassPartyLeadership
<1>10. party' = [b \in DOMAIN party \cup {a} |-> IF b = a THEN r ELSE party[b]]
  <2>1. party \in [DOMAIN party -> PartyRecord]
    BY DEF GroupInv, Links
  <2>2. PICK g : g = party'
    OBVIOUS
  <2>3. g = [party EXCEPT ![a] = r]
    BY <1>9, <2>2
  <2>4. g = [b \in DOMAIN party \cup {a} |-> IF b = a THEN r ELSE party[b]]
    <3>1. PICK pa : pa = party
      OBVIOUS
    <3>2. pa \in [DOMAIN pa -> PartyRecord] /\ a \in DOMAIN pa /\ g = [pa EXCEPT ![a] = r]
      BY <1>4, <2>1, <2>3, <3>1
    <3>3. g = [b \in DOMAIN pa \cup {a} |-> IF b = a THEN r ELSE pa[b]]
      BY <3>2, PartiesReplaced
    <3> QED BY <3>1, <3>3
  <2> QED BY <2>2, <2>4
<1>11. /\ partyOf \in [Friends -> Addresses \cup {NoParty}]
       /\ invitedTo \in [Friends -> SUBSET Addresses]
  BY DEF GroupInv, Links
<1>12. Changed(party, partyOf, invitedTo, partyOnline, a, r, party', partyOf, invitedTo)
  BY <1>4, <1>7, <1>8, <1>10, <1>11 DEF Changed
<1>13. Links(party', partyOf, invitedTo, partyOnline)
  BY <1>12, OneChanged DEF GroupInv
<1>14. AllFresh(party', place)
  BY <1>7, <1>10 DEF AllFresh, GroupInv
<1> QED BY <1>1, <1>13, <1>14 DEF GroupInv

LEMMA SharingKeeps ==
  ASSUME GroupInv, NEW p \in partyOnline,
         \/ \E on \in BOOLEAN : Group!PlayerEnableSharedPartyExperience(p, on)
         \/ Group!Act(p) \/ Group!OnIdleStatus(p) \/ Group!Forgotten(p)
  PROVE  GroupInv'
<1>1. p \in Friends /\ partyOf[p] # NoParty
      /\ UNCHANGED <<partyOnline, place, partyOf, invitedTo>>
  BY DEF GroupInv, Links, Group!PlayerEnableSharedPartyExperience, Group!Leads, Group!Act,
     Group!OnIdleStatus, Group!Forgotten
<1>2. PICK a : a = partyOf[p]
  OBVIOUS
<1>3. PICK q : q = party[a]
  OBVIOUS
<1>4. a \in DOMAIN party /\ q \in PartyRecord /\ Fresh(q, place)
  BY <1>1, <1>2, <1>3, PartyOfOK
<1>5. ASSUME NEW on \in BOOLEAN, Group!PlayerEnableSharedPartyExperience(p, on)
      PROVE  GroupInv'
  <2>1. PICK r : r = Group!SetSharedExperience(q, on)
    OBVIOUS
  <2>2. party' = [party EXCEPT ![a] = r]
    BY <1>2, <1>3, <1>5, <2>1 DEF Group!PlayerEnableSharedPartyExperience
  <2>3. r \in PartyRecord /\ SamePeople(q, r) /\ Fresh(r, place)
    BY <1>4, <2>1, SharingSet
  <2> QED BY <1>1, <1>3, <1>4, <2>2, <2>3, TouchedKeeps
<1>6. CASE Group!Act(p)
  <2>1. PICK r : r = Group!UpdatePlayerTicks(q, p)
    OBVIOUS
  <2>2. party' = [party EXCEPT ![a] = r]
    BY <1>2, <1>3, <1>6, <2>1 DEF Group!Act
  <2>3. r \in PartyRecord /\ SamePeople(q, r) /\ Fresh(r, place)
    BY <1>1, <1>4, <2>1, TicksUpdated
  <2> QED BY <1>1, <1>3, <1>4, <2>2, <2>3, TouchedKeeps
<1>7. CASE Group!OnIdleStatus(p)
  <2>1. PICK r : r = Group!ClearPlayerPoints(q, p)
    OBVIOUS
  <2>2. party' = [party EXCEPT ![a] = r]
    BY <1>2, <1>3, <1>7, <2>1 DEF Group!OnIdleStatus
  <2>3. r \in PartyRecord /\ SamePeople(q, r) /\ Fresh(r, place)
    BY <1>1, <1>4, <2>1, PointsCleared
  <2> QED BY <1>1, <1>3, <1>4, <2>2, <2>3, TouchedKeeps
<1>8. CASE Group!Forgotten(p)
  <2>1. PICK r : r = [q EXCEPT !.ticks[p] = "old"]
    OBVIOUS
  <2>2. party' = [party EXCEPT ![a] = r]
    BY <1>2, <1>3, <1>8, <2>1 DEF Group!Forgotten
  <2>3. r \in PartyRecord /\ SamePeople(q, r) /\ Fresh(r, place)
    BY <1>1, <1>4, <2>1, TickForgotten
  <2> QED BY <1>1, <1>3, <1>4, <2>2, <2>3, TouchedKeeps
<1> QED BY <1>5, <1>6, <1>7, <1>8

(* A player who moves tells his own party; the others do not have him.     *)
LEMMA MoveKeeps ==
  ASSUME GroupInv, NEW p \in partyOnline, Group!OnCreatureMove(p)
  PROVE  GroupInv'
<1>1. PICK to \in Places : place' = [place EXCEPT ![p] = to]
  BY DEF Group!OnCreatureMove
<1>2. p \in Friends /\ UNCHANGED <<partyOnline, partyOf, invitedTo>>
  BY DEF GroupInv, Links, Group!OnCreatureMove
<1>3. place' = [x \in Friends |-> place'[x]] /\ \A x \in Friends \ {p} : place'[x] = place[x]
  BY <1>1, <1>2 DEF GroupInv
<1>4. ASSUME NEW a \in DOMAIN party, a # partyOf[p]
      PROVE  Fresh(party[a], place')
  <2>1. \A x \in Group!Company(party[a]) : x \in Friends \ {p}
    BY <1>4 DEF GroupInv, Links
  <2>2. Fresh(party[a], place)
    BY DEF GroupInv, AllFresh
  <2>3. \A x \in Group!Company(party[a]) : place'[x] = place[x]
    BY <1>3, <2>1
  <2>4. PICK w : w = place'
    OBVIOUS
  <2> QED BY <2>2, <2>3, <2>4, FreshElsewhere
<1>5. CASE partyOf[p] = NoParty
  <2>1. party' = party
    BY <1>5 DEF Group!OnCreatureMove
  <2>2. NoParty \notin DOMAIN party
    BY PartiesAssumption DEF GroupInv, Links
  <2>3. AllFresh(party, place')
    BY <1>4, <1>5, <2>2 DEF AllFresh
  <2> QED BY <1>2, <1>3, <2>1, <2>3 DEF GroupInv
<1>6. CASE partyOf[p] # NoParty
  <2>1. PICK a : a = partyOf[p]
    OBVIOUS
  <2>2. PICK q : q = party[a]
    OBVIOUS
  <2>3. PICK w : w = place'
    OBVIOUS
  <2>4. PICK r : r = Group!UpdateSharedExperience(q, w)
    OBVIOUS
  <2>5. a \in DOMAIN party /\ q \in PartyRecord
    BY <1>2, <1>6, <2>1, <2>2, PartyOfOK
  <2>6. r \in PartyRecord /\ SamePeople(q, r) /\ Fresh(r, w)
    BY <2>4, <2>5, Updated
  <2>7. party' = [party EXCEPT ![a] = r]
    BY <1>6, <2>1, <2>2, <2>3, <2>4 DEF Group!OnCreatureMove
  <2>9. Links(party', partyOf, invitedTo, partyOnline)
    BY <2>2, <2>5, <2>6, <2>7, PeopleKept DEF GroupInv
  <2>10. AllFresh(party', w)
    BY <1>4, <2>1, <2>3, <2>5, <2>6, <2>7 DEF AllFresh, GroupInv, Links
  <2> QED BY <1>2, <1>3, <2>3, <2>9, <2>10 DEF GroupInv
<1> QED BY <1>5, <1>6

LEMMA LoginKeeps ==
  ASSUME GroupInv, NEW p \in Friends, Group!Login(p)
  PROVE  GroupInv'
<1>1. PICK to \in Places : place' = [place EXCEPT ![p] = to]
  BY DEF Group!Login
<1>2. p \notin partyOnline /\ partyOnline' = partyOnline \cup {p}
      /\ UNCHANGED <<party, partyOf, invitedTo>>
  BY DEF Group!Login
<1>3. place' = [x \in Friends |-> place'[x]] /\ \A x \in Friends \ {p} : place'[x] = place[x]
  BY <1>1 DEF GroupInv
<1>4. ASSUME NEW a \in DOMAIN party
      PROVE  Fresh(party[a], place')
  <2>1. \A x \in Group!Company(party[a]) : x \in Friends \ {p}
    BY <1>2 DEF GroupInv, Links
  <2>2. Fresh(party[a], place)
    BY DEF GroupInv, AllFresh
  <2>3. \A x \in Group!Company(party[a]) : place'[x] = place[x]
    BY <1>3, <2>1
  <2>4. PICK w : w = place'
    OBVIOUS
  <2> QED BY <2>2, <2>3, <2>4, FreshElsewhere
<1>5. Links(party, partyOf, invitedTo, partyOnline')
  BY <1>2 DEF GroupInv, Links
<1> QED BY <1>2, <1>3, <1>4, <1>5 DEF GroupInv, AllFresh

(* Whoever leaves the game has left his party and every list of guests.    *)
LEMMA Forgets ==
  ASSUME NEW pa, NEW of, NEW to, NEW who, Links(pa, of, to, who), NEW p \in Friends,
         of[p] = NoParty, to[p] = {}
  PROVE  Links(pa, of, to, who \ {p})
<1>1. NoParty \notin Addresses
  BY PartiesAssumption
<1>2. ASSUME NEW a \in DOMAIN pa
      PROVE  Group!Company(pa[a]) \cup pa[a].invites \subseteq who \ {p}
  <2>1. a # NoParty
    BY <1>1 DEF Links
  <2> QED BY <2>1 DEF Links
<1> QED BY <1>2 DEF Links

LEMMA LogoutKeeps ==
  ASSUME GroupInv, NEW p \in partyOnline, Group!Logout(p)
  PROVE  GroupInv'
<1>1. p \in Friends /\ partyOnline' = partyOnline \ {p} /\ place' = place
  BY DEF GroupInv, Links, Group!Logout
<1>2. PICK alone : alone = Group!ClearPartyInvitations(Group!State, p)
  OBVIOUS
<1>3. /\ Links(alone.party, alone.partyOf, alone.invitedTo, partyOnline)
      /\ AllFresh(alone.party, place) /\ alone.invitedTo[p] = {}
  BY <1>1, <1>2, StateIs, InvitationsCleared DEF GroupInv
<1>4. IsState(alone, alone.party, alone.partyOf, alone.invitedTo)
  BY <1>2 DEF IsState, Group!ClearPartyInvitations
<1>5. PICK t : t = IF alone.partyOf[p] = NoParty THEN alone
                   ELSE Group!LeaveParty(alone, alone.partyOf[p], p)
  OBVIOUS
<1>6. Group!Become(t)
  BY <1>2, <1>5 DEF Group!Logout
<1>7. /\ Links(t.party, t.partyOf, t.invitedTo, partyOnline) /\ AllFresh(t.party, place)
      /\ t.partyOf[p] = NoParty /\ t.invitedTo[p] = {}
  <2>1. CASE alone.partyOf[p] = NoParty
    BY <1>3, <1>5, <2>1
  <2>2. CASE alone.partyOf[p] # NoParty
    <3>1. t = Group!LeaveParty(alone, alone.partyOf[p], p)
      BY <1>5, <2>2
    <3>2. /\ Links(t.party, t.partyOf, t.invitedTo, partyOnline)
          /\ AllFresh(t.party, place)
          /\ t.partyOf[p] = NoParty
          /\ t.invitedTo[p] \subseteq alone.invitedTo[p]
      BY <1>1, <1>3, <1>4, <2>2, <3>1, LeaveOK
    <3> QED BY <1>3, <3>2
  <2> QED BY <2>1, <2>2
<1>8. Links(t.party, t.partyOf, t.invitedTo, partyOnline \ {p})
  BY <1>1, <1>7, Forgets
<1>9. party' = t.party /\ partyOf' = t.partyOf /\ invitedTo' = t.invitedTo
  BY <1>6 DEF Group!Become
<1>10. Links(party', partyOf', invitedTo', partyOnline')
  BY <1>1, <1>8, <1>9
<1>11. AllFresh(party', place')
  BY <1>1, <1>7, <1>9
<1> QED BY <1>1, <1>10, <1>11 DEF GroupInv

LEMMA GroupStep ==
  ASSUME GroupInv, Group!Next
  PROVE  GroupInv'
<1>1. ASSUME NEW p \in Friends, Group!Login(p)
      PROVE  GroupInv'
  BY <1>1, LoginKeeps
<1>2. ASSUME NEW p \in partyOnline, NEW other \in partyOnline,
             \/ Group!PlayerInviteToParty(p, other)
             \/ Group!PlayerJoinParty(p, other)
             \/ Group!PlayerRevokePartyInvitation(p, other)
             \/ Group!PlayerPassPartyLeadership(p, other)
      PROVE  GroupInv'
  BY <1>2, InviteKeeps, JoinKeeps, RevokeKeeps, PassKeeps
<1>3. ASSUME NEW p \in partyOnline,
             \/ \E on \in BOOLEAN : Group!PlayerEnableSharedPartyExperience(p, on)
             \/ Group!Act(p) \/ Group!OnIdleStatus(p) \/ Group!Forgotten(p)
      PROVE  GroupInv'
  BY <1>3, SharingKeeps
<1>4. ASSUME NEW p \in partyOnline,
             Group!PlayerLeaveParty(p) \/ Group!OnCreatureMove(p) \/ Group!Logout(p)
      PROVE  GroupInv'
  BY <1>4, LeaveKeeps, MoveKeeps, LogoutKeeps
<1> QED
  BY <1>1, <1>2, <1>3, <1>4 DEF Group!Next

LEMMA GroupAgrees == GroupInv => Group!PartiesAgree
<1> SUFFICES ASSUME GroupInv PROVE Group!PartiesAgree
  OBVIOUS
<1>1. Group!MembersAgree
  <2>1. ASSUME NEW p \in Friends, partyOf[p] # NoParty
        PROVE  partyOf[p] \in DOMAIN party /\ p \in Group!Company(party[partyOf[p]])
    BY <2>1, PartyOfOK
  <2>2. \A p \in Friends : invitedTo[p] \subseteq DOMAIN party
    BY DEF GroupInv, Links
  <2>3. ASSUME NEW a \in DOMAIN party
        PROVE  LET q == party[a]
               IN  /\ Group!Company(q) \cup q.invites \subseteq partyOnline
                   /\ Group!IsInjective(<<q.leader>> \o q.members)
                   /\ \A p \in Group!Company(q) : partyOf[p] = a
                   /\ q.invites = {p \in Friends : a \in invitedTo[p]}
                   /\ q.invites \cap Group!Company(q) = {}
                   /\ ~Group!Empty(q)
    <3>1. PICK q : q = party[a]
      OBVIOUS
    <3>2. /\ q \in PartyRecord /\ Distinct(q)
          /\ Group!Company(q) \cup q.invites \subseteq partyOnline
          /\ \A p \in Group!Company(q) : partyOf[p] = a
          /\ q.invites = {p \in Friends : a \in invitedTo[p]}
          /\ q.invites \cap Group!Company(q) = {}
          /\ ~Group!Empty(q)
      BY <3>1 DEF GroupInv, Links
    <3>3. PICK s : s = <<q.leader>> \o q.members
      OBVIOUS
    <3>4. OnceEach(s)
      BY <3>2, <3>3, PlayerInFront DEF PartyRecord, Distinct
    <3>5. Group!IsInjective(s)
      BY <3>4 DEF OnceEach, Group!IsInjective
    <3> QED BY <3>1, <3>2, <3>3, <3>5
  <2> QED BY <2>1, <2>2, <2>3 DEF Group!MembersAgree
<1>2. Group!SharedFresh
  BY DEF GroupInv, AllFresh, Fresh, Group!SharedFresh
<1> QED BY <1>1, <1>2 DEF Group!PartiesAgree

(* The raw pointers of players and parties agree through every order of    *)
(* invitations, departures, hand-overs and logouts, with addresses that    *)
(* are allocated again; no party is kept for its leader alone; and shared  *)
(* experience in force is that of the party as it is (Party::leaveParty,   *)
(* disband, removeInvite, updateSharedExperience,                          *)
(* Player::clearPartyInvitations and onRemoveCreature).                    *)
THEOREM PartiesStayInStep == AnySpec => []PartiesAgree
<1> DEFINE Kept == part = "parties" => GroupInv
<1>1. AnyInit => Kept
  BY GroupInit DEF AnyInit
<1>2. Kept /\ [AnyNext]_<<vars, part, partiesVars, chatVars, scriptsVars, registriesVars>> => Kept'
  <2> SUFFICES ASSUME Kept, part' = "parties",
                      [AnyNext]_<<vars, part, partiesVars, chatVars, scriptsVars, registriesVars>>
               PROVE  GroupInv'
    OBVIOUS
  <2>1. CASE Group!Next /\ part = "parties"
    BY <2>1, GroupStep
  <2>2. CASE UNCHANGED <<part, partiesVars>>
    <3>1. GroupInv
      BY <2>2
    <3>2. UNCHANGED <<partyOnline, place, party, partyOf, invitedTo>>
      BY <2>2 DEF partiesVars
    <3> QED BY <3>1, <3>2 DEF GroupInv
  <2> QED BY <2>1, <2>2 DEF AnyNext
<1>3. Kept => PartiesAgree
  BY GroupAgrees DEF PartiesAgree
<1> QED
  BY <1>1, <1>2, <1>3, PTL DEF AnySpec

-----------------------------------------------------------------------------
(* The login queue: one list.                                              *)

(* The players in the list are of S, and each waits once.                  *)
Waiting(s, S) ==
  /\ s \in Seq(Wait)
  /\ \A i \in DOMAIN s : s[i].playerGUID \in S
  /\ \A i, j \in DOMAIN s : s[i].playerGUID = s[j].playerGUID => i = j

(* t has the players of s in their order, f says from where; some may be   *)
(* left out.                                                               *)
Thinned(s, t, f) ==
  /\ f \in [DOMAIN t -> DOMAIN s]
  /\ \A i, j \in DOMAIN t : i < j => f[i] < f[j]
  /\ \A i \in DOMAIN t : t[i].playerGUID = s[f[i]].playerGUID

LEMMA ThinnedWaiting ==
  ASSUME NEW S, NEW s, Waiting(s, S), NEW t \in Seq(Wait), NEW f, Thinned(s, t, f)
  PROVE  Waiting(t, S)
<1>1. \A i \in DOMAIN t : i \in Nat /\ f[i] \in DOMAIN s
  BY DEF Thinned
<1>2. \A i, j \in DOMAIN t : t[i].playerGUID = t[j].playerGUID => i = j
  <2> SUFFICES ASSUME NEW i \in DOMAIN t, NEW j \in DOMAIN t,
                      t[i].playerGUID = t[j].playerGUID
               PROVE  i = j
    OBVIOUS
  <2>1. f[i] = f[j]
    BY <1>1 DEF Thinned, Waiting
  <2>2. f[i] \in Nat
    BY <1>1 DEF Waiting
  <2> QED BY <1>1, <2>1, <2>2 DEF Thinned
<1> QED BY <1>1, <1>2 DEF Waiting, Thinned

(* Nobody is moved back.                                                   *)
LEMMA ThinnedForward ==
  ASSUME NEW s \in Seq(Wait), NEW t \in Seq(Wait), NEW f, Thinned(s, t, f)
  PROVE  \A i \in DOMAIN t : i <= f[i]
<1> DEFINE S == {n \in Nat : n \in DOMAIN t => n <= f[n]}
<1>1. 0 \in S
  OBVIOUS
<1>2. \A n \in Nat : n \in S => n + 1 \in S
  <2> SUFFICES ASSUME NEW n \in Nat, n \in S, n + 1 \in DOMAIN t
               PROVE  n + 1 <= f[n + 1]
    OBVIOUS
  <2>1. f[n + 1] \in Nat /\ f[n + 1] >= 1
    BY DEF Thinned
  <2>2. CASE n = 0
    BY <2>1, <2>2
  <2>3. CASE n # 0
    <3>1. n \in DOMAIN t
      BY <2>3
    <3>2. f[n] \in Nat /\ n <= f[n] /\ f[n] < f[n + 1]
      BY <3>1 DEF Thinned
    <3> QED BY <2>1, <3>2
  <2> QED BY <2>2, <2>3
<1> HIDE DEF S
<1>3. Nat \subseteq S
  BY <1>1, <1>2, Induction
<1> QED BY <1>3 DEF S

(* What cleanupList leaves has whatever does not expire.                   *)
LEMMA CleanedThins ==
  ASSUME NEW s \in Seq(Wait), NEW t \in Cleaned(s)
  PROVE  /\ t \in Seq(Wait)
         /\ \E f : /\ Thinned(s, t, f)
                   /\ \A i \in DOMAIN s : ~Expires(s[i]) => \E j \in DOMAIN t : f[j] = i
<1>0. PICK f \in Remaining(s) : t = [i \in DOMAIN f |-> s[f[i]]]
  <2>1. CASE t = s
    <3>1. PICK f : f = [i \in DOMAIN s |-> i]
      OBVIOUS
    <3>2. /\ f \in [1 .. Len(s) -> DOMAIN s]
          /\ \A i, j \in DOMAIN f : i < j => f[i] < f[j]
          /\ \A i \in DOMAIN s : i \in DOMAIN f /\ f[i] = i
      BY <3>1
    <3>3. f \in Remaining(s)
      BY <3>2 DEF Remaining
    <3>4. t = [i \in DOMAIN f |-> s[f[i]]]
      BY <2>1, <3>1
    <3> QED BY <3>3, <3>4
  <2>2. CASE t # s
    BY <2>2 DEF Cleaned
  <2> QED BY <2>1, <2>2
<1>1. PICK n \in 0 .. Len(s) :
        /\ f \in [1 .. n -> DOMAIN s]
        /\ \A i, j \in DOMAIN f : i < j => f[i] < f[j]
        /\ {i \in DOMAIN s : ~Expires(s[i])} \subseteq {f[i] : i \in DOMAIN f}
  BY DEF Remaining
<1>2. DOMAIN f = 1 .. n /\ n \in Nat
  BY <1>1
<1>3. t = [i \in 1 .. n |-> s[f[i]]] /\ DOMAIN t = 1 .. n
  BY <1>0, <1>1, <1>2
<1>4. t \in Seq(Wait)
  <2>1. \A i \in 1 .. n : s[f[i]] \in Wait
    BY <1>1
  <2> QED BY <1>2, <1>3, <2>1
<1>5. Thinned(s, t, f)
  BY <1>1, <1>2, <1>3 DEF Thinned
<1>6. \A i \in DOMAIN s : ~Expires(s[i]) => \E j \in DOMAIN t : f[j] = i
  BY <1>1, <1>2, <1>3
<1> QED BY <1>4, <1>5, <1>6

LEMMA RemovedAt ==
  ASSUME NEW s \in Seq(Wait), NEW i \in DOMAIN s, NEW t, t = RemoveAt(s, i)
  PROVE  /\ t \in Seq(Wait)
         /\ Len(t) = Len(s) - 1
         /\ \A j \in DOMAIN t : t[j] = IF j < i THEN s[j] ELSE s[j + 1]
<1>1. PICK a : a = SubSeq(s, 1, i - 1)
  OBVIOUS
<1>2. PICK b : b = SubSeq(s, i + 1, Len(s))
  OBVIOUS
<1>3. /\ a \in Seq(Wait) /\ Len(a) = i - 1 /\ \A j \in 1 .. i - 1 : a[j] = s[j]
  BY <1>1
<1>4. /\ b \in Seq(Wait) /\ Len(b) = Len(s) - i
      /\ \A j \in 1 .. Len(s) - i : b[j] = s[i + j]
  BY <1>2
<1>5. t = a \o b
  BY <1>1, <1>2 DEF RemoveAt
<1> QED BY <1>3, <1>4, <1>5

LEMMA RemovedThins ==
  ASSUME NEW s \in Seq(Wait), NEW i \in DOMAIN s, NEW t, t = RemoveAt(s, i)
  PROVE  Thinned(s, t, [j \in DOMAIN t |-> IF j < i THEN j ELSE j + 1])
<1>1. /\ t \in Seq(Wait)
      /\ Len(t) = Len(s) - 1
      /\ \A j \in DOMAIN t : t[j] = IF j < i THEN s[j] ELSE s[j + 1]
  BY RemovedAt
<1>2. DOMAIN t = 1 .. Len(s) - 1
  BY <1>1
<1> QED BY <1>1, <1>2 DEF Thinned

LEMMA RenewedSame ==
  ASSUME NEW s \in Seq(Wait), NEW i \in DOMAIN s, NEW n \in Nat, NEW t, t = Renewed(s, i, n)
  PROVE  /\ t \in Seq(Wait) /\ Len(t) = Len(s)
         /\ \A j \in DOMAIN s : t[j].playerGUID = s[j].playerGUID
<1>1. PICK e : e = [s[i] EXCEPT !.timeout = n]
  OBVIOUS
<1>2. e \in Wait /\ e.playerGUID = s[i].playerGUID
  <2>1. PICK w : w = s[i]
    OBVIOUS
  <2>2. w \in Wait
    BY <2>1
  <2>3. e = [w EXCEPT !.timeout = n]
    BY <1>1, <2>1
  <2>4. e \in [timeout : Nat, playerGUID : Players] /\ e.playerGUID = w.playerGUID
    BY <2>2, <2>3 DEF Wait
  <2> QED BY <2>1, <2>4 DEF Wait
<1>3. t = [s EXCEPT ![i] = e]
  BY <1>1 DEF Renewed
<1> QED BY <1>2, <1>3

LEMMA RenewedWaits ==
  ASSUME NEW S, NEW s, Waiting(s, S), NEW i \in DOMAIN s, NEW n \in Nat
  PROVE  Waiting(Renewed(s, i, n), S)
<1>1. PICK t : t = Renewed(s, i, n)
  OBVIOUS
<1>2. /\ t \in Seq(Wait) /\ Len(t) = Len(s)
      /\ \A j \in DOMAIN s : t[j].playerGUID = s[j].playerGUID
  BY <1>1, RenewedSame DEF Waiting
<1>3. DOMAIN t = DOMAIN s
  BY <1>2 DEF Waiting
<1>4. Waiting(t, S)
  BY <1>2, <1>3 DEF Waiting
<1> QED BY <1>1, <1>4

LEMMA AppendedWaits ==
  ASSUME NEW S, NEW s, Waiting(s, S), NEW e \in Wait, e.playerGUID \in S,
         \A i \in DOMAIN s : s[i].playerGUID # e.playerGUID
  PROVE  Waiting(Append(s, e), S)
<1>1. PICK t : t = Append(s, e)
  OBVIOUS
<1>2. /\ t \in Seq(Wait) /\ Len(t) = Len(s) + 1 /\ t[Len(s) + 1] = e
      /\ \A i \in DOMAIN s : t[i] = s[i]
  BY <1>1 DEF Waiting
<1>3. \A i \in DOMAIN t : i \in DOMAIN s \/ i = Len(s) + 1
  BY <1>2 DEF Waiting
<1>4. Waiting(t, S)
  BY <1>2, <1>3 DEF Waiting
<1> QED BY <1>1, <1>4

-----------------------------------------------------------------------------
(* The two lists.                                                          *)

Ahead == Premium \ (online \cup AlwaysLogin)
Behind == Players \ (Premium \cup online \cup AlwaysLogin)

(* Who waits has one place, in the list he belongs to; without a limit     *)
(* nobody waits.                                                           *)
QueueInv ==
  /\ TypeOK
  /\ IsFiniteSet(online)
  /\ Waiting(priorityWaitList, Ahead)
  /\ Waiting(waitList, Behind)
  /\ MaxPlayers = 0 => priorityWaitList = <<>> /\ waitList = <<>>

(* n is the place of p in the two lists, 0 for none.                       *)
PlaceIs(p, s, t, n) ==
  /\ n \in Nat
  /\ \A i \in DOMAIN s : s[i].playerGUID = p => n = i
  /\ \A i \in DOMAIN t : t[i].playerGUID = p => n = Len(s) + i
  /\ \/ n = 0
     \/ n \in DOMAIN s /\ s[n].playerGUID = p
     \/ /\ n > Len(s) /\ n - Len(s) \in DOMAIN t
        /\ t[n - Len(s)].playerGUID = p

Apart(s, A, t, B) == A \cap B = {} /\ Waiting(s, A) /\ Waiting(t, B)

(* The places of all, which is s and then t.                               *)
Joins(all, s, t) ==
  /\ DOMAIN s = 1 .. Len(s) /\ DOMAIN t = 1 .. Len(t)
  /\ Len(s) \in Nat /\ Len(t) \in Nat
  /\ DOMAIN all = 1 .. Len(s) + Len(t)
  /\ \A i \in DOMAIN s : all[i] = s[i]
  /\ \A i \in DOMAIN t : all[Len(s) + i] = t[i]
  /\ \A i \in DOMAIN all :
       i \notin DOMAIN s => /\ i > Len(s) /\ i - Len(s) \in DOMAIN t
                           /\ all[i] = t[i - Len(s)]
  /\ \A i, j \in DOMAIN all : all[i].playerGUID = all[j].playerGUID => i = j

LEMMA Joined ==
  ASSUME NEW A, NEW B, NEW prio, NEW wait, Apart(prio, A, wait, B)
  PROVE  Joins(prio \o wait, prio, wait)
<1>1. PICK all : all = prio \o wait
  OBVIOUS
<1>2. /\ prio \in Seq(Wait) /\ wait \in Seq(Wait)
      /\ DOMAIN prio = 1 .. Len(prio) /\ DOMAIN wait = 1 .. Len(wait)
      /\ Len(prio) \in Nat /\ Len(wait) \in Nat
      /\ Waiting(prio, A) /\ Waiting(wait, B) /\ A \cap B = {}
  BY DEF Waiting, Apart
<1>3. /\ DOMAIN all = 1 .. Len(prio) + Len(wait)
      /\ \A i \in DOMAIN prio : all[i] = prio[i]
      /\ \A i \in DOMAIN wait : all[Len(prio) + i] = wait[i]
  BY <1>1, <1>2
<1>4. \A i \in DOMAIN all :
        i \notin DOMAIN prio => /\ i > Len(prio) /\ i - Len(prio) \in DOMAIN wait
                               /\ all[i] = wait[i - Len(prio)]
  <2> SUFFICES ASSUME NEW i \in DOMAIN all, i \notin DOMAIN prio
               PROVE  i > Len(prio) /\ i - Len(prio) \in DOMAIN wait
                      /\ all[i] = wait[i - Len(prio)]
    OBVIOUS
  <2>1. i > Len(prio) /\ i - Len(prio) \in DOMAIN wait /\ Len(prio) + (i - Len(prio)) = i
    BY <1>2, <1>3
  <2> QED BY <1>3, <2>1
<1>5. \A i, j \in DOMAIN all : all[i].playerGUID = all[j].playerGUID => i = j
  <2> SUFFICES ASSUME NEW i \in DOMAIN all, NEW j \in DOMAIN all,
                      all[i].playerGUID = all[j].playerGUID
               PROVE  i = j
    OBVIOUS
  <2>1. CASE i \in DOMAIN prio /\ j \in DOMAIN prio
    BY <1>2, <1>3, <2>1 DEF Waiting
  <2>2. CASE i \in DOMAIN prio /\ j \notin DOMAIN prio
    BY <1>2, <1>3, <1>4, <2>2 DEF Waiting
  <2>3. CASE i \notin DOMAIN prio /\ j \in DOMAIN prio
    BY <1>2, <1>3, <1>4, <2>3 DEF Waiting
  <2>4. CASE i \notin DOMAIN prio /\ j \notin DOMAIN prio
    <3>1. i - Len(prio) = j - Len(prio)
      BY <1>2, <1>4, <2>4 DEF Waiting
    <3> QED BY <1>2, <1>3, <3>1
  <2> QED BY <2>1, <2>2, <2>3, <2>4
<1> QED BY <1>1, <1>2, <1>3, <1>4, <1>5 DEF Joins

(* FindClient finds the only place of a player.                            *)
LEMMA SlotIs ==
  ASSUME NEW A, NEW B, NEW prio, NEW wait, Apart(prio, A, wait, B), NEW p
  PROVE  PlaceIs(p, prio, wait, FindClient(p, prio, wait))
<1>0. PICK n : n = FindClient(p, prio, wait)
  OBVIOUS
<1>1. PICK all : all = prio \o wait
  OBVIOUS
<1>joins. Joins(all, prio, wait)
  BY <1>1, Joined
<1>2. /\ DOMAIN prio = 1 .. Len(prio) /\ DOMAIN wait = 1 .. Len(wait)
      /\ Len(prio) \in Nat /\ Len(wait) \in Nat
  BY <1>1, <1>joins DEF Joins
<1>3. /\ DOMAIN all = 1 .. Len(prio) + Len(wait)
      /\ \A i \in DOMAIN prio : all[i] = prio[i]
      /\ \A i \in DOMAIN wait : all[Len(prio) + i] = wait[i]
  BY <1>1, <1>joins DEF Joins
<1>4. \A i \in DOMAIN all :
        i \notin DOMAIN prio => /\ i > Len(prio) /\ i - Len(prio) \in DOMAIN wait
                               /\ all[i] = wait[i - Len(prio)]
  BY <1>1, <1>joins DEF Joins
<1>5. \A i, j \in DOMAIN all : all[i].playerGUID = all[j].playerGUID => i = j
  BY <1>1, <1>joins DEF Joins
<1>6. PICK places : places = {i \in DOMAIN all : all[i].playerGUID = p}
  OBVIOUS
<1>7. n = IF places = {} THEN 0 ELSE CHOOSE i \in places : \A j \in places : i <= j
  BY <1>0, <1>1, <1>6 DEF FindClient
<1>8. \A i \in places : n = i
  <2> SUFFICES ASSUME NEW i \in places PROVE n = i
    OBVIOUS
  <2>1. \A j \in places : j = i /\ i <= j
    BY <1>3, <1>5, <1>6
  <2> QED BY <1>7, <2>1
<1>9. n = 0 \/ n \in places
  BY <1>7, <1>8
<1>10. \A i \in DOMAIN prio : i \in DOMAIN all
  BY <1>2, <1>3
<1>11. \A i \in DOMAIN wait : Len(prio) + i \in DOMAIN all
  BY <1>2, <1>3
<1>12. n \in Nat
  BY <1>2, <1>3, <1>6, <1>9
<1>13. \A i \in DOMAIN prio : prio[i].playerGUID = p => n = i
  BY <1>3, <1>6, <1>8, <1>10
<1>14. \A i \in DOMAIN wait : wait[i].playerGUID = p => n = Len(prio) + i
  BY <1>3, <1>6, <1>8, <1>11
<1>15. n # 0 => \/ n \in DOMAIN prio /\ prio[n].playerGUID = p
                \/ /\ n > Len(prio) /\ n - Len(prio) \in DOMAIN wait
                   /\ wait[n - Len(prio)].playerGUID = p
  BY <1>3, <1>4, <1>6, <1>9
<1> QED BY <1>0, <1>12, <1>13, <1>14, <1>15 DEF PlaceIs

LEMMA QueueInit == Init => QueueInv
<1> SUFFICES ASSUME Init PROVE QueueInv
  OBVIOUS
<1>1. TypeOK
  BY WaitListAssumption DEF Init, TypeOK, Size
<1>2. IsFiniteSet(online)
  BY FS_EmptySet DEF Init
<1> QED BY <1>1, <1>2 DEF Init, QueueInv, Waiting

LEMMA OnlineGrows ==
  ASSUME QueueInv, NEW p \in Players, Admitted(p)
  PROVE  /\ online' \subseteq Players /\ IsFiniteSet(online')
         /\ online \subseteq online' /\ online' \subseteq online \cup {p}
         /\ Cardinality(online) \in Nat /\ Cardinality(online') \in Nat
         /\ p \notin online => Cardinality(online') <= Cardinality(online) + 1
<1>1. IsFiniteSet(online) /\ Cardinality(online) \in Nat
  BY FS_CardinalityType DEF QueueInv
<1>2. CASE online' = online
  BY <1>1, <1>2 DEF QueueInv, TypeOK
<1>3. CASE online' = online \cup {p}
  <2>1. PICK on : on = online \cup {p}
    OBVIOUS
  <2>2. IsFiniteSet(on) /\ Cardinality(on) = IF p \in online THEN Cardinality(online)
                                            ELSE Cardinality(online) + 1
    BY <1>1, <2>1, FS_AddElement
  <2>3. online' = on
    BY <1>3, <2>1
  <2> QED BY <1>1, <2>1, <2>2, <2>3 DEF QueueInv, TypeOK
<1> QED BY <1>2, <1>3 DEF Admitted

(* The six ends of a login that looks at the lists: a player is let in from*)
(* one of the lists, waits on in one of them, or gets a place in one.      *)
Entered(p, prio, wait) ==
  \E i \in DOMAIN prio :
    /\ prio[i].playerGUID = p
    /\ Cardinality(online) + i <= MaxPlayers
    /\ priorityWaitList' = RemoveAt(prio, i) /\ waitList' = wait
    /\ Admitted(p)

EnteredBehind(p, prio, wait) ==
  \E i \in DOMAIN wait :
    /\ wait[i].playerGUID = p
    /\ Cardinality(online) + Len(prio) + i <= MaxPlayers
    /\ priorityWaitList' = prio /\ waitList' = RemoveAt(wait, i)
    /\ Admitted(p)

WaitsOn(prio, wait) ==
  /\ \/ /\ \E i \in DOMAIN prio, n \in Nat : priorityWaitList' = Renewed(prio, i, n)
        /\ waitList' = wait
     \/ /\ priorityWaitList' = prio
        /\ \E i \in DOMAIN wait, n \in Nat : waitList' = Renewed(wait, i, n)
  /\ online' = online

Enlisted(p, prio, wait) ==
  /\ \A i \in DOMAIN prio : prio[i].playerGUID # p
  /\ \A i \in DOMAIN wait : wait[i].playerGUID # p
  /\ \E e \in Wait :
       /\ e.playerGUID = p
       /\ \/ p \in Premium /\ priorityWaitList' = Append(prio, e) /\ waitList' = wait
          \/ p \notin Premium /\ priorityWaitList' = prio /\ waitList' = Append(wait, e)
  /\ online' = online

LEMMA TimeoutType ==
  \A n \in Nat : getTimeout(n) \in Nat
BY DEF getTimeout, getTime

LEMMA SizeType ==
  ASSUME NEW a \in Size, NEW n \in Int
  PROVE  Minus(a, n) \in Size /\ Plus(a, n) \in Size /\ Plus(a, n) \in Nat
BY WaitListAssumption DEF Size, Minus, Plus

LEMMA Disjoint == Ahead \cap Behind = {}
BY DEF Ahead, Behind

LEMMA QueuedEnds ==
  ASSUME QueueInv, NEW p \in Players, p \notin AlwaysLogin,
         NEW prio, Waiting(prio, Ahead), NEW wait, Waiting(wait, Behind),
         LoginQueued(p, prio, wait)
  PROVE  /\ \/ Entered(p, prio, wait)
            \/ EnteredBehind(p, prio, wait)
            \/ WaitsOn(prio, wait)
            \/ Enlisted(p, prio, wait)
         /\ prioritySize' \in Size /\ waitSize' \in Size
<1>1. PICK psize : psize = Minus(prioritySize, Len(priorityWaitList) - Len(prio))
  OBVIOUS
<1>2. PICK wsize : wsize = Minus(waitSize, Len(waitList) - Len(wait))
  OBVIOUS
<1>3. PICK slot : slot = FindClient(p, prio, wait)
  OBVIOUS
<1>4. psize \in Size /\ wsize \in Size
  <2>1. /\ prioritySize \in Size /\ waitSize \in Size
        /\ Len(priorityWaitList) - Len(prio) \in Int /\ Len(waitList) - Len(wait) \in Int
    BY DEF QueueInv, TypeOK, Waiting
  <2> QED BY <1>1, <1>2, <2>1, SizeType
<1>5. /\ slot \in Nat
      /\ \A i \in DOMAIN prio : prio[i].playerGUID = p => slot = i
      /\ \A i \in DOMAIN wait : wait[i].playerGUID = p => slot = Len(prio) + i
      /\ \/ slot = 0
         \/ slot \in DOMAIN prio /\ prio[slot].playerGUID = p
         \/ /\ slot > Len(prio) /\ slot - Len(prio) \in DOMAIN wait
            /\ wait[slot - Len(prio)].playerGUID = p
  <2>1. PICK A : A = Ahead
    OBVIOUS
  <2>2. PICK B : B = Behind
    OBVIOUS
  <2>3. Apart(prio, A, wait, B)
    BY <2>1, <2>2, Disjoint DEF Apart
  <2>4. PlaceIs(p, prio, wait, slot)
    BY <1>3, <2>3, SlotIs
  <2> QED BY <2>4 DEF PlaceIs
<1>6. /\ Len(prio) \in Nat /\ Len(wait) \in Nat /\ Cardinality(online) \in Nat
      /\ DOMAIN prio = 1 .. Len(prio) /\ DOMAIN wait = 1 .. Len(wait) /\ now \in Nat
  BY FS_CardinalityType DEF QueueInv, TypeOK, Waiting
<1>7. now + getTimeout(slot) \in Nat
  <2>1. getTimeout(slot) \in Nat
    BY <1>5, TimeoutType
  <2> QED BY <1>6, <2>1
<1>8. CASE /\ slot # 0
           /\ Cardinality(online) + slot <= MaxPlayers
           /\ EraseAt(slot, prio, wait, wsize)
           /\ prioritySize' = psize
           /\ Admitted(p)
  <2>1. waitSize' \in Size
    BY <1>4, <1>8, SizeType DEF EraseAt
  <2>2. CASE slot <= Len(prio)
    <3>1. Entered(p, prio, wait)
      BY <1>5, <1>6, <1>8, <2>2 DEF EraseAt, Entered
    <3> QED BY <1>4, <1>8, <2>1, <3>1
  <2>3. CASE ~(slot <= Len(prio))
    <3>1. PICK i \in DOMAIN wait : slot = Len(prio) + i /\ wait[i].playerGUID = p
                                  /\ i = slot - Len(prio)
      BY <1>5, <1>6, <1>8, <2>3
    <3>2. EnteredBehind(p, prio, wait)
      BY <1>6, <1>8, <2>3, <3>1 DEF EraseAt, EnteredBehind
    <3> QED BY <1>4, <1>8, <2>1, <3>2
  <2> QED BY <2>2, <2>3
<1>9. CASE /\ slot # 0
           /\ IF slot <= Len(prio)
              THEN /\ priorityWaitList' = Renewed(prio, slot, now + getTimeout(slot))
                   /\ waitList' = wait
              ELSE /\ priorityWaitList' = prio
                   /\ waitList' = Renewed(wait, slot - Len(prio), now + getTimeout(slot))
           /\ prioritySize' = psize
           /\ waitSize' = wsize
           /\ online' = online
  <2>1. WaitsOn(prio, wait)
    <3>1. CASE slot <= Len(prio)
      BY <1>5, <1>6, <1>7, <1>9, <3>1 DEF WaitsOn
    <3>2. CASE ~(slot <= Len(prio))
      <4>1. slot - Len(prio) \in DOMAIN wait
        BY <1>5, <1>6, <1>9, <3>2
      <4> QED BY <1>7, <1>9, <3>2, <4>1 DEF WaitsOn
    <3> QED BY <3>1, <3>2
  <2> QED BY <1>4, <1>9, <2>1
<1>10. CASE /\ slot = 0
            /\ IF p \in Premium
               THEN /\ priorityWaitList' = Append(prio, NewEntry(p, Plus(psize, 1)))
                    /\ waitList' = wait
                    /\ prioritySize' = Plus(psize, 1)
                    /\ waitSize' = wsize
               ELSE /\ priorityWaitList' = prio
                    /\ waitList' =
                         Append(wait, NewEntry(p, Plus(Plus(psize, wsize), 1)))
                    /\ prioritySize' = psize
                    /\ waitSize' = Plus(wsize, 1)
            /\ online' = online
  <2>1. \A n \in Nat : NewEntry(p, n) \in Wait /\ NewEntry(p, n).playerGUID = p
    <3> SUFFICES ASSUME NEW n \in Nat
                 PROVE  NewEntry(p, n) \in Wait /\ NewEntry(p, n).playerGUID = p
      OBVIOUS
    <3>1. now + getTimeout(n) \in Nat
      <4>1. getTimeout(n) \in Nat
        BY TimeoutType
      <4> QED BY <1>6, <4>1
    <3> QED BY <3>1 DEF NewEntry, Wait
  <2>2. Plus(psize, 1) \in Size /\ Plus(psize, 1) \in Nat /\ Plus(wsize, 1) \in Size
    BY <1>4, SizeType
  <2>3. Plus(psize, wsize) \in Size
    BY <1>4, SizeType DEF Size
  <2>4. Plus(Plus(psize, wsize), 1) \in Nat
    BY <2>3, SizeType
  <2>5. Enlisted(p, prio, wait)
    <3>1. /\ \A i \in DOMAIN prio : prio[i].playerGUID # p
          /\ \A i \in DOMAIN wait : wait[i].playerGUID # p
      BY <1>5, <1>6, <1>10
    <3>2. CASE p \in Premium
      BY <1>10, <2>1, <2>2, <3>1, <3>2 DEF Enlisted
    <3>3. CASE p \notin Premium
      BY <1>10, <2>1, <2>4, <3>1, <3>3 DEF Enlisted
    <3> QED BY <3>2, <3>3
  <2> QED BY <1>4, <1>10, <2>2, <2>5
<1> QED BY <1>1, <1>2, <1>3, <1>8, <1>9, <1>10 DEF LoginQueued

LEMMA WaitingElsewhere ==
  ASSUME NEW S, NEW s, Waiting(s, S), NEW T, \A i \in DOMAIN s : s[i].playerGUID \in T
  PROVE  Waiting(s, T)
BY DEF Waiting

LEMMA RemovedWaits ==
  ASSUME NEW S, NEW s, Waiting(s, S), NEW i \in DOMAIN s, NEW t, t = RemoveAt(s, i)
  PROVE  Waiting(t, S \ {s[i].playerGUID})
<1>1. s \in Seq(Wait)
  BY DEF Waiting
<1>2. PICK f : f = [j \in DOMAIN t |-> IF j < i THEN j ELSE j + 1]
  OBVIOUS
<1>3. Thinned(s, t, f) /\ t \in Seq(Wait)
  BY <1>1, <1>2, RemovedThins, RemovedAt
<1>4. Waiting(t, S)
  BY <1>3, ThinnedWaiting
<1>5. \A j \in DOMAIN t : t[j].playerGUID # s[i].playerGUID
  <2> SUFFICES ASSUME NEW j \in DOMAIN t, t[j].playerGUID = s[i].playerGUID PROVE FALSE
    OBVIOUS
  <2>1. f[j] = i
    BY <1>3 DEF Thinned, Waiting
  <2>2. j \in Nat /\ i \in Nat
    BY <1>1, <1>3
  <2> QED BY <1>2, <2>1, <2>2
<1> QED BY <1>4, <1>5 DEF Waiting

(* The lists after a login, for the types of those who may wait.           *)
LEMMA EndsWait ==
  ASSUME QueueInv, NEW p \in Players, p \notin AlwaysLogin, p \notin online,
         NEW prio, Waiting(prio, Ahead), NEW wait, Waiting(wait, Behind),
         \/ Entered(p, prio, wait)
         \/ EnteredBehind(p, prio, wait)
         \/ WaitsOn(prio, wait)
         \/ Enlisted(p, prio, wait)
  PROVE  /\ Waiting(priorityWaitList', Ahead') /\ Waiting(waitList', Behind')
         /\ online' \subseteq Players /\ IsFiniteSet(online')
<1>1. PICK A : A = Ahead
  OBVIOUS
<1>2. PICK B : B = Behind
  OBVIOUS
<1>3. /\ A \cap B = {} /\ Waiting(prio, A) /\ Waiting(wait, B)
      /\ p \in Premium => p \in A /\ p \notin B
      /\ p \notin Premium => p \in B /\ p \notin A
  BY <1>1, <1>2 DEF Ahead, Behind
<1>4. CASE Admitted(p)
  <2>1. online' \subseteq Players /\ IsFiniteSet(online')
    BY <1>4, OnlineGrows
  <2>2. A \ {p} \subseteq Ahead' /\ B \ {p} \subseteq Behind'
    BY <1>1, <1>2, <1>4 DEF Ahead, Behind, Admitted
  <2>3. CASE Entered(p, prio, wait)
    <3>1. PICK i \in DOMAIN prio : /\ prio[i].playerGUID = p
                                  /\ priorityWaitList' = RemoveAt(prio, i)
                                  /\ waitList' = wait
      BY <2>3 DEF Entered
    <3>2. PICK t : t = RemoveAt(prio, i)
      OBVIOUS
    <3>3. Waiting(t, A \ {p})
      BY <1>3, <3>1, <3>2, RemovedWaits
    <3>4. Waiting(priorityWaitList', Ahead')
      BY <2>2, <3>1, <3>2, <3>3 DEF Waiting
    <3>5. p \notin B
      BY <1>3, <3>1 DEF Waiting
    <3>6. Waiting(waitList', Behind')
      BY <1>3, <2>2, <3>1, <3>5 DEF Waiting
    <3> QED BY <2>1, <3>4, <3>6
  <2>4. CASE EnteredBehind(p, prio, wait)
    <3>1. PICK i \in DOMAIN wait : /\ wait[i].playerGUID = p
                                  /\ waitList' = RemoveAt(wait, i)
                                  /\ priorityWaitList' = prio
      BY <2>4 DEF EnteredBehind
    <3>2. PICK t : t = RemoveAt(wait, i)
      OBVIOUS
    <3>3. Waiting(t, B \ {p})
      BY <1>3, <3>1, <3>2, RemovedWaits
    <3>4. Waiting(waitList', Behind')
      BY <2>2, <3>1, <3>2, <3>3 DEF Waiting
    <3>5. p \notin A
      BY <1>3, <3>1 DEF Waiting
    <3>6. Waiting(priorityWaitList', Ahead')
      BY <1>3, <2>2, <3>1, <3>5 DEF Waiting
    <3> QED BY <2>1, <3>4, <3>6
  <2>5. CASE online' = online
    <3>1. Ahead' = A /\ Behind' = B
      BY <1>1, <1>2, <2>5 DEF Ahead, Behind
    <3>2. CASE WaitsOn(prio, wait)
      BY <1>3, <2>1, <3>1, <3>2, RenewedWaits DEF WaitsOn
    <3>3. CASE Enlisted(p, prio, wait)
      BY <1>3, <2>1, <3>1, <3>3, AppendedWaits DEF Enlisted
    <3> QED BY <2>3, <2>4, <3>2, <3>3
  <2> QED BY <2>3, <2>4, <2>5 DEF WaitsOn, Enlisted
<1> QED BY <1>4 DEF Entered, EnteredBehind, WaitsOn, Enlisted, Admitted

(* A login that looks at the lists, with what the cleanups leave of them.  *)
LEMMA LoginEnds ==
  ASSUME QueueInv, NEW p, ClientLogin(p)
  PROVE  \E prio \in Seq(Wait), wait \in Seq(Wait) : \E f, g :
           /\ Waiting(prio, Ahead) /\ Waiting(wait, Behind)
           /\ Thinned(priorityWaitList, prio, f) /\ Thinned(waitList, wait, g)
           /\ \A i \in DOMAIN priorityWaitList :
                ~Expires(priorityWaitList[i]) => \E j \in DOMAIN prio : f[j] = i
           /\ LoginQueued(p, prio, wait)
<1>1. PICK prio \in Cleaned(priorityWaitList), wait \in Cleaned(waitList) :
        LoginQueued(p, prio, wait)
  BY DEF ClientLogin
<1>2. priorityWaitList \in Seq(Wait) /\ waitList \in Seq(Wait)
  BY DEF QueueInv, TypeOK
<1>3. /\ prio \in Seq(Wait)
      /\ \E f : /\ Thinned(priorityWaitList, prio, f)
                /\ \A i \in DOMAIN priorityWaitList :
                     ~Expires(priorityWaitList[i]) => \E j \in DOMAIN prio : f[j] = i
  BY <1>2, CleanedThins
<1>4. wait \in Seq(Wait) /\ \E g : Thinned(waitList, wait, g)
  BY <1>2, CleanedThins
<1>5. PICK f : /\ Thinned(priorityWaitList, prio, f)
               /\ \A i \in DOMAIN priorityWaitList :
                    ~Expires(priorityWaitList[i]) => \E j \in DOMAIN prio : f[j] = i
  BY <1>3
<1>6. PICK g : Thinned(waitList, wait, g)
  BY <1>4
<1>7. Waiting(prio, Ahead) /\ Waiting(wait, Behind)
  BY <1>3, <1>4, <1>5, <1>6, ThinnedWaiting DEF QueueInv
<1> QED BY <1>1, <1>3, <1>4, <1>5, <1>6, <1>7

LEMMA QueueStep == QueueInv /\ [Next]_vars => QueueInv'
<1> SUFFICES ASSUME QueueInv, [Next]_vars PROVE QueueInv'
  OBVIOUS
<1>1. ASSUME NEW p \in Players, LoginUnlimited(p) PROVE QueueInv'
  <2>1. /\ Admitted(p) /\ p \notin online
        /\ UNCHANGED <<priorityWaitList, waitList, prioritySize, waitSize, now>>
    BY <1>1 DEF LoginUnlimited
  <2>2. online' \subseteq Players /\ IsFiniteSet(online')
    BY <2>1, OnlineGrows
  <2>3. p \in AlwaysLogin \/ (priorityWaitList = <<>> /\ waitList = <<>>)
    BY <1>1 DEF LoginUnlimited, Unlimited, QueueInv
  <2>4. Waiting(priorityWaitList', Ahead') /\ Waiting(waitList', Behind')
    BY <2>1, <2>3 DEF QueueInv, Waiting, Ahead, Behind, Admitted
  <2> QED BY <2>1, <2>2, <2>4 DEF QueueInv, TypeOK
<1>2. ASSUME NEW p \in Players, ClientLogin(p) PROVE QueueInv'
  <2>1. p \notin online /\ p \notin AlwaysLogin /\ MaxPlayers # 0 /\ now' = now
    BY <1>2 DEF ClientLogin, Unlimited
  <2>2. PICK prio \in Seq(Wait), wait \in Seq(Wait) :
          /\ Waiting(prio, Ahead) /\ Waiting(wait, Behind)
          /\ LoginQueued(p, prio, wait)
    BY <1>2, LoginEnds
  <2>3. /\ \/ Entered(p, prio, wait)
           \/ EnteredBehind(p, prio, wait)
           \/ WaitsOn(prio, wait)
           \/ Enlisted(p, prio, wait)
        /\ prioritySize' \in Size /\ waitSize' \in Size
    BY <2>1, <2>2, QueuedEnds
  <2>4. /\ Waiting(priorityWaitList', Ahead') /\ Waiting(waitList', Behind')
        /\ online' \subseteq Players /\ IsFiniteSet(online')
    BY <2>1, <2>2, <2>3, EndsWait
  <2> QED BY <2>1, <2>3, <2>4 DEF QueueInv, TypeOK, Waiting
<1>3. ASSUME NEW p \in Players, Logout(p) PROVE QueueInv'
  <2>1. PICK on : on = online \ {p}
    OBVIOUS
  <2>2. IsFiniteSet(on)
    BY <2>1, FS_RemoveElement DEF QueueInv
  <2>3. /\ online' = on
        /\ UNCHANGED <<priorityWaitList, waitList, prioritySize, waitSize, now>>
    BY <1>3, <2>1 DEF Logout
  <2>4. Ahead \subseteq Ahead' /\ Behind \subseteq Behind'
    BY <2>1, <2>3 DEF Ahead, Behind
  <2>5. Waiting(priorityWaitList', Ahead') /\ Waiting(waitList', Behind')
    BY <2>3, <2>4 DEF QueueInv, Waiting
  <2> QED BY <2>1, <2>2, <2>3, <2>5 DEF QueueInv, TypeOK
<1>4. CASE Tick
  BY <1>4 DEF Tick, QueueInv, TypeOK, Waiting, Ahead, Behind
<1>5. CASE UNCHANGED vars
  BY <1>5 DEF vars, QueueInv, TypeOK, Waiting, Ahead, Behind
<1> QED BY <1>1, <1>2, <1>3, <1>4, <1>5 DEF Next

(* The place of a player, in the lists as they are and as they become.     *)
LEMMA SlotHere ==
  ASSUME QueueInv, NEW p
  PROVE  PlaceIs(p, priorityWaitList, waitList, Slot(p))
<1>1. PICK A : A = Ahead
  OBVIOUS
<1>2. PICK B : B = Behind
  OBVIOUS
<1>3. PICK s : s = priorityWaitList
  OBVIOUS
<1>4. PICK t : t = waitList
  OBVIOUS
<1>5. Apart(s, A, t, B)
  BY <1>1, <1>2, <1>3, <1>4 DEF QueueInv, Apart, Ahead, Behind
<1>6. PlaceIs(p, s, t, FindClient(p, s, t))
  BY <1>5, SlotIs
<1> QED BY <1>3, <1>4, <1>6 DEF Slot

LEMMA SlotThen ==
  ASSUME QueueInv', NEW p
  PROVE  PlaceIs(p, priorityWaitList', waitList', Slot(p)')
<1>1. PICK A : A = Ahead'
  OBVIOUS
<1>2. PICK B : B = Behind'
  OBVIOUS
<1>3. PICK s : s = priorityWaitList'
  OBVIOUS
<1>4. PICK t : t = waitList'
  OBVIOUS
<1>5. Apart(s, A, t, B)
  BY <1>1, <1>2, <1>3, <1>4 DEF QueueInv, Apart, Ahead, Behind
<1>6. PlaceIs(p, s, t, FindClient(p, s, t))
  BY <1>5, SlotIs
<1> QED BY <1>3, <1>4, <1>6 DEF Slot

LEMMA ThinnedOrder ==
  ASSUME NEW s \in Seq(Wait), NEW t \in Seq(Wait), NEW f, Thinned(s, t, f),
         NEW i \in DOMAIN t, NEW j \in DOMAIN t, f[i] < f[j]
  PROVE  i < j
<1>1. i \in Nat /\ j \in Nat /\ f[i] \in Nat /\ f[j] \in Nat
  BY DEF Thinned
<1> QED BY <1>1 DEF Thinned

(* In a list that lost some, who was ahead is ahead, and moved up.         *)
LEMMA PlaceForward ==
  ASSUME NEW S, NEW s, Waiting(s, S), NEW t \in Seq(Wait), NEW f, Thinned(s, t, f),
         NEW i \in DOMAIN s, NEW j \in DOMAIN t, t[j].playerGUID = s[i].playerGUID
  PROVE  f[j] = i /\ j <= i
<1>1. f[j] = i
  BY DEF Thinned, Waiting
<1>2. j <= f[j]
  BY ThinnedForward DEF Waiting
<1> QED BY <1>1, <1>2

(* Who is let in from the first list leaves seats for those ahead of him.  *)
LEMMA EnteredInOrder ==
  ASSUME QueueInv, QueueInv', NEW p \in Players, p \notin online,
         NEW prio, Waiting(prio, Ahead), NEW wait, Waiting(wait, Behind),
         NEW f, Thinned(priorityWaitList, prio, f), NEW g, Thinned(waitList, wait, g),
         \/ Entered(p, prio, wait) \/ EnteredBehind(p, prio, wait),
         NEW q, Slot(q) # 0, Slot(p) = 0 \/ Slot(q) < Slot(p), Slot(q)' # 0
  PROVE  Cardinality(online') + Slot(q)' <= MaxPlayers
<1>1. PICK s : s = priorityWaitList
  OBVIOUS
<1>2. PICK t : t = waitList
  OBVIOUS
<1>3. PICK s2 : s2 = priorityWaitList'
  OBVIOUS
<1>4. PICK t2 : t2 = waitList'
  OBVIOUS
<1>5. PICK a : a = Slot(q)
  OBVIOUS
<1>6. PICK b : b = Slot(p)
  OBVIOUS
<1>7. PICK c : c = Slot(q)'
  OBVIOUS
<1>8. /\ PlaceIs(q, s, t, a) /\ PlaceIs(p, s, t, b) /\ PlaceIs(q, s2, t2, c)
      /\ a # 0 /\ c # 0 /\ (b = 0 \/ a < b)
  BY <1>1, <1>2, <1>3, <1>4, <1>5, <1>6, <1>7, SlotHere, SlotThen
<1>9. /\ s \in Seq(Wait) /\ t \in Seq(Wait) /\ s2 \in Seq(Wait) /\ t2 \in Seq(Wait)
      /\ prio \in Seq(Wait) /\ wait \in Seq(Wait)
      /\ Thinned(s, prio, f) /\ Thinned(t, wait, g)
  BY <1>1, <1>2, <1>3, <1>4 DEF QueueInv, Waiting
<1>10. /\ Cardinality(online) \in Nat /\ Cardinality(online') \in Nat
       /\ Cardinality(online') <= Cardinality(online) + 1
  BY OnlineGrows DEF Entered, EnteredBehind
<1>11. CASE Entered(p, prio, wait)
  <2>1. PICK i \in DOMAIN prio :
          /\ prio[i].playerGUID = p /\ Cardinality(online) + i <= MaxPlayers
          /\ s2 = RemoveAt(prio, i) /\ t2 = wait
    BY <1>3, <1>4, <1>11 DEF Entered
  <2>2. b = f[i] /\ f[i] \in DOMAIN s
    BY <1>8, <1>9, <2>1 DEF PlaceIs, Thinned
  <2>3. a < f[i] /\ a \in DOMAIN s /\ s[a].playerGUID = q
    BY <1>8, <1>9, <2>2 DEF PlaceIs
  <2>4. PICK h : h = [j \in DOMAIN s2 |-> IF j < i THEN j ELSE j + 1]
    OBVIOUS
  <2>5. Thinned(prio, s2, h)
    BY <1>9, <2>1, <2>4, RemovedThins
  <2>6. c \in DOMAIN s2 /\ s2[c].playerGUID = q
    <3> SUFFICES ASSUME c - Len(s2) \in DOMAIN t2, t2[c - Len(s2)].playerGUID = q
                 PROVE  FALSE
      BY <1>8 DEF PlaceIs
    <3>1. PICK k : k = c - Len(s2)
      OBVIOUS
    <3>2. k \in DOMAIN wait /\ g[k] \in DOMAIN t /\ t[g[k]].playerGUID = q
      BY <1>9, <2>1, <3>1 DEF Thinned
    <3>3. a = Len(s) + g[k]
      BY <1>8, <3>2 DEF PlaceIs
    <3> QED BY <1>9, <2>3, <3>2, <3>3
  <2>7. h[c] \in DOMAIN prio /\ f[h[c]] \in DOMAIN s /\ s[f[h[c]]].playerGUID = q
    BY <1>9, <2>5, <2>6 DEF Thinned
  <2>8. f[h[c]] = a
    BY <1>8, <2>7 DEF PlaceIs
  <2>9. h[c] < i
    BY <1>9, <2>1, <2>3, <2>7, <2>8, ThinnedOrder
  <2>10. c <= i - 1
    BY <1>8, <1>9, <2>1, <2>4, <2>6, <2>9
  <2>11. c \in Nat /\ i \in Nat /\ MaxPlayers \in Nat
    BY <1>8, <1>9, <2>1, WaitListAssumption DEF PlaceIs
  <2> QED BY <1>7, <1>10, <2>1, <2>10, <2>11
<1>12. CASE EnteredBehind(p, prio, wait)
  <2>1. PICK i \in DOMAIN wait :
          /\ wait[i].playerGUID = p
          /\ Cardinality(online) + Len(prio) + i <= MaxPlayers
          /\ s2 = prio /\ t2 = RemoveAt(wait, i)
    BY <1>3, <1>4, <1>12 DEF EnteredBehind
  <2>2. b = Len(s) + g[i] /\ g[i] \in DOMAIN t
    BY <1>8, <1>9, <2>1 DEF PlaceIs, Thinned
  <2>3. a < Len(s) + g[i]
    BY <1>8, <1>9, <2>2
  <2>4. c \in Nat /\ i \in Nat /\ i >= 1 /\ MaxPlayers \in Nat /\ Len(prio) \in Nat
    BY <1>8, <1>9, <2>1, WaitListAssumption DEF PlaceIs
  <2>5. CASE c \in DOMAIN s2
    <3>1. c <= Len(prio)
      BY <1>9, <2>1, <2>5
    <3> QED BY <1>7, <1>10, <2>1, <2>4, <3>1
  <2>6. CASE c \notin DOMAIN s2
    <3>1. PICK k : k = c - Len(prio)
      OBVIOUS
    <3>2. k \in DOMAIN t2 /\ t2[k].playerGUID = q
      BY <1>8, <2>1, <2>6, <3>1 DEF PlaceIs
    <3>3. PICK h : h = [j \in DOMAIN t2 |-> IF j < i THEN j ELSE j + 1]
      OBVIOUS
    <3>4. Thinned(wait, t2, h)
      BY <1>9, <2>1, <3>3, RemovedThins
    <3>5. h[k] \in DOMAIN wait /\ g[h[k]] \in DOMAIN t /\ t[g[h[k]]].playerGUID = q
      BY <1>9, <3>2, <3>4 DEF Thinned
    <3>6. a = Len(s) + g[h[k]]
      BY <1>8, <3>5 DEF PlaceIs
    <3>7. g[h[k]] < g[i]
      <4>1. g[h[k]] \in Nat /\ g[i] \in Nat /\ Len(s) \in Nat
        BY <1>9, <2>2, <3>5 DEF Thinned
      <4> QED BY <2>3, <3>6, <4>1
    <3>8. h[k] < i
      BY <1>9, <2>1, <3>5, <3>7, ThinnedOrder
    <3>9. k <= i - 1
      BY <1>9, <2>4, <3>2, <3>3, <3>8
    <3>10. c = Len(prio) + k /\ k \in Int
      BY <1>9, <2>4, <3>1
    <3> QED BY <1>7, <1>10, <2>1, <2>4, <3>9, <3>10
  <2> QED BY <2>5, <2>6
<1> QED BY <1>11, <1>12

LEMMA OnePlace == QueueInv => OnePlacePerPlayer
<1> SUFFICES ASSUME QueueInv PROVE OnePlacePerPlayer
  OBVIOUS
<1>1. PICK A : A = Ahead
  OBVIOUS
<1>2. PICK B : B = Behind
  OBVIOUS
<1>3. PICK s : s = priorityWaitList
  OBVIOUS
<1>4. PICK t : t = waitList
  OBVIOUS
<1>5. PICK all : all = s \o t
  OBVIOUS
<1>6. Apart(s, A, t, B)
  BY <1>1, <1>2, <1>3, <1>4, Disjoint DEF QueueInv, Apart
<1>7. /\ \A i \in DOMAIN s : all[i] = s[i]
      /\ \A i \in DOMAIN all :
           i \notin DOMAIN s => i - Len(s) \in DOMAIN t /\ all[i] = t[i - Len(s)]
      /\ \A i, j \in DOMAIN all : all[i].playerGUID = all[j].playerGUID => i = j
  <2>1. Joins(all, s, t)
    BY <1>5, <1>6, Joined
  <2> QED BY <2>1 DEF Joins
<1>8. \A i \in DOMAIN all : all[i].playerGUID \in A \cup B
  BY <1>6, <1>7 DEF Apart, Waiting
<1>9. A \cup B = Players \ (online \cup AlwaysLogin)
  BY <1>1, <1>2, WaitListAssumption DEF Ahead, Behind
<1> QED BY <1>3, <1>4, <1>5, <1>7, <1>8, <1>9 DEF OnePlacePerPlayer

NoOvertaking ==
  \A p \in Players \ AlwaysLogin :
    (MaxPlayers # 0 /\ p \in online' \ online) =>
      /\ Cardinality(online') <= MaxPlayers
      /\ \A q \in Players :
           (Slot(q) # 0 /\ (Slot(p) = 0 \/ Slot(q) < Slot(p)) /\ Slot(q)' # 0)
             => Cardinality(online') + Slot(q)' <= MaxPlayers

LEMMA OvertakingStep == QueueInv /\ QueueInv' /\ [Next]_vars => NoOvertaking
<1> SUFFICES ASSUME QueueInv, QueueInv', [Next]_vars,
                    NEW r \in Players \ AlwaysLogin, MaxPlayers # 0, r \in online' \ online
             PROVE  /\ Cardinality(online') <= MaxPlayers
                    /\ \A q \in Players :
                         (Slot(q) # 0 /\ (Slot(r) = 0 \/ Slot(q) < Slot(r)) /\ Slot(q)' # 0)
                           => Cardinality(online') + Slot(q)' <= MaxPlayers
  BY DEF NoOvertaking
<1>1. PICK p \in Players : LoginUnlimited(p) \/ ClientLogin(p)
  BY DEF Next, vars, Logout, Tick
<1>2. MaxPlayers \in Nat
  BY WaitListAssumption
<1>3. CASE LoginUnlimited(p)
  <2>1. Admitted(p) /\ p \notin online
    BY <1>3 DEF LoginUnlimited
  <2>2. p = r
    BY <2>1 DEF Admitted
  <2>3. priorityWaitList = <<>> /\ waitList = <<>> /\ ~(Cardinality(online) >= MaxPlayers)
    BY <1>3, <2>2 DEF LoginUnlimited, Unlimited, Full
  <2>4. /\ Cardinality(online) \in Nat /\ Cardinality(online') \in Nat
        /\ Cardinality(online') <= Cardinality(online) + 1
    BY <2>1, OnlineGrows
  <2>5. \A q \in Players : Slot(q) = 0
    <3> SUFFICES ASSUME NEW q \in Players PROVE Slot(q) = 0
      OBVIOUS
    <3>1. PlaceIs(q, <<>>, <<>>, Slot(q))
      BY <2>3, SlotHere
    <3> QED BY <3>1 DEF PlaceIs
  <2> QED BY <1>2, <2>3, <2>4, <2>5
<1>4. CASE ClientLogin(p)
  <2>1. p \notin online /\ p \notin AlwaysLogin
    BY <1>4 DEF ClientLogin, Unlimited
  <2>2. PICK prio \in Seq(Wait), wait \in Seq(Wait) : \E f, g :
          /\ Waiting(prio, Ahead) /\ Waiting(wait, Behind)
          /\ Thinned(priorityWaitList, prio, f) /\ Thinned(waitList, wait, g)
          /\ LoginQueued(p, prio, wait)
    BY <1>4, LoginEnds
  <2>3. PICK f, g : /\ Waiting(prio, Ahead) /\ Waiting(wait, Behind)
                    /\ Thinned(priorityWaitList, prio, f) /\ Thinned(waitList, wait, g)
                    /\ LoginQueued(p, prio, wait)
    BY <2>2
  <2>4. Entered(p, prio, wait) \/ EnteredBehind(p, prio, wait)
    <3>1. \/ Entered(p, prio, wait) \/ EnteredBehind(p, prio, wait)
          \/ WaitsOn(prio, wait) \/ Enlisted(p, prio, wait)
      BY <2>1, <2>3, QueuedEnds
    <3>2. online' # online
      OBVIOUS
    <3> QED BY <3>1, <3>2 DEF WaitsOn, Enlisted
  <2>5. p = r
    BY <2>4 DEF Entered, EnteredBehind, Admitted
  <2>6. /\ Cardinality(online) \in Nat /\ Cardinality(online') \in Nat
        /\ Cardinality(online') <= Cardinality(online) + 1
    BY <2>1, <2>4, OnlineGrows DEF Entered, EnteredBehind
  <2>7. Cardinality(online) + 1 <= MaxPlayers
    <3>1. /\ \A i \in DOMAIN prio : i \in Nat /\ i >= 1
          /\ \A i \in DOMAIN wait : i \in Nat /\ i >= 1
          /\ Len(prio) \in Nat
      OBVIOUS
    <3> QED BY <1>2, <2>4, <2>6, <3>1 DEF Entered, EnteredBehind
  <2>8. \A q \in Players :
          (Slot(q) # 0 /\ (Slot(r) = 0 \/ Slot(q) < Slot(r)) /\ Slot(q)' # 0)
            => Cardinality(online') + Slot(q)' <= MaxPlayers
    BY <2>1, <2>3, <2>4, <2>5, EnteredInOrder
  <2> QED BY <1>2, <2>6, <2>7, <2>8
<1> QED BY <1>1, <1>3, <1>4

PlaceKeptOnce ==
  \A p \in Premium :
    (Slot(p) # 0 /\ Slot(p)' # 0 /\ ~EntryExpires(p)) => Slot(p)' <= Slot(p)

(* A premium player who has a place is in the first list.                  *)
LEMMA PremiumAhead ==
  ASSUME QueueInv, NEW p \in Premium, Slot(p) # 0
  PROVE  Slot(p) \in DOMAIN priorityWaitList /\ priorityWaitList[Slot(p)].playerGUID = p
<1>1. PlaceIs(p, priorityWaitList, waitList, Slot(p))
  BY SlotHere
<1>2. \A i \in DOMAIN waitList : waitList[i].playerGUID # p
  BY DEF QueueInv, Waiting, Behind
<1> QED BY <1>1, <1>2 DEF PlaceIs

LEMMA PremiumAheadThen ==
  ASSUME QueueInv', NEW p \in Premium, Slot(p)' # 0
  PROVE  Slot(p)' \in DOMAIN priorityWaitList' /\ priorityWaitList'[Slot(p)'].playerGUID = p
<1>1. PlaceIs(p, priorityWaitList', waitList', Slot(p)')
  BY SlotThen
<1>2. \A i \in DOMAIN waitList' : waitList'[i].playerGUID # p
  BY DEF QueueInv, Waiting, Behind
<1> QED BY <1>1, <1>2 DEF PlaceIs

LEMMA PlaceStep == QueueInv /\ QueueInv' /\ [Next]_vars => PlaceKeptOnce
<1> SUFFICES ASSUME QueueInv, QueueInv', [Next]_vars,
                    NEW p \in Premium, Slot(p) # 0, Slot(p)' # 0, ~EntryExpires(p)
             PROVE  Slot(p)' <= Slot(p)
  BY DEF PlaceKeptOnce
<1>1. PICK s : s = priorityWaitList
  OBVIOUS
<1>2. PICK s2 : s2 = priorityWaitList'
  OBVIOUS
<1>3. PICK i : i = Slot(p)
  OBVIOUS
<1>4. PICK c : c = Slot(p)'
  OBVIOUS
<1>5. PICK A : A = Ahead
  OBVIOUS
<1>6. /\ i \in DOMAIN s /\ s[i].playerGUID = p /\ c \in DOMAIN s2 /\ s2[c].playerGUID = p
      /\ Waiting(s, A) /\ s2 \in Seq(Wait) /\ i \in Nat /\ c \in Nat
  <2>1. i \in DOMAIN s /\ s[i].playerGUID = p
    BY <1>1, <1>3, PremiumAhead
  <2>2. c \in DOMAIN s2 /\ s2[c].playerGUID = p
    BY <1>2, <1>4, PremiumAheadThen
  <2>3. Waiting(s, A) /\ s \in Seq(Wait) /\ s2 \in Seq(Wait)
    BY <1>1, <1>2, <1>5 DEF QueueInv, Waiting
  <2> QED BY <2>1, <2>2, <2>3
<1>7. ~Expires(s[i])
  BY <1>1, <1>6 DEF EntryExpires
<1>8. CASE s2 = s
  BY <1>3, <1>4, <1>6, <1>8 DEF Waiting
<1>9. ASSUME NEW r \in Players, ClientLogin(r)
      PROVE  c <= i
  <2>1. r \notin online /\ r \notin AlwaysLogin
    BY <1>9 DEF ClientLogin, Unlimited
  <2>2. PICK prio \in Seq(Wait), wait \in Seq(Wait) : \E f, g :
          /\ Waiting(prio, Ahead) /\ Waiting(wait, Behind)
          /\ Thinned(priorityWaitList, prio, f) /\ Thinned(waitList, wait, g)
          /\ \A k \in DOMAIN priorityWaitList :
               ~Expires(priorityWaitList[k]) => \E j \in DOMAIN prio : f[j] = k
          /\ LoginQueued(r, prio, wait)
    BY <1>9, LoginEnds
  <2>3. PICK f : /\ Waiting(prio, Ahead) /\ Waiting(wait, Behind)
                 /\ Thinned(s, prio, f)
                 /\ \A k \in DOMAIN s : ~Expires(s[k]) => \E j \in DOMAIN prio : f[j] = k
                 /\ LoginQueued(r, prio, wait)
    BY <1>1, <2>2
  <2>4. PICK j \in DOMAIN prio : f[j] = i
    BY <1>6, <1>7, <2>3
  <2>5. prio[j].playerGUID = p /\ j <= i /\ j \in Nat
    <3>1. prio[j].playerGUID = s[i].playerGUID
      BY <2>3, <2>4 DEF Thinned
    <3>2. j <= i
      BY <1>6, <2>3, <2>4, <3>1, PlaceForward
    <3> QED BY <1>6, <3>1, <3>2
  <2>6. Waiting(prio, A)
    BY <1>5, <2>3
  <2>7. CASE Entered(r, prio, wait)
    <3>1. PICK k \in DOMAIN prio : s2 = RemoveAt(prio, k)
      BY <1>2, <2>7 DEF Entered
    <3>2. PICK h : h = [x \in DOMAIN s2 |-> IF x < k THEN x ELSE x + 1]
      OBVIOUS
    <3>3. Thinned(prio, s2, h)
      BY <3>1, <3>2, RemovedThins
    <3>4. c <= j
      BY <1>6, <2>4, <2>5, <2>6, <3>3, PlaceForward
    <3> QED BY <1>6, <2>5, <3>4
  <2>8. CASE s2 = prio
    <3>1. c = j
      BY <1>6, <2>4, <2>5, <2>6, <2>8 DEF Waiting
    <3> QED BY <2>5, <3>1
  <2>9. CASE WaitsOn(prio, wait)
    <3>1. s2 = prio \/ \E k \in DOMAIN prio, n \in Nat : s2 = Renewed(prio, k, n)
      BY <1>2, <2>9 DEF WaitsOn
    <3>2. ASSUME NEW k \in DOMAIN prio, NEW n \in Nat, s2 = Renewed(prio, k, n)
          PROVE  c = j
      <4>1. /\ Len(s2) = Len(prio)
            /\ \A x \in DOMAIN prio : s2[x].playerGUID = prio[x].playerGUID
        BY <3>2, RenewedSame
      <4>2. DOMAIN s2 = DOMAIN prio
        BY <1>6, <4>1
      <4> QED BY <1>6, <2>4, <2>5, <2>6, <4>1, <4>2 DEF Waiting
    <3> QED BY <2>5, <2>8, <3>1, <3>2
  <2>10. CASE Enlisted(r, prio, wait)
    <3>1. s2 = prio \/ \E e \in Wait : e.playerGUID = r /\ s2 = Append(prio, e)
      BY <1>2, <2>10 DEF Enlisted
    <3>2. ASSUME NEW e \in Wait, e.playerGUID = r, s2 = Append(prio, e)
          PROVE  c = j
      <4>1. r # p
        BY <2>4, <2>5, <2>10 DEF Enlisted
      <4>2. /\ Len(s2) = Len(prio) + 1 /\ s2[Len(prio) + 1] = e
            /\ \A x \in DOMAIN prio : s2[x] = prio[x]
        BY <3>2
      <4>3. c # Len(prio) + 1
        BY <1>6, <3>2, <4>1, <4>2
      <4>4. c \in DOMAIN prio
        BY <1>6, <4>2, <4>3
      <4> QED BY <1>6, <2>4, <2>5, <2>6, <4>2, <4>4 DEF Waiting
    <3> QED BY <2>5, <2>8, <3>1, <3>2
  <2>11. EnteredBehind(r, prio, wait) => s2 = prio
    BY <1>2 DEF EnteredBehind
  <2> QED BY <2>1, <2>3, <2>7, <2>8, <2>9, <2>10, <2>11, QueuedEnds
<1>10. s2 = s \/ \E r \in Players : ClientLogin(r)
  BY <1>1, <1>2 DEF Next, vars, LoginUnlimited, Logout, Tick
<1> QED BY <1>3, <1>4, <1>8, <1>9, <1>10

(* Nobody waits twice, nobody overtakes, and a place that a premium player *)
(* has is never pushed back, through all logins, retries, cleanups of      *)
(* expired entries and failed loads, although the sizes of the lists may   *)
(* be wrong (WaitingList::clientLogin, cleanupList, findClient).           *)
THEOREM PlacesAlwaysKept == AnySpec => PlacesKept
<1>1. AnyInit => QueueInv
  BY QueueInit DEF AnyInit
<1>2. [AnyNext]_<<vars, part, partiesVars, chatVars, scriptsVars, registriesVars>>
        => [Next]_vars
  BY DEF AnyNext
<1>3. QueueInv /\ [Next]_vars => QueueInv'
  BY QueueStep
<1>4. QueueInv => TypeOK
  BY DEF QueueInv
<1>5. QueueInv => OnePlacePerPlayer
  BY OnePlace
<1>6. QueueInv /\ QueueInv' /\ [Next]_vars => [NoOvertaking]_vars
  BY OvertakingStep
<1>7. QueueInv /\ QueueInv' /\ [Next]_vars => [PlaceKeptOnce]_vars
  BY PlaceStep
<1> QED BY <1>1, <1>2, <1>3, <1>4, <1>5, <1>6, <1>7, PTL
        DEF AnySpec, PlacesKept, NobodyOvertakes, PremiumPlaceKept, NoOvertaking, PlaceKeptOnce

-----------------------------------------------------------------------------
(* Scripts.                                                                *)

Objects == Lua!Things \cup Conds \cup {Lua!None}

Handed ==
  [class : Classes \cup {"Item", "Condition", "Value"}, object : Objects, weak : BOOLEAN]

(* A userdata that frees a condition is of one that no creature has.       *)
NotLent(h, own) == h.object \in Conds /\ ~h.weak => own[h.object] \in {"script", "freed"}

(* A userdata h that the script in environment k holds: its class tells    *)
(* items and creatures from the rest, what it points to exists, and is of  *)
(* no other script when it has no place.                                   *)
Fine(h, k, w, temp, rel, own) ==
  /\ h.object \in Lua!Things =>
       /\ h.class \in Lua!ThingTypes
       /\ w[h.object] \notin {"none", "freed"}
       /\ w[h.object] = "virtual" => h.object \in temp[k] /\ h.object \notin rel
  /\ NotLent(h, own)

(* MadeItemsKept while scripts run: an item without a place is kept for one*)
(* environment that is taken, or released.                                 *)
Placed(w, temp, rel, n) ==
  /\ \A t \in Lua!Things : w[t] = "removed" => t \in rel
  /\ \A t \in rel : w[t] \in {"removed", "virtual", "lost"}
  /\ \A i \in Items : w[i] = "virtual" => i \in rel \/ \E e \in 1 .. n : i \in temp[e]
  /\ \A e \in DOMAIN temp : e > n => temp[e] = {}
  /\ \A e \in DOMAIN temp : \A i \in temp[e] : w[i] \notin {"none", "freed"}
  /\ \A e, f \in DOMAIN temp : \A i \in Items : i \in temp[e] /\ i \in temp[f] => e = f

Wheres == {"none", "world", "virtual", "removed", "freed", "lost"}

Worlds(w, temp, rel, n) ==
  /\ w \in [Lua!Things -> Wheres]
  /\ temp \in [1 .. MaxEnv + 1 -> SUBSET Items]
  /\ rel \subseteq Lua!Things
  /\ n \in 0 .. MaxEnv
  /\ Placed(w, temp, rel, n)

Owners == [Conds -> {"none", "engine", "script", "freed"}]

HandsFine(hs, k, w, temp, rel, own) ==
  hs \in SUBSET Handed /\ \A h \in hs : Fine(h, k, w, temp, rel, own)

TimersFine(ts, own) ==
  /\ ts \in Seq(Handed)
  /\ \A k \in DOMAIN ts : ts[k].object \notin Lua!Things /\ NotLent(ts[k], own)

GarbageFine(hs, own) == hs \in SUBSET Handed /\ \A h \in hs : NotLent(h, own)

LuaInv ==
  /\ running \in Seq(SUBSET Handed)
  /\ envIndex = Len(running)
  /\ Worlds(where, tempItems, toRelease, envIndex)
  /\ owner \in Owners
  /\ \A k \in DOMAIN running :
       HandsFine(running[k], k, where, tempItems, toRelease, owner)
  /\ TimersFine(timers, owner)
  /\ GarbageFine(garbage, owner)

LEMMA LuaInit == Lua!Init => LuaInv
<1> SUFFICES ASSUME Lua!Init PROVE LuaInv
  OBVIOUS
<1>1. Placed(where, tempItems, toRelease, envIndex)
  BY ScriptsAssumption DEF Lua!Init, Placed, Lua!Things
<1>2. Worlds(where, tempItems, toRelease, envIndex)
  BY <1>1, ScriptsAssumption DEF Lua!Init, Worlds, Wheres
<1> QED BY <1>2 DEF Lua!Init, LuaInv, Owners, TimersFine, GarbageFine

(* What a binding pushes is in the world, or not a thing of it.            *)
LEMMA Pushed ==
  ASSUME LuaInv, NEW c \in Classes, NEW h \in Lua!PushUserdata(c)
  PROVE  /\ h \in Handed
         /\ \A k : Fine(h, k, where, tempItems, toRelease, owner)
<1>1. PICK o \in Lua!Pushable(c) : h = Lua!Userdata(c, o, FALSE)
  BY DEF Lua!PushUserdata
<1>2. h = [class |-> c, object |-> o, weak |-> FALSE]
  BY <1>1 DEF Lua!Userdata
<1>3. \/ c \in Lua!ItemClasses /\ o \in Items /\ where[o] = "world"
      \/ c \in Lua!CreatureClasses /\ o \in Creatures /\ where[o] = "world"
      \/ o = Lua!None
  BY <1>1 DEF Lua!Pushable, Lua!ItemClasses, Lua!CreatureClasses
<1>4. o \in Objects
  BY <1>3 DEF Objects, Lua!Things
<1>5. o \notin Conds
  BY <1>3, ScriptsAssumption DEF Lua!None
<1>6. o \in Lua!Things => c \in Lua!ThingTypes /\ where[o] = "world"
  BY <1>3, ScriptsAssumption
     DEF Lua!None, Lua!Things, Lua!ThingTypes, Lua!ItemClasses, Lua!CreatureClasses
<1> QED BY <1>2, <1>4, <1>5, <1>6 DEF Handed, Fine, NotLent

(* The innermost script, and what it may come to hold.                     *)
LEMMA Holds ==
  ASSUME LuaInv, Lua!Top > 0, NEW hs \in SUBSET Handed, Lua!Hold(hs)
  PROVE  /\ running' \in Seq(SUBSET Handed) /\ Len(running') = Len(running)
         /\ DOMAIN running' = DOMAIN running /\ Len(running) \in DOMAIN running
         /\ \A k \in DOMAIN running :
              running'[k] = IF k = Len(running) THEN hs ELSE running[k]
BY DEF LuaInv, Lua!Top, Lua!Hold

LEMMA HeldFine ==
  ASSUME LuaInv
  PROVE  /\ Lua!Top = envIndex /\ DOMAIN running = 1 .. envIndex
         /\ DOMAIN running \subseteq DOMAIN tempItems
         /\ Lua!Top > 0 =>
              /\ Lua!Top \in DOMAIN running
              /\ HandsFine(Lua!Held, Lua!Top, where, tempItems, toRelease, owner)
<1>1. /\ Lua!Top = envIndex /\ DOMAIN running = 1 .. envIndex
      /\ envIndex \in 0 .. MaxEnv /\ DOMAIN tempItems = 1 .. MaxEnv + 1
  BY DEF LuaInv, Lua!Top, Worlds
<1>2. DOMAIN running \subseteq DOMAIN tempItems
  BY <1>1, ScriptsAssumption
<1> QED BY <1>1, <1>2 DEF LuaInv, Lua!Held

(* A thing without a place gets one, or one in the world loses its own: it *)
(* is removed and released.                                                *)
Moved(w, temp, rel, t, w2, temp2, rel2) ==
  /\ t \in Lua!Things
  /\ \/ w[t] = "virtual" /\ t \notin rel /\ w2 = [w EXCEPT ![t] = "world"] /\ rel2 = rel
     \/ /\ w[t] \in {"virtual", "world"}
        /\ w2 = [w EXCEPT ![t] = "removed"] /\ rel2 = rel \cup {t}
  /\ temp2 = temp \/ temp2 = [e \in DOMAIN temp |-> temp[e] \ {t}]

LEMMA MovedOK ==
  ASSUME NEW w, NEW temp, NEW rel, NEW n, Worlds(w, temp, rel, n),
         NEW t, NEW w2, NEW temp2, NEW rel2, Moved(w, temp, rel, t, w2, temp2, rel2)
  PROVE  /\ Worlds(w2, temp2, rel2, n)
         /\ \A h, k, own : k \in DOMAIN temp /\ Fine(h, k, w, temp, rel, own)
                            => Fine(h, k, w2, temp2, rel2, own)
<1>1. /\ w \in [Lua!Things -> Wheres] /\ temp \in [1 .. MaxEnv + 1 -> SUBSET Items]
      /\ rel \subseteq Lua!Things /\ n \in 0 .. MaxEnv /\ t \in Lua!Things
      /\ Items \subseteq Lua!Things
  BY DEF Worlds, Moved, Lua!Things
<1>2. PICK x : x \in {"world", "removed"} /\ w2 = [w EXCEPT ![t] = x]
               /\ (x = "world" => w[t] = "virtual" /\ t \notin rel /\ rel2 = rel)
               /\ (x = "removed" => w[t] \in {"virtual", "world"} /\ rel2 = rel \cup {t})
  BY DEF Moved
<1>3. /\ w2 \in [Lua!Things -> Wheres] /\ w2[t] = x
      /\ \A u \in Lua!Things : u # t => w2[u] = w[u]
  BY <1>1, <1>2 DEF Wheres
<1>4. /\ temp2 \in [1 .. MaxEnv + 1 -> SUBSET Items]
      /\ DOMAIN temp2 = 1 .. MaxEnv + 1 /\ DOMAIN temp = 1 .. MaxEnv + 1
      /\ \A e \in DOMAIN temp : temp2[e] \subseteq temp[e] /\ temp[e] \ {t} \subseteq temp2[e]
  <2>1. CASE temp2 = temp
    BY <1>1, <2>1
  <2>2. CASE temp2 = [e \in DOMAIN temp |-> temp[e] \ {t}]
    BY <1>1, <2>2
  <2> QED BY <2>1, <2>2 DEF Moved
<1>5. rel2 \subseteq Lua!Things
  BY <1>1, <1>2
<1>6. Placed(w, temp, rel, n)
  BY DEF Worlds
<1>7. Placed(w2, temp2, rel2, n)
  <2>1. \A u \in Lua!Things : w2[u] = "removed" => u \in rel2
    BY <1>2, <1>3, <1>6 DEF Placed
  <2>2. \A u \in rel2 : w2[u] \in {"removed", "virtual", "lost"}
    BY <1>1, <1>2, <1>3, <1>6 DEF Placed
  <2>3. \A i \in Items : w2[i] = "virtual" => i \in rel2 \/ \E e \in 1 .. n : i \in temp2[e]
    <3> SUFFICES ASSUME NEW i \in Items, w2[i] = "virtual", i \notin rel2
                 PROVE  \E e \in 1 .. n : i \in temp2[e]
      OBVIOUS
    <3>1. i # t /\ w[i] = "virtual" /\ i \notin rel
      BY <1>1, <1>2, <1>3
    <3>2. PICK e \in 1 .. n : i \in temp[e]
      BY <1>6, <3>1 DEF Placed
    <3>3. e \in DOMAIN temp
      BY <1>1, ScriptsAssumption
    <3> QED BY <1>4, <3>1, <3>2, <3>3
  <2>4. /\ \A e \in DOMAIN temp2 : e > n => temp2[e] = {}
        /\ \A e, f \in DOMAIN temp2 : \A i \in Items : i \in temp2[e] /\ i \in temp2[f] => e = f
    BY <1>4, <1>6 DEF Placed
  <2>5. \A e \in DOMAIN temp2 : \A i \in temp2[e] : w2[i] \notin {"none", "freed"}
    BY <1>1, <1>2, <1>3, <1>4, <1>6 DEF Placed
  <2> QED BY <2>1, <2>2, <2>3, <2>4, <2>5 DEF Placed
<1>8. ASSUME NEW h, NEW k \in DOMAIN temp, NEW own, Fine(h, k, w, temp, rel, own)
      PROVE  Fine(h, k, w2, temp2, rel2, own)
  <2>1. CASE h.object \in Lua!Things /\ h.object # t
    BY <1>2, <1>3, <1>4, <1>8, <2>1 DEF Fine
  <2>2. CASE h.object = t
    BY <1>1, <1>2, <1>3, <1>8, <2>2 DEF Fine
  <2>3. CASE h.object \notin Lua!Things
    BY <1>8, <2>3 DEF Fine
  <2> QED BY <2>1, <2>2, <2>3
<1> QED BY <1>1, <1>3, <1>4, <1>5, <1>7, <1>8 DEF Worlds

(* A new item, in the world or kept for the environment n.                 *)
MadeAt(w, temp, i, n, w2, temp2) ==
  /\ i \in Items /\ w[i] = "none"
  /\ \/ w2 = [w EXCEPT ![i] = "world"] /\ temp2 = temp
     \/ /\ w2 = [w EXCEPT ![i] = "virtual"] /\ n > 0
        /\ temp2 = [temp EXCEPT ![n] = @ \cup {i}]

LEMMA MadeOK ==
  ASSUME NEW w, NEW temp, NEW rel, NEW n, Worlds(w, temp, rel, n),
         NEW i, NEW w2, NEW temp2, Lua!Top = n, MadeAt(w, temp, i, n, w2, temp2)
  PROVE  /\ Worlds(w2, temp2, rel, n) /\ Lua!NewItem(i) \in Handed
         /\ \A own : Fine(Lua!NewItem(i), n, w2, temp2, rel, own)
         /\ \A h, k, own : k \in DOMAIN temp /\ Fine(h, k, w, temp, rel, own)
                            => Fine(h, k, w2, temp2, rel, own)
<1>1. /\ w \in [Lua!Things -> Wheres] /\ temp \in [1 .. MaxEnv + 1 -> SUBSET Items]
      /\ rel \subseteq Lua!Things /\ n \in 0 .. MaxEnv /\ i \in Lua!Things /\ i \in Items
      /\ Items \subseteq Lua!Things /\ w[i] = "none"
  BY DEF Worlds, MadeAt, Lua!Things
<1>2. PICK x : /\ x \in {"world", "virtual"} /\ w2 = [w EXCEPT ![i] = x]
               /\ x = "world" => temp2 = temp
               /\ x = "virtual" => n > 0 /\ temp2 = [temp EXCEPT ![n] = temp[n] \cup {i}]
  BY DEF MadeAt
<1>3. /\ w2 \in [Lua!Things -> Wheres] /\ w2[i] = x
      /\ \A u \in Lua!Things : u # i => w2[u] = w[u]
  BY <1>1, <1>2 DEF Wheres
<1>4. /\ temp2 \in [1 .. MaxEnv + 1 -> SUBSET Items]
      /\ DOMAIN temp2 = 1 .. MaxEnv + 1 /\ DOMAIN temp = 1 .. MaxEnv + 1
      /\ \A e \in DOMAIN temp : temp[e] \subseteq temp2[e] /\ temp2[e] \subseteq temp[e] \cup {i}
      /\ \A e \in DOMAIN temp : i \in temp2[e] /\ i \notin temp[e] => e = n
      /\ x = "virtual" => n \in 1 .. MaxEnv + 1 /\ i \in temp2[n]
  <2>1. CASE x = "world"
    BY <1>1, <1>2, <2>1
  <2>2. CASE x = "virtual"
    <3>1. n \in 1 .. MaxEnv + 1
      BY <1>1, <1>2, <2>2, ScriptsAssumption
    <3> QED BY <1>1, <1>2, <2>2, <3>1
  <2> QED BY <1>2, <2>1, <2>2
<1>5. Placed(w, temp, rel, n)
  BY DEF Worlds
<1>6. i \notin rel /\ \A e \in DOMAIN temp : i \notin temp[e]
  BY <1>1, <1>5 DEF Placed
<1>7. Placed(w2, temp2, rel, n)
  <2>1. /\ \A u \in Lua!Things : w2[u] = "removed" => u \in rel
        /\ \A u \in rel : w2[u] \in {"removed", "virtual", "lost"}
    BY <1>1, <1>2, <1>3, <1>5, <1>6 DEF Placed
  <2>2. \A j \in Items : w2[j] = "virtual" => j \in rel \/ \E e \in 1 .. n : j \in temp2[e]
    <3> SUFFICES ASSUME NEW j \in Items, w2[j] = "virtual", j \notin rel
                 PROVE  \E e \in 1 .. n : j \in temp2[e]
      OBVIOUS
    <3>1. CASE j = i
      BY <1>1, <1>2, <1>3, <1>4, <3>1
    <3>2. CASE j # i
      <4>1. PICK e \in 1 .. n : j \in temp[e]
        BY <1>1, <1>3, <1>5, <3>2 DEF Placed
      <4>2. e \in DOMAIN temp
        BY <1>1, ScriptsAssumption
      <4> QED BY <1>4, <4>1, <4>2
    <3> QED BY <3>1, <3>2
  <2>3. \A e \in DOMAIN temp2 : e > n => temp2[e] = {}
    BY <1>1, <1>4, <1>5, <1>6, ScriptsAssumption DEF Placed
  <2>4. \A e, f \in DOMAIN temp2 : \A j \in Items : j \in temp2[e] /\ j \in temp2[f] => e = f
    BY <1>4, <1>5, <1>6 DEF Placed
  <2>5. \A e \in DOMAIN temp2 : \A j \in temp2[e] : w2[j] \notin {"none", "freed"}
    BY <1>1, <1>2, <1>3, <1>4, <1>5 DEF Placed
  <2> QED BY <2>1, <2>2, <2>3, <2>4, <2>5 DEF Placed
<1>8. Lua!NewItem(i) = [class |-> "Item", object |-> i, weak |-> FALSE]
  BY DEF Lua!NewItem, Lua!Userdata
<1>9. Lua!NewItem(i) \in Handed
  BY <1>1, <1>8 DEF Handed, Objects
<1>10. \A own : Fine(Lua!NewItem(i), n, w2, temp2, rel, own)
  <2>1. i \notin Conds
    BY <1>1, ScriptsAssumption
  <2> QED BY <1>2, <1>3, <1>4, <1>6, <1>8, <2>1 DEF Fine, NotLent, Lua!ThingTypes
<1>11. ASSUME NEW h, NEW k \in DOMAIN temp, NEW own, Fine(h, k, w, temp, rel, own)
       PROVE  Fine(h, k, w2, temp2, rel, own)
  <2>1. CASE h.object \in Lua!Things /\ h.object # i
    BY <1>3, <1>4, <1>11, <2>1 DEF Fine
  <2>2. h.object # i
    BY <1>1, <1>11 DEF Fine
  <2>3. CASE h.object \notin Lua!Things
    BY <1>11, <2>3 DEF Fine
  <2> QED BY <2>1, <2>2, <2>3
<1> QED BY <1>1, <1>3, <1>4, <1>7, <1>9, <1>10, <1>11 DEF Worlds

-----------------------------------------------------------------------------
(* Steps of a script.                                                      *)

StillFine(w, temp, rel, own, w2, temp2, rel2, own2) ==
  \A h, k : k \in DOMAIN temp /\ Fine(h, k, w, temp, rel, own)
             => Fine(h, k, w2, temp2, rel2, own2)

(* No creature gets a condition that a script has made.                    *)
Owned(own, own2) ==
  /\ own2 \in Owners
  /\ \A o \in Conds : own[o] \in {"script", "freed"} => own2[o] \in {"script", "freed"}

LEMMA OwnedOK ==
  ASSUME NEW own, NEW own2, Owned(own, own2), NEW h, NotLent(h, own)
  PROVE  NotLent(h, own2)
BY DEF Owned, NotLent

LEMMA OwnedFine ==
  ASSUME NEW own, NEW own2, Owned(own, own2), NEW w, NEW temp, NEW rel
  PROVE  StillFine(w, temp, rel, own, w, temp, rel, own2)
BY OwnedOK DEF StillFine, Fine

(* hs is what the innermost script holds afterwards.                       *)
LEMMA ScriptStep ==
  ASSUME LuaInv, Lua!Top > 0, UNCHANGED envIndex,
         Worlds(where', tempItems', toRelease', envIndex),
         StillFine(where, tempItems, toRelease, owner, where', tempItems', toRelease', owner'),
         owner' \in Owners, TimersFine(timers', owner'), GarbageFine(garbage', owner'),
         NEW hs, HandsFine(hs, Lua!Top, where', tempItems', toRelease', owner'),
         Lua!Hold(hs)
  PROVE  LuaInv'
<1>1. /\ running' \in Seq(SUBSET Handed) /\ Len(running') = Len(running)
      /\ DOMAIN running' = DOMAIN running /\ Len(running) \in DOMAIN running
      /\ \A k \in DOMAIN running :
           running'[k] = IF k = Len(running) THEN hs ELSE running[k]
  BY Holds DEF HandsFine
<1>2. DOMAIN running \subseteq DOMAIN tempItems
  BY HeldFine
<1>3. ASSUME NEW k \in DOMAIN running
      PROVE  HandsFine(running'[k], k, where', tempItems', toRelease', owner')
  <2>1. CASE k = Len(running)
    BY <1>1, <2>1 DEF Lua!Top
  <2>2. CASE k # Len(running)
    <3>1. HandsFine(running[k], k, where, tempItems, toRelease, owner)
      BY DEF LuaInv
    <3>2. HandsFine(running[k], k, where', tempItems', toRelease', owner')
      BY <1>2, <3>1 DEF HandsFine, StillFine
    <3> QED BY <1>1, <2>2, <3>2
  <2> QED BY <2>1, <2>2
<1> QED BY <1>1, <1>3 DEF LuaInv

(* The same, when it holds what it held.                                   *)
LEMMA OtherStep ==
  ASSUME LuaInv, UNCHANGED <<envIndex, running>>,
         Worlds(where', tempItems', toRelease', envIndex),
         StillFine(where, tempItems, toRelease, owner, where', tempItems', toRelease', owner'),
         owner' \in Owners, TimersFine(timers', owner'), GarbageFine(garbage', owner')
  PROVE  LuaInv'
<1>1. DOMAIN running \subseteq DOMAIN tempItems
  BY HeldFine
<1>2. ASSUME NEW k \in DOMAIN running
      PROVE  HandsFine(running[k], k, where', tempItems', toRelease', owner')
  <2>1. HandsFine(running[k], k, where, tempItems, toRelease, owner)
    BY DEF LuaInv
  <2> QED BY <1>1, <2>1 DEF HandsFine, StillFine
<1> QED BY <1>2 DEF LuaInv

LEMMA SameFine ==
  \A w, temp, rel, own : StillFine(w, temp, rel, own, w, temp, rel, own)
BY DEF StillFine

(* Nothing changes but what the innermost script holds, and the garbage.   *)
LEMMA HandsStep ==
  ASSUME LuaInv, Lua!Top > 0, UNCHANGED <<envIndex, tempItems, Lua!world, owner, timers>>,
         NEW hs, HandsFine(hs, Lua!Top, where, tempItems, toRelease, owner), Lua!Hold(hs),
         GarbageFine(garbage', owner)
  PROVE  LuaInv'
<1>1. /\ where' = where /\ tempItems' = tempItems /\ toRelease' = toRelease
      /\ owner' = owner /\ timers' = timers
  BY DEF Lua!world
<1>2. /\ Worlds(where', tempItems', toRelease', envIndex)
      /\ owner' \in Owners /\ TimersFine(timers', owner')
  BY <1>1 DEF LuaInv
<1>3. StillFine(where, tempItems, toRelease, owner, where', tempItems', toRelease', owner')
  BY <1>1, SameFine
<1>4. HandsFine(hs, Lua!Top, where', tempItems', toRelease', owner') /\ GarbageFine(garbage', owner')
  BY <1>1
<1> QED BY <1>2, <1>3, <1>4, ScriptStep

LEMMA PushStep ==
  ASSUME LuaInv, Lua!Top > 0, UNCHANGED <<envIndex, tempItems, Lua!world, owner, garbage, Lua!lua>>,
         NEW c \in Classes, NEW g \in Lua!PushUserdata(c), Lua!Hold(Lua!Held \cup {g})
  PROVE  LuaInv'
<1>1. HandsFine(Lua!Held, Lua!Top, where, tempItems, toRelease, owner)
  BY HeldFine
<1>2. HandsFine(Lua!Held \cup {g}, Lua!Top, where, tempItems, toRelease, owner)
  BY <1>1, Pushed DEF HandsFine
<1>3. GarbageFine(garbage', owner)
  BY DEF LuaInv
<1> QED BY <1>2, <1>3, HandsStep DEF Lua!lua

LEMMA ReadOK == ASSUME LuaInv, NEW h, Lua!Read(h) PROVE LuaInv'
BY PushStep DEF Lua!Read, Lua!Holding

LEMMA LookUpOK == ASSUME LuaInv, Lua!LookUp PROVE LuaInv'
BY PushStep DEF Lua!LookUp

LEMMA ForgetOK == ASSUME LuaInv, NEW h, Lua!Forget(h) PROVE LuaInv'
<1>1. Lua!Top > 0 /\ h \in Lua!Held /\ Lua!Hold(Lua!Held \ {h})
  BY DEF Lua!Forget, Lua!Holding
<1>2. HandsFine(Lua!Held, Lua!Top, where, tempItems, toRelease, owner)
  BY <1>1, HeldFine
<1>3. HandsFine(Lua!Held \ {h}, Lua!Top, where, tempItems, toRelease, owner)
  BY <1>2 DEF HandsFine
<1>4. h \in Handed /\ NotLent(h, owner)
  BY <1>1, <1>2 DEF HandsFine, Fine
<1>5. GarbageFine(garbage', owner)
  BY <1>4 DEF Lua!Forget, LuaInv, GarbageFine
<1>6. UNCHANGED <<envIndex, tempItems, Lua!world, owner, timers>>
  BY DEF Lua!Forget, Lua!lua
<1> QED BY <1>1, <1>3, <1>5, <1>6, HandsStep

LEMMA GetConditionOK == ASSUME LuaInv, Lua!GetCondition PROVE LuaInv'
<1>1. PICK o \in Conds : /\ Lua!Top > 0
                        /\ Lua!Hold(Lua!Held \cup {Lua!WeakUserdata("Condition", o)})
  BY DEF Lua!GetCondition
<1>2. PICK g : g = Lua!WeakUserdata("Condition", o)
  OBVIOUS
<1>3. g = [class |-> "Condition", object |-> o, weak |-> TRUE]
  BY <1>2 DEF Lua!WeakUserdata, Lua!Userdata
<1>4. g \in Handed
  BY <1>3 DEF Handed, Objects
<1>5. o \notin Lua!Things
  BY ScriptsAssumption DEF Lua!Things
<1>6. Fine(g, Lua!Top, where, tempItems, toRelease, owner)
  BY <1>3, <1>5 DEF Fine, NotLent
<1>7. HandsFine(Lua!Held \cup {g}, Lua!Top, where, tempItems, toRelease, owner)
  BY <1>1, <1>4, <1>6, HeldFine DEF HandsFine
<1>8. GarbageFine(garbage', owner)
  BY DEF LuaInv, Lua!GetCondition
<1>9. UNCHANGED <<envIndex, tempItems, Lua!world, owner, timers>>
  BY DEF Lua!GetCondition, Lua!lua
<1> QED BY <1>1, <1>2, <1>7, <1>8, <1>9, HandsStep

-----------------------------------------------------------------------------
(* Steps that make, move, remove or free things.                           *)

LEMMA CreateItemOK == ASSUME LuaInv, Lua!CreateItem \/ Lua!AddItem PROVE LuaInv'
<1>1. PICK i \in Items : /\ MadeAt(where, tempItems, i, envIndex, where', tempItems')
                        /\ Lua!Top > 0 /\ Lua!Hold(Lua!Held \cup {Lua!NewItem(i)})
  BY HeldFine DEF Lua!CreateItem, Lua!AddItem, Lua!Unused, MadeAt
<1>2. UNCHANGED <<envIndex, toRelease, owner, garbage, timers>>
  BY DEF Lua!CreateItem, Lua!AddItem, Lua!lua
<1>3. Worlds(where, tempItems, toRelease, envIndex) /\ Lua!Top = envIndex
  BY HeldFine DEF LuaInv
<1>4. /\ Worlds(where', tempItems', toRelease, envIndex) /\ Lua!NewItem(i) \in Handed
      /\ \A own : Fine(Lua!NewItem(i), envIndex, where', tempItems', toRelease, own)
      /\ \A h, k, own : k \in DOMAIN tempItems /\ Fine(h, k, where, tempItems, toRelease, own)
                         => Fine(h, k, where', tempItems', toRelease, own)
  BY <1>1, <1>3, MadeOK
<1>5. StillFine(where, tempItems, toRelease, owner, where', tempItems', toRelease', owner')
  BY <1>2, <1>4 DEF StillFine
<1>6. HandsFine(Lua!Held \cup {Lua!NewItem(i)}, Lua!Top, where', tempItems', toRelease', owner')
  <2>1. HandsFine(Lua!Held, Lua!Top, where, tempItems, toRelease, owner)
        /\ Lua!Top \in DOMAIN tempItems
    BY <1>1, HeldFine
  <2>2. HandsFine(Lua!Held, Lua!Top, where', tempItems', toRelease', owner')
    BY <1>5, <2>1 DEF HandsFine, StillFine
  <2> QED BY <1>2, <1>3, <1>4, <2>2 DEF HandsFine
<1>7. owner' \in Owners /\ TimersFine(timers', owner') /\ GarbageFine(garbage', owner')
  BY <1>2 DEF LuaInv
<1>8. Worlds(where', tempItems', toRelease', envIndex)
  BY <1>2, <1>4
<1> QED BY <1>1, <1>2, <1>5, <1>6, <1>7, <1>8, ScriptStep

(* A step that moves one thing, and changes no hands.                      *)
LEMMA MoveStep ==
  ASSUME LuaInv, NEW t, UNCHANGED <<envIndex, owner, garbage, timers>>,
         Moved(where, tempItems, toRelease, t, where', tempItems', toRelease')
  PROVE  /\ Worlds(where', tempItems', toRelease', envIndex)
         /\ StillFine(where, tempItems, toRelease, owner, where', tempItems', toRelease', owner')
         /\ owner' \in Owners /\ TimersFine(timers', owner') /\ GarbageFine(garbage', owner')
<1>1. Worlds(where, tempItems, toRelease, envIndex)
  BY DEF LuaInv
<1>2. /\ Worlds(where', tempItems', toRelease', envIndex)
      /\ \A h, k, own : k \in DOMAIN tempItems /\ Fine(h, k, where, tempItems, toRelease, own)
                         => Fine(h, k, where', tempItems', toRelease', own)
  BY <1>1, MovedOK
<1> QED BY <1>2 DEF StillFine, LuaInv

(* An item that a script holds, and that has no place, is not released.    *)
LEMMA HeldItem ==
  ASSUME LuaInv, NEW h, Lua!Holding(h), h.object \in Items
  PROVE  /\ h.object \in Lua!Things
         /\ where[h.object] = "virtual" => h.object \notin toRelease
         /\ DOMAIN tempItems = 1 .. MaxEnv + 1
BY HeldFine DEF Lua!Holding, HandsFine, Fine, Lua!Things, LuaInv, Worlds

LEMMA AddItemExOK == ASSUME LuaInv, NEW h, Lua!AddItemEx(h) PROVE LuaInv'
<1>1. Lua!Holding(h) /\ h.object \in Items /\ where[h.object] = "virtual"
  BY DEF Lua!AddItemEx
<1>2. Moved(where, tempItems, toRelease, h.object, where', tempItems', toRelease')
  BY <1>1, HeldItem DEF Lua!AddItemEx, Moved, Lua!RemoveTempItem
<1>3. UNCHANGED <<envIndex, running, owner, garbage, timers>>
  BY DEF Lua!AddItemEx, Lua!lua
<1> QED BY <1>2, <1>3, MoveStep, OtherStep

LEMMA MoveToOK == ASSUME LuaInv, NEW h, Lua!MoveTo(h) PROVE LuaInv'
<1>1. Lua!Holding(h) /\ h.object \in Items /\ where[h.object] = "virtual"
  BY DEF Lua!MoveTo
<1>2. Moved(where, tempItems, toRelease, h.object, where', tempItems', toRelease')
  BY <1>1, HeldItem DEF Lua!MoveTo, Moved, Lua!RemoveTempItem
<1>3. UNCHANGED <<envIndex, running, owner, garbage, timers>>
  BY DEF Lua!MoveTo, Lua!lua
<1> QED BY <1>2, <1>3, MoveStep, OtherStep

LEMMA RemoveThingOK == ASSUME LuaInv, NEW t \in Lua!Things, Lua!RemoveThing(t) PROVE LuaInv'
<1>1. Moved(where, tempItems, toRelease, t, where', tempItems', toRelease')
  BY DEF Lua!RemoveThing, Moved, Lua!RemoveTempItem
<1>2. UNCHANGED <<envIndex, running, owner, garbage, timers>>
  BY DEF Lua!RemoveThing, Lua!lua
<1> QED BY <1>1, <1>2, MoveStep, OtherStep

LEMMA RemoveCreatureOK == ASSUME LuaInv, NEW h, Lua!RemoveCreature(h) PROVE LuaInv'
<1>1. /\ Lua!Top > 0 /\ h.object \in Lua!Things /\ where[h.object] = "world"
      /\ Lua!Hold(Lua!Held \ {h})
  BY DEF Lua!RemoveCreature, Lua!Things, Lua!Holding
<1>2. Moved(where, tempItems, toRelease, h.object, where', tempItems', toRelease')
  BY <1>1 DEF Lua!RemoveCreature, Moved
<1>3. UNCHANGED <<envIndex, owner, garbage, timers>>
  BY DEF Lua!RemoveCreature, Lua!lua
<1>4. /\ Worlds(where', tempItems', toRelease', envIndex)
      /\ StillFine(where, tempItems, toRelease, owner, where', tempItems', toRelease', owner')
      /\ owner' \in Owners /\ TimersFine(timers', owner') /\ GarbageFine(garbage', owner')
  BY <1>2, <1>3, MoveStep
<1>5. HandsFine(Lua!Held \ {h}, Lua!Top, where', tempItems', toRelease', owner')
  BY <1>1, <1>4, HeldFine DEF HandsFine, StillFine
<1> QED BY <1>1, <1>3, <1>4, <1>5, ScriptStep

(* The new item first, then the old one goes.                              *)
LEMMA TransformOK == ASSUME LuaInv, NEW h, Lua!Transform(h) PROVE LuaInv'
<1>1. /\ Lua!Holding(h) /\ Lua!Top > 0 /\ h.object \in Items /\ where[h.object] = "world"
      /\ h.object \in Lua!Things
  BY DEF Lua!Transform, Lua!Holding, Lua!Things
<1>2. PICK i \in Items :
        /\ where[i] = "none"
        /\ where' = [where EXCEPT ![h.object] = "removed", ![i] = "world"]
        /\ Lua!Hold((Lua!Held \ {h}) \cup {Lua!NewItem(i)})
  BY DEF Lua!Transform, Lua!Unused
<1>3. /\ toRelease' = toRelease \cup {h.object}
      /\ UNCHANGED <<envIndex, tempItems, owner, garbage, timers>>
  BY DEF Lua!Transform, Lua!lua
<1>4. PICK w : w = [where EXCEPT ![i] = "world"]
  OBVIOUS
<1>5. Worlds(where, tempItems, toRelease, envIndex) /\ Lua!Top = envIndex
  BY HeldFine DEF LuaInv
<1>6. where \in [Lua!Things -> Wheres] /\ i \in Lua!Things /\ i # h.object
  BY <1>1, <1>2, <1>5 DEF Worlds, Lua!Things
<1>7. MadeAt(where, tempItems, i, envIndex, w, tempItems)
  BY <1>2, <1>4 DEF MadeAt
<1>8. /\ Worlds(w, tempItems, toRelease, envIndex) /\ Lua!NewItem(i) \in Handed
      /\ \A own : Fine(Lua!NewItem(i), envIndex, w, tempItems, toRelease, own)
      /\ \A g, k, own : k \in DOMAIN tempItems /\ Fine(g, k, where, tempItems, toRelease, own)
                         => Fine(g, k, w, tempItems, toRelease, own)
  BY <1>5, <1>7, MadeOK
<1>9. Moved(w, tempItems, toRelease, h.object, where', tempItems', toRelease')
  <2>1. w[h.object] = "world"
    BY <1>1, <1>4, <1>6
  <2>2. where' = [w EXCEPT ![h.object] = "removed"]
    BY <1>1, <1>2, <1>4, <1>6
  <2> QED BY <1>1, <1>3, <2>1, <2>2 DEF Moved
<1>10. /\ Worlds(where', tempItems', toRelease', envIndex)
       /\ \A g, k, own : k \in DOMAIN tempItems /\ Fine(g, k, w, tempItems, toRelease, own)
                          => Fine(g, k, where', tempItems', toRelease', own)
  BY <1>8, <1>9, MovedOK
<1>11. StillFine(where, tempItems, toRelease, owner, where', tempItems', toRelease', owner')
  BY <1>3, <1>8, <1>10 DEF StillFine
<1>12. Lua!Top \in DOMAIN tempItems
       /\ HandsFine(Lua!Held, Lua!Top, where, tempItems, toRelease, owner)
  BY <1>1, HeldFine
<1>13. HandsFine((Lua!Held \ {h}) \cup {Lua!NewItem(i)}, Lua!Top,
                 where', tempItems', toRelease', owner')
  <2>1. HandsFine(Lua!Held, Lua!Top, where', tempItems', toRelease', owner')
    BY <1>11, <1>12 DEF HandsFine, StillFine
  <2>2. Fine(Lua!NewItem(i), Lua!Top, where', tempItems', toRelease', owner')
    BY <1>5, <1>8, <1>10, <1>12
  <2> QED BY <1>8, <2>1, <2>2 DEF HandsFine
<1>14. owner' \in Owners /\ TimersFine(timers', owner') /\ GarbageFine(garbage', owner')
  BY <1>3 DEF LuaInv
<1> QED BY <1>1, <1>2, <1>3, <1>10, <1>11, <1>13, <1>14, ScriptStep

-----------------------------------------------------------------------------
(* Conditions.                                                             *)

(* What owns a condition changes, and none that a script made goes to a    *)
(* creature.                                                               *)
LEMMA OwnerStep ==
  ASSUME LuaInv, UNCHANGED <<envIndex, tempItems, Lua!world, timers>>, Owned(owner, owner'),
         garbage' \subseteq garbage
  PROVE  /\ Worlds(where', tempItems', toRelease', envIndex)
         /\ StillFine(where, tempItems, toRelease, owner, where', tempItems', toRelease', owner')
         /\ owner' \in Owners /\ TimersFine(timers', owner') /\ GarbageFine(garbage', owner')
         /\ Lua!Top > 0 =>
              HandsFine(Lua!Held, Lua!Top, where', tempItems', toRelease', owner')
<1>1. /\ where' = where /\ tempItems' = tempItems /\ toRelease' = toRelease /\ timers' = timers
  BY DEF Lua!world
<1>2. StillFine(where, tempItems, toRelease, owner, where', tempItems', toRelease', owner')
  BY <1>1, OwnedFine
<1>3. TimersFine(timers', owner') /\ GarbageFine(garbage', owner')
  BY <1>1, OwnedOK DEF LuaInv, TimersFine, GarbageFine
<1>4. Lua!Top > 0 => HandsFine(Lua!Held, Lua!Top, where', tempItems', toRelease', owner')
  BY <1>2, HeldFine DEF HandsFine, StillFine
<1> QED BY <1>1, <1>2, <1>3, <1>4 DEF LuaInv, Owned

LEMMA CreateConditionOK == ASSUME LuaInv, Lua!CreateCondition PROVE LuaInv'
<1>1. PICK o \in Conds :
        /\ owner[o] = "none" /\ owner' = [owner EXCEPT ![o] = "script"] /\ Lua!Top > 0
        /\ Lua!Hold(Lua!Held \cup {Lua!Userdata("Condition", o, FALSE)})
  BY DEF Lua!CreateCondition
<1>2. UNCHANGED <<envIndex, tempItems, Lua!world, timers>> /\ garbage' \subseteq garbage
  BY DEF Lua!CreateCondition, Lua!lua
<1>3. Owned(owner, owner') /\ owner'[o] = "script"
  BY <1>1 DEF LuaInv, Owned, Owners
<1>4. /\ Worlds(where', tempItems', toRelease', envIndex)
      /\ StillFine(where, tempItems, toRelease, owner, where', tempItems', toRelease', owner')
      /\ owner' \in Owners /\ TimersFine(timers', owner') /\ GarbageFine(garbage', owner')
      /\ HandsFine(Lua!Held, Lua!Top, where', tempItems', toRelease', owner')
  BY <1>1, <1>2, <1>3, OwnerStep
<1>5. PICK g : g = Lua!Userdata("Condition", o, FALSE)
  OBVIOUS
<1>6. g = [class |-> "Condition", object |-> o, weak |-> FALSE]
  BY <1>5 DEF Lua!Userdata
<1>7. g \in Handed /\ o \notin Lua!Things
  BY <1>6, ScriptsAssumption DEF Handed, Objects, Lua!Things
<1>8. HandsFine(Lua!Held \cup {g}, Lua!Top, where', tempItems', toRelease', owner')
  <2>1. NotLent(g, owner')
    BY <1>3, <1>6 DEF NotLent
  <2>2. Fine(g, Lua!Top, where', tempItems', toRelease', owner')
    BY <1>6, <1>7, <2>1 DEF Fine
  <2> QED BY <1>4, <1>7, <2>2 DEF HandsFine
<1> QED BY <1>1, <1>2, <1>4, <1>5, <1>8, ScriptStep

LEMMA AddConditionOK == ASSUME LuaInv, NEW h, Lua!AddCondition(h) PROVE LuaInv'
<1>1. PICK o \in Conds : owner[o] = "none" /\ owner' = [owner EXCEPT ![o] = "engine"]
  BY DEF Lua!AddCondition
<1>2. /\ UNCHANGED <<envIndex, running, tempItems, Lua!world, timers>>
      /\ garbage' \subseteq garbage
  BY DEF Lua!AddCondition, Lua!lua
<1>3. Owned(owner, owner')
  BY <1>1 DEF LuaInv, Owned, Owners
<1> QED BY <1>2, <1>3, OwnerStep, OtherStep

LEMMA DeleteConditionOK == ASSUME LuaInv, NEW h, Lua!DeleteCondition(h) PROVE LuaInv'
<1>1. /\ Lua!Top > 0 /\ h \in Lua!Held /\ h.object \in Conds /\ ~h.weak
      /\ owner' = [owner EXCEPT ![h.object] = "freed"] /\ Lua!Hold(Lua!Held \ {h})
  BY DEF Lua!DeleteCondition, Lua!Holding
<1>2. UNCHANGED <<envIndex, tempItems, Lua!world, timers>> /\ garbage' \subseteq garbage
  BY DEF Lua!DeleteCondition, Lua!lua
<1>3. Owned(owner, owner')
  BY <1>1 DEF LuaInv, Owned, Owners
<1>4. /\ Worlds(where', tempItems', toRelease', envIndex)
      /\ StillFine(where, tempItems, toRelease, owner, where', tempItems', toRelease', owner')
      /\ owner' \in Owners /\ TimersFine(timers', owner') /\ GarbageFine(garbage', owner')
      /\ HandsFine(Lua!Held, Lua!Top, where', tempItems', toRelease', owner')
  BY <1>1, <1>2, <1>3, OwnerStep
<1>5. HandsFine(Lua!Held \ {h}, Lua!Top, where', tempItems', toRelease', owner')
  BY <1>4 DEF HandsFine
<1> QED BY <1>1, <1>2, <1>4, <1>5, ScriptStep

LEMMA CollectOK == ASSUME LuaInv, Lua!Collect PROVE LuaInv'
<1>1. PICK h \in garbage :
        /\ garbage' = garbage \ {h}
        /\ owner' = IF h.class \in Lua!Collected /\ ~h.weak
                    THEN [owner EXCEPT ![h.object] = "freed"] ELSE owner
        /\ UNCHANGED <<envIndex, running, tempItems, Lua!world, Lua!lua>>
  BY DEF Lua!Collect
<1>2. Owned(owner, owner')
  BY <1>1 DEF LuaInv, Owned, Owners
<1>3. UNCHANGED <<envIndex, running, tempItems, Lua!world, timers>> /\ garbage' \subseteq garbage
  BY <1>1 DEF Lua!lua
<1> QED BY <1>2, <1>3, OwnerStep, OtherStep

-----------------------------------------------------------------------------
(* Timers, queries, and the environments.                                  *)

(* Nothing changes but the timers.                                         *)
LEMMA TimersStep ==
  ASSUME LuaInv, UNCHANGED <<envIndex, running, tempItems, Lua!world, owner, garbage>>,
         TimersFine(timers', owner)
  PROVE  LuaInv'
<1>1. /\ where' = where /\ tempItems' = tempItems /\ toRelease' = toRelease
      /\ owner' = owner /\ garbage' = garbage
  BY DEF Lua!world
<1>2. /\ Worlds(where', tempItems', toRelease', envIndex)
      /\ owner' \in Owners /\ TimersFine(timers', owner') /\ GarbageFine(garbage', owner')
  BY <1>1 DEF LuaInv
<1>3. StillFine(where, tempItems, toRelease, owner, where', tempItems', toRelease', owner')
  BY <1>1, SameFine
<1> QED BY <1>2, <1>3, OtherStep

LEMMA AddEventOK == ASSUME LuaInv, NEW h, Lua!AddEvent(h) PROVE LuaInv'
<1>1. /\ Lua!Top > 0 /\ h \in Lua!Held /\ timers' = Append(timers, Lua!ConvertUnsafe(h))
      /\ UNCHANGED <<envIndex, running, tempItems, Lua!world, owner, garbage>>
  BY DEF Lua!AddEvent, Lua!Holding
<1>2. PICK g : g = Lua!ConvertUnsafe(h)
  OBVIOUS
<1>3. h \in Handed /\ NotLent(h, owner) /\ (h.object \in Lua!Things => h.class \in Lua!ThingTypes)
  BY <1>1, HeldFine DEF HandsFine, Fine
<1>4. g \in Handed /\ g.object \notin Lua!Things /\ NotLent(g, owner)
  <2>1. CASE h.class \in Lua!ThingTypes
    <3>1. g = [class |-> "Value", object |-> Lua!None, weak |-> FALSE]
      BY <1>2, <2>1 DEF Lua!ConvertUnsafe, Lua!Userdata
    <3> QED BY <3>1, ScriptsAssumption DEF Handed, Objects, NotLent, Lua!None, Lua!Things
  <2>2. CASE h.class \notin Lua!ThingTypes
    BY <1>2, <1>3, <2>2 DEF Lua!ConvertUnsafe
  <2> QED BY <2>1, <2>2
<1>5. TimersFine(timers', owner)
  <2>1. TimersFine(timers, owner)
    BY DEF LuaInv
  <2>2. PICK ts : ts = Append(timers, g)
    OBVIOUS
  <2>3. TimersFine(ts, owner)
    BY <1>4, <2>1, <2>2 DEF TimersFine
  <2> QED BY <1>1, <1>2, <2>2, <2>3
<1> QED BY <1>1, <1>5, TimersStep

LEMMA WithoutOK ==
  ASSUME LuaInv, NEW k \in DOMAIN timers
  PROVE  TimersFine(Lua!Without(timers, k), owner)
<1>1. TimersFine(timers, owner)
  BY DEF LuaInv
<1>2. PICK a : a = SubSeq(timers, 1, k - 1)
  OBVIOUS
<1>3. PICK b : b = SubSeq(timers, k + 1, Len(timers))
  OBVIOUS
<1>4. TimersFine(a, owner)
  BY <1>1, <1>2 DEF TimersFine
<1>5. TimersFine(b, owner)
  BY <1>1, <1>3 DEF TimersFine
<1>6. PICK c : c = a \o b
  OBVIOUS
<1>7. TimersFine(c, owner)
  <2>1. a \in Seq(Handed) /\ b \in Seq(Handed) /\ c \in Seq(Handed)
    BY <1>4, <1>5, <1>6 DEF TimersFine
  <2>2. \A x \in DOMAIN c : \/ x \in DOMAIN a /\ c[x] = a[x]
                            \/ x - Len(a) \in DOMAIN b /\ c[x] = b[x - Len(a)]
    BY <1>6, <2>1
  <2> QED BY <1>4, <1>5, <2>1, <2>2 DEF TimersFine
<1> QED BY <1>2, <1>3, <1>6, <1>7 DEF Lua!Without

LEMMA StopEventOK == ASSUME LuaInv, NEW k \in DOMAIN timers, Lua!StopEvent(k) PROVE LuaInv'
BY WithoutOK, TimersStep DEF Lua!StopEvent

LEMMA QueryOK == ASSUME LuaInv, Lua!StoreQuery \/ Lua!FreeResult PROVE LuaInv'
BY TimersStep DEF Lua!StoreQuery, Lua!FreeResult, LuaInv

(* A script begins, in the next environment.                               *)
LEMMA EnterStep ==
  ASSUME LuaInv, envIndex < MaxEnv, envIndex' = envIndex + 1,
         NEW hs, HandsFine(hs, envIndex + 1, where, tempItems, toRelease, owner),
         running' = Append(running, hs),
         UNCHANGED <<tempItems, where, toRelease, owner, garbage>>, TimersFine(timers', owner)
  PROVE  LuaInv'
<1>1. PICK n : n = envIndex
  OBVIOUS
<1>2. /\ n \in Nat /\ MaxEnv \in Nat /\ n < MaxEnv /\ n = Len(running)
      /\ Worlds(where, tempItems, toRelease, n)
  BY <1>1, ScriptsAssumption DEF LuaInv, Worlds
<1>3. Placed(where, tempItems, toRelease, n + 1)
  BY <1>2 DEF Worlds, Placed
<1>4. Worlds(where, tempItems, toRelease, n + 1)
  BY <1>2, <1>3 DEF Worlds
<1>5. PICK r : r = Append(running, hs)
  OBVIOUS
<1>6. /\ r \in Seq(SUBSET Handed) /\ Len(r) = n + 1 /\ r[n + 1] = hs
      /\ \A k \in DOMAIN running : r[k] = running[k]
      /\ \A k \in DOMAIN r : k = n + 1 \/ k \in DOMAIN running
  BY <1>2, <1>5 DEF LuaInv, HandsFine
<1>7. \A k \in DOMAIN r : HandsFine(r[k], k, where, tempItems, toRelease, owner)
  BY <1>1, <1>6 DEF LuaInv
<1> QED BY <1>1, <1>4, <1>5, <1>6, <1>7 DEF LuaInv

LEMMA RunScriptOK == ASSUME LuaInv, MaxNesting <= MaxEnv, Lua!RunScript PROVE LuaInv'
<1>1. envIndex < MaxEnv
  BY HeldFine, ScriptsAssumption DEF Lua!RunScript, LuaInv, Worlds
<1>2. /\ envIndex' = envIndex + 1
      /\ UNCHANGED <<tempItems, where, toRelease, owner, garbage, timers>>
  BY DEF Lua!RunScript, Lua!ReserveScriptEnv
<1>3. PICK c \in Classes : \E h \in Lua!PushUserdata(c) : running' = Append(running, {h})
  BY <1>1 DEF Lua!RunScript
<1>4. PICK h \in Lua!PushUserdata(c) : running' = Append(running, {h})
  BY <1>3
<1>5. HandsFine({h}, envIndex + 1, where, tempItems, toRelease, owner)
  BY Pushed DEF HandsFine
<1>6. TimersFine(timers', owner)
  BY <1>2 DEF LuaInv
<1> QED BY <1>1, <1>2, <1>4, <1>5, <1>6, EnterStep

LEMMA ExecuteTimerEventOK ==
  ASSUME LuaInv, NEW k \in DOMAIN timers, Lua!ExecuteTimerEvent(k)
  PROVE  LuaInv'
<1>1. /\ envIndex < MaxEnv /\ envIndex' = envIndex + 1 /\ Lua!Top = 0
      /\ UNCHANGED <<tempItems, where, toRelease, owner, garbage>>
      /\ timers' = Lua!Without(timers, k)
  BY DEF Lua!ExecuteTimerEvent, Lua!ReserveScriptEnv, Lua!world
<1>2. PICK hs : hs = IF timers[k].class = "Value" THEN {} ELSE {timers[k]}
  OBVIOUS
<1>3. /\ timers[k] \in Handed /\ timers[k].object \notin Lua!Things
      /\ NotLent(timers[k], owner)
  BY DEF LuaInv, TimersFine
<1>4. HandsFine(hs, envIndex + 1, where, tempItems, toRelease, owner)
  BY <1>2, <1>3 DEF HandsFine, Fine
<1>5. running' = Append(running, hs)
  <2>1. running = <<>>
    BY <1>1 DEF LuaInv, Lua!Top
  <2>2. running' = <<hs>>
    BY <1>2 DEF Lua!ExecuteTimerEvent
  <2> QED BY <2>1, <2>2
<1>6. TimersFine(timers', owner)
  BY <1>1, WithoutOK
<1> QED BY <1>1, <1>4, <1>5, <1>6, EnterStep

(* A script ends: its items without a place are of no other environment,   *)
(* and no other script holds one of them.                                  *)
LEMMA EndScriptOK == ASSUME LuaInv, Lua!EndScript PROVE LuaInv'
<1>1. PICK n : n = envIndex
  OBVIOUS
<1>2. PICK temp2 : temp2 = [tempItems EXCEPT ![n] = {}]
  OBVIOUS
<1>3. PICK rel2, again : /\ again \subseteq {i \in tempItems[n] : where[i] = "lost"}
                         /\ rel2 = toRelease \cup {i \in tempItems[n] : where[i] = "virtual"}
                                    \cup again
                         /\ toRelease' = rel2
  BY <1>1 DEF Lua!EndScript, Lua!ReleasedByReset
<1>4. /\ n > 0 /\ n \in 1 .. MaxEnv /\ n \in 1 .. MaxEnv + 1 /\ n = Len(running)
      /\ n - 1 \in 0 .. MaxEnv
  BY <1>1, HeldFine, ScriptsAssumption DEF LuaInv, Worlds, Lua!EndScript
<1>5. /\ tempItems' = temp2 /\ toRelease' = rel2 /\ envIndex' = n - 1
      /\ running' = SubSeq(running, 1, n - 1)
      /\ garbage' = garbage \cup {h \in Lua!Held : h.object \in Conds}
      /\ where' = where /\ owner' = owner /\ timers' = timers
  BY <1>1, <1>2, <1>3, HeldFine DEF Lua!EndScript
<1>6. /\ where \in [Lua!Things -> Wheres] /\ tempItems \in [1 .. MaxEnv + 1 -> SUBSET Items]
      /\ toRelease \subseteq Lua!Things /\ Placed(where, tempItems, toRelease, n)
      /\ Items \subseteq Lua!Things
  BY <1>1 DEF LuaInv, Worlds, Lua!Things
<1>7. /\ temp2 \in [1 .. MaxEnv + 1 -> SUBSET Items] /\ temp2[n] = {}
      /\ \A e \in 1 .. MaxEnv + 1 : e # n => temp2[e] = tempItems[e]
      /\ rel2 \subseteq Lua!Things
  BY <1>2, <1>3, <1>4, <1>6
<1>8. Placed(where, temp2, rel2, n - 1)
  <2>1. /\ \A t \in Lua!Things : where[t] = "removed" => t \in rel2
        /\ \A t \in rel2 : where[t] \in {"removed", "virtual", "lost"}
    BY <1>3, <1>6 DEF Placed
  <2>2. \A i \in Items : where[i] = "virtual" => i \in rel2 \/ \E e \in 1 .. n - 1 : i \in temp2[e]
    <3> SUFFICES ASSUME NEW i \in Items, where[i] = "virtual", i \notin rel2
                 PROVE  \E e \in 1 .. n - 1 : i \in temp2[e]
      OBVIOUS
    <3>1. PICK e \in 1 .. n : i \in tempItems[e]
      BY <1>3, <1>6 DEF Placed
    <3>2. e # n
      BY <1>3, <3>1
    <3>3. e \in 1 .. n - 1 /\ e \in 1 .. MaxEnv + 1
      BY <1>4, <3>1, <3>2, ScriptsAssumption
    <3> QED BY <1>7, <3>1, <3>2, <3>3
  <2>3. \A e \in DOMAIN temp2 : e > n - 1 => temp2[e] = {}
    BY <1>4, <1>6, <1>7 DEF Placed
  <2>4. /\ \A e \in DOMAIN temp2 : \A i \in temp2[e] : where[i] \notin {"none", "freed"}
        /\ \A e, f \in DOMAIN temp2 : \A i \in Items : i \in temp2[e] /\ i \in temp2[f] => e = f
    BY <1>6, <1>7 DEF Placed
  <2> QED BY <2>1, <2>2, <2>3, <2>4 DEF Placed
<1>9. Worlds(where, temp2, rel2, n - 1)
  BY <1>4, <1>6, <1>7, <1>8 DEF Worlds
<1>10. PICK r : r = SubSeq(running, 1, n - 1)
  OBVIOUS
<1>11. /\ r \in Seq(SUBSET Handed) /\ Len(r) = n - 1 /\ DOMAIN r = 1 .. n - 1
       /\ \A k \in DOMAIN r : r[k] = running[k] /\ k \in DOMAIN running /\ k # n
                             /\ k \in 1 .. MaxEnv + 1
  <2>1. PICK run : run = running
    OBVIOUS
  <2>2. run \in Seq(SUBSET Handed) /\ r = SubSeq(run, 1, n - 1) /\ n = Len(run)
    BY <1>4, <1>10, <2>1 DEF LuaInv
  <2>3. /\ r \in Seq(SUBSET Handed) /\ Len(r) = n - 1 /\ DOMAIN r = 1 .. n - 1
        /\ \A k \in DOMAIN r : r[k] = run[k] /\ k \in 1 .. n
    BY <1>4, <2>2
  <2>4. \A k \in 1 .. n - 1 : k # n /\ k \in 1 .. MaxEnv + 1
    BY <1>4, ScriptsAssumption
  <2>5. DOMAIN run = 1 .. n
    BY <2>2
  <2> QED BY <2>1, <2>3, <2>4, <2>5
<1>12. ASSUME NEW k \in DOMAIN r, NEW h \in r[k]
       PROVE  Fine(h, k, where, temp2, rel2, owner)
  <2>1. Fine(h, k, where, tempItems, toRelease, owner)
    BY <1>11 DEF LuaInv, HandsFine
  <2>2. ASSUME h.object \in tempItems[k], h.object \notin toRelease
        PROVE  h.object \in temp2[k] /\ h.object \notin rel2
    <3>1. h.object \in Items
      BY <1>6, <1>11, <2>2
    <3>2. h.object \notin tempItems[n]
      BY <1>4, <1>6, <1>11, <2>2, <3>1 DEF Placed
    <3> QED BY <1>3, <1>7, <1>11, <2>2, <3>2
  <2> QED BY <2>1, <2>2 DEF Fine
<1>13. \A k \in DOMAIN r : HandsFine(r[k], k, where, temp2, rel2, owner)
  BY <1>11, <1>12 DEF LuaInv, HandsFine
<1>14. GarbageFine(garbage', owner)
  BY <1>1, <1>4, <1>5, HeldFine DEF LuaInv, GarbageFine, HandsFine, Fine
<1> QED BY <1>5, <1>9, <1>10, <1>11, <1>13, <1>14 DEF LuaInv

(* No script runs while things are freed.                                  *)
LEMMA CleanupOK == ASSUME LuaInv, Lua!Cleanup PROVE LuaInv'
<1>1. PICK w : w = [t \in Lua!Things |-> IF t \in toRelease THEN "freed" ELSE where[t]]
  OBVIOUS
<1>2. /\ where' = w /\ toRelease' = {} /\ Lua!Top = 0
      /\ UNCHANGED <<envIndex, running, tempItems, owner, garbage, timers>>
  BY <1>1 DEF Lua!Cleanup, Lua!CleanupDue, Lua!Free
<1>3. envIndex = 0 /\ running = <<>>
  BY <1>2 DEF LuaInv, Lua!Top
<1>4. /\ where \in [Lua!Things -> Wheres] /\ tempItems \in [1 .. MaxEnv + 1 -> SUBSET Items]
      /\ Placed(where, tempItems, toRelease, 0) /\ Items \subseteq Lua!Things
  BY <1>3 DEF LuaInv, Worlds, Lua!Things
<1>5. w \in [Lua!Things -> Wheres]
  BY <1>1, <1>4 DEF Wheres
<1>6. Placed(w, tempItems, {}, 0)
  BY <1>1, <1>4 DEF Placed
<1>7. Worlds(w, tempItems, {}, 0)
  BY <1>4, <1>5, <1>6, ScriptsAssumption DEF Worlds
<1> QED BY <1>2, <1>3, <1>7 DEF LuaInv

(* A step inside a script frees only what was released: an item without a  *)
(* place that a script holds is not, and what is lost is not "freed".      *)
LEMMA StepInScriptOK == ASSUME LuaInv, Lua!StepInScript PROVE LuaInv'
<1>1. PICK w : w = [t \in Lua!Things |-> IF t \in toRelease THEN "lost" ELSE where[t]]
  OBVIOUS
<1>2. /\ where' = w /\ toRelease' = {} /\ tempItems' = tempItems /\ owner' = owner
      /\ UNCHANGED <<envIndex, running, garbage, timers>>
  BY <1>1 DEF Lua!StepInScript, Lua!Free
<1>3. /\ where \in [Lua!Things -> Wheres] /\ tempItems \in [1 .. MaxEnv + 1 -> SUBSET Items]
      /\ Placed(where, tempItems, toRelease, envIndex) /\ Items \subseteq Lua!Things
      /\ envIndex \in 0 .. MaxEnv
  BY DEF LuaInv, Worlds, Lua!Things
<1>4. w \in [Lua!Things -> Wheres]
  BY <1>1, <1>3 DEF Wheres
<1>5. Placed(w, tempItems, {}, envIndex)
  <2>1. \A t \in Lua!Things : w[t] # "removed"
    BY <1>1, <1>3 DEF Placed
  <2>2. \A i \in Items : w[i] = "virtual" => \E e \in 1 .. envIndex : i \in tempItems[e]
    BY <1>1, <1>3 DEF Placed
  <2>3. \A e \in DOMAIN tempItems : \A i \in tempItems[e] : w[i] \notin {"none", "freed"}
    BY <1>1, <1>3 DEF Placed
  <2>4. /\ \A e \in DOMAIN tempItems : e > envIndex => tempItems[e] = {}
        /\ \A e, f \in DOMAIN tempItems : \A i \in Items :
             i \in tempItems[e] /\ i \in tempItems[f] => e = f
    BY <1>3 DEF Placed
  <2> QED BY <2>1, <2>2, <2>3, <2>4 DEF Placed
<1>6. Worlds(w, tempItems, {}, envIndex)
  BY <1>3, <1>4, <1>5 DEF Worlds
<1>7. ASSUME NEW h, NEW k, Fine(h, k, where, tempItems, toRelease, owner)
      PROVE  Fine(h, k, w, tempItems, {}, owner)
  <2>1. h.object \in Lua!Things =>
          w[h.object] = IF h.object \in toRelease THEN "lost" ELSE where[h.object]
    BY <1>1
  <2> QED BY <1>7, <2>1 DEF Fine
<1>8. StillFine(where, tempItems, toRelease, owner, where', tempItems', toRelease', owner')
  BY <1>2, <1>7 DEF StillFine
<1>9. owner' \in Owners /\ TimersFine(timers', owner') /\ GarbageFine(garbage', owner')
  BY <1>2 DEF LuaInv
<1>10. Worlds(where', tempItems', toRelease', envIndex)
  BY <1>2, <1>6
<1> QED BY <1>2, <1>8, <1>9, <1>10, OtherStep

LEMMA LuaStep ==
  ASSUME LuaInv, MaxNesting <= MaxEnv, [Lua!Next]_scriptsVars
  PROVE  LuaInv'
<1>1. CASE UNCHANGED scriptsVars
  BY <1>1 DEF scriptsVars, LuaInv
<1>2. ASSUME NEW h,
             \/ Lua!Read(h) \/ Lua!Forget(h) \/ Lua!AddItemEx(h) \/ Lua!MoveTo(h)
             \/ Lua!Transform(h) \/ Lua!RemoveCreature(h)
             \/ Lua!AddCondition(h) \/ Lua!DeleteCondition(h) \/ Lua!AddEvent(h)
      PROVE  LuaInv'
  BY <1>2, ReadOK, ForgetOK, AddItemExOK, MoveToOK, TransformOK,
     RemoveCreatureOK, AddConditionOK, DeleteConditionOK, AddEventOK
<1>3. ASSUME NEW k \in DOMAIN timers, Lua!StopEvent(k) \/ Lua!ExecuteTimerEvent(k)
      PROVE  LuaInv'
  BY <1>3, StopEventOK, ExecuteTimerEventOK
<1>4. ASSUME \/ Lua!RunScript \/ Lua!EndScript \/ Lua!Cleanup \/ Lua!StepInScript
             \/ \E t \in Lua!Things : Lua!RemoveThing(t)
             \/ Lua!CreateItem \/ Lua!AddItem
             \/ Lua!CreateCondition \/ Lua!GetCondition \/ Lua!Collect \/ Lua!LookUp
             \/ Lua!StoreQuery \/ Lua!FreeResult
      PROVE  LuaInv'
  BY <1>4, RunScriptOK, EndScriptOK, CleanupOK, StepInScriptOK, RemoveThingOK,
     CreateItemOK, CreateConditionOK,
     GetConditionOK, CollectOK, LookUpOK, QueryOK
<1> QED BY <1>1, <1>2, <1>3, <1>4 DEF Lua!Next

LEMMA LentStep ==
  ASSUME LuaInv, [Lua!Next]_scriptsVars
  PROVE  Lua!LentConditionStays
<1> SUFFICES ASSUME NEW o \in Conds, owner[o] = "engine", owner'[o] = "freed" PROVE FALSE
  BY DEF Lua!LentConditionStays
<1>1. \/ Lua!CreateCondition
      \/ \E h \in Lua!Handles : Lua!AddCondition(h) \/ Lua!DeleteCondition(h)
      \/ Lua!Collect
  BY DEF scriptsVars, Lua!Next, Lua!RunScript, Lua!EndScript, Lua!Cleanup, Lua!CreateItem,
     Lua!AddItem, Lua!GetCondition, Lua!LookUp, Lua!StoreQuery, Lua!FreeResult, Lua!Read,
     Lua!Free, Lua!StepInScript, Lua!Forget, Lua!AddItemEx, Lua!MoveTo, Lua!RemoveThing,
     Lua!Transform,
     Lua!RemoveCreature, Lua!AddEvent, Lua!StopEvent, Lua!ExecuteTimerEvent
<1>2. owner \in Owners
  BY DEF LuaInv
<1>3. CASE Lua!CreateCondition \/ \E h \in Lua!Handles : Lua!AddCondition(h)
  BY <1>2, <1>3 DEF Lua!CreateCondition, Lua!AddCondition, Owners
<1>4. ASSUME NEW h, Lua!DeleteCondition(h) PROVE FALSE
  <2>1. NotLent(h, owner)
    BY <1>4, HeldFine DEF Lua!DeleteCondition, Lua!Holding, HandsFine, Fine
  <2> QED BY <1>2, <1>4, <2>1 DEF Lua!DeleteCondition, NotLent, Owners
<1>5. CASE Lua!Collect
  BY <1>2, <1>5 DEF Lua!Collect, LuaInv, GarbageFine, NotLent, Owners
<1> QED BY <1>1, <1>3, <1>4, <1>5

LEMMA LuaSound == LuaInv => Lua!HandlesAlive /\ Lua!MadeItemsKept
<1> SUFFICES ASSUME LuaInv PROVE Lua!HandlesAlive /\ Lua!MadeItemsKept
  OBVIOUS
<1>1. Lua!HandlesAlive
  <2>1. \A h \in Lua!Handles : h.object \in Lua!Things => where[h.object] # "freed"
    BY DEF Lua!Handles, LuaInv, HandsFine, Fine
  <2>2. \A e \in DOMAIN tempItems : \A i \in tempItems[e] : where[i] # "freed"
    BY DEF LuaInv, Worlds, Placed
  <2> QED BY <2>1, <2>2 DEF Lua!HandlesAlive
<1>2. Placed(where, tempItems, toRelease, envIndex) /\ Lua!Top = envIndex
  BY HeldFine DEF LuaInv, Worlds
<1>3. Lua!MadeItemsKept
  BY <1>2 DEF Lua!MadeItemsKept, Placed, Lua!Things
<1> QED BY <1>1, <1>3

ScriptsInv == part = "scripts" => LuaInv

(* While scripts nest no deeper than there are environments: an item or    *)
(* creature that a script holds is freed under it only by a step that a    *)
(* script makes a creature take, an item it made is placed or released     *)
(* when no script runs, and the collector frees no condition that a        *)
(* creature has, through every nesting, placing, removal, timer and        *)
(* collection (LuaScriptInterface: reserveScriptEnv, resetEnv,             *)
(* addTempItem, addEvent, executeTimerEvent, __gc; Game::cleanup).         *)
THEOREM ObjectsAlwaysSound == MaxNesting <= MaxEnv => (AnySpec => ObjectsSound)
<1> SUFFICES ASSUME MaxNesting <= MaxEnv PROVE AnySpec => ObjectsSound
  OBVIOUS
<1>1. AnyInit => ScriptsInv
  BY LuaInit DEF AnyInit, ScriptsInv
<1>2. ASSUME ScriptsInv, [AnyNext]_<<vars, part, partiesVars, chatVars, scriptsVars, registriesVars>>,
             part = "scripts"
      PROVE  [Lua!Next]_scriptsVars /\ part' = part /\ LuaInv
  BY <1>2 DEF AnyNext, ScriptsInv
<1>3. ScriptsInv /\ [AnyNext]_<<vars, part, partiesVars, chatVars, scriptsVars, registriesVars>>
        => ScriptsInv'
  <2> SUFFICES ASSUME ScriptsInv,
                      [AnyNext]_<<vars, part, partiesVars, chatVars, scriptsVars, registriesVars>>,
                      part' = "scripts"
               PROVE  LuaInv'
    BY DEF ScriptsInv
  <2>1. part = "scripts"
    BY DEF AnyNext
  <2> QED BY <1>2, <2>1, LuaStep
<1>4. ScriptsInv => (part = "scripts" => Lua!HandlesAlive /\ Lua!MadeItemsKept)
  BY LuaSound DEF ScriptsInv
<1>5. ScriptsInv /\ [AnyNext]_<<vars, part, partiesVars, chatVars, scriptsVars, registriesVars>>
        => [part = "scripts" => Lua!LentConditionStays]_owner
  BY <1>2, LentStep
<1> QED BY <1>1, <1>3, <1>4, <1>5, PTL DEF AnySpec, ObjectsSound
==============================================================================
