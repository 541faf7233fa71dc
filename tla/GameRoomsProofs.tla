-------------------------- MODULE GameRoomsProofs ---------------------------
(***************************************************************************)
(* For any number of addresses, ids, inputs and any times: types, the      *)
(* agreement of address index and players, the coherence of a player's hp  *)
(* and life, the respawn delay, the clock of the match, the accounting of  *)
(* kills, and that a finished match is frozen.                             *)
(***************************************************************************)
EXTENDS GameRooms, TLAPS

Players(ps) == IsMap(ps, Ids, Player)

\* Two rooms with the same players at the same addresses.
SamePeers(ps, qs) ==
    /\ DOMAIN ps = DOMAIN qs
    /\ \A p \in DOMAIN ps : ps[p].peer = qs[p].peer

\* HpConsistent of any players.
HpOK(ps) ==
    \A p \in DOMAIN ps :
        /\ ps[p].alive <=> ps[p].hp > 0
        /\ ps[p].respawn_timer > 0 => ~ps[p].alive

-----------------------------------------------------------------------------
(* Maps *)

LEMMA WithMap ==
  ASSUME NEW K, NEW V, NEW f, IsMap(f, K, V), NEW k \in K, NEW v \in V
  PROVE  /\ IsMap(With(f, k, v), K, V)
         /\ DOMAIN With(f, k, v) = DOMAIN f \cup {k}
         /\ With(f, k, v)[k] = v
         /\ \A x \in DOMAIN f : x # k => With(f, k, v)[x] = f[x]
  BY DEF With, IsMap

LEMMA WithoutMap ==
  ASSUME NEW K, NEW V, NEW f, IsMap(f, K, V), NEW k
  PROVE  /\ IsMap(Without(f, k), K, V)
         /\ DOMAIN Without(f, k) = DOMAIN f \ {k}
         /\ \A x \in DOMAIN f : x # k => Without(f, k)[x] = f[x]
  BY DEF Without, IsMap

-----------------------------------------------------------------------------
(* The room's operations keep players where they are, in range and coherent *)

LEMMA InputKeeps ==
  ASSUME NEW ps, Players(ps), NEW p, NEW seq \in Seqs
  PROVE  LET qs == apply_input(ps, p, seq) IN
         Players(qs) /\ SamePeers(qs, ps) /\ (HpOK(ps) => HpOK(qs))
  BY GameAssumption DEF apply_input, Players, IsMap, Player, SamePeers, HpOK, Seqs, GameAssumption

LEMMA FireKeeps ==
  ASSUME NEW ps, Players(ps), NEW p, NEW t, CanHit(ps, p, t)
  PROVE  LET qs == apply_fire(ps, p, t) IN
         Players(qs) /\ SamePeers(qs, ps) /\ (HpOK(ps) => HpOK(qs))
<1> DEFINE qs == apply_fire(ps, p, t)
<1>1. /\ t \in DOMAIN ps /\ p \in DOMAIN ps /\ p # t /\ ps[p].alive
      /\ ps \in [DOMAIN ps -> Player] /\ DOMAIN ps \subseteq Ids
  BY DEF CanHit, Players, IsMap
<1>2. ps[p] \in Player /\ ps[t] \in Player
  BY <1>1
<1>3. \A n \in 0..(ScoreSpace - 1) : Incr(n) \in 0..(ScoreSpace - 1)
  BY GameAssumption DEF Incr, GameAssumption
<1>4. CASE Kills(ps, t)
  <2> DEFINE dead == [ps[t] EXCEPT !.hp = 0, !.alive = FALSE, !.respawn_timer = kRespawnMs,
                                   !.deaths = Incr(@)]
             killer == [ps[p] EXCEPT !.kills = Incr(@)]
  <2>1. /\ dead \in Player /\ dead.peer = ps[t].peer /\ dead.hp = 0
        /\ dead.alive = FALSE
    <3>1. /\ 0 \in 0..kFullHp /\ kRespawnMs \in 0..kRespawnMs
          /\ Incr(ps[t].deaths) \in 0..(ScoreSpace - 1)
      BY <1>2, <1>3, GameAssumption DEF Player, GameAssumption
    <3> HIDE DEF Incr
    <3> QED
      BY <1>2, <3>1 DEF Player
  <2>2. /\ killer \in Player /\ killer.peer = ps[p].peer /\ killer.hp = ps[p].hp
        /\ killer.alive = ps[p].alive /\ killer.respawn_timer = ps[p].respawn_timer
    BY <1>2, <1>3 DEF Player
  <2>3. qs = [x \in DOMAIN ps |-> IF x = t THEN dead ELSE IF x = p THEN killer ELSE ps[x]]
    BY <1>1, <1>2, <1>4 DEF apply_fire, Player
  <2> HIDE DEF dead, killer, qs
  <2>4. Players(qs)
    BY <1>1, <2>1, <2>2, <2>3 DEF Players, IsMap
  <2>5. SamePeers(qs, ps)
    BY <1>1, <2>1, <2>2, <2>3 DEF SamePeers
  <2>6. HpOK(ps) => HpOK(qs)
    <3> SUFFICES ASSUME HpOK(ps), NEW x \in DOMAIN ps
                 PROVE  /\ qs[x].alive <=> qs[x].hp > 0
                        /\ qs[x].respawn_timer > 0 => ~qs[x].alive
      BY <2>3 DEF HpOK
    <3>1. CASE x = t
      BY <1>1, <2>1, <2>3, <3>1
    <3>2. CASE x = p
      BY <1>1, <2>2, <2>3, <3>2 DEF HpOK
    <3>3. CASE x # t /\ x # p
      BY <1>1, <2>3, <3>3 DEF HpOK
    <3> QED
      BY <3>1, <3>2, <3>3
  <2> QED
    BY <2>4, <2>5, <2>6 DEF qs
<1>5. CASE ~Kills(ps, t)
  <2> DEFINE hurt == [ps[t] EXCEPT !.hp = @ - kFireDamage]
  <2>1. /\ hurt \in Player /\ hurt.peer = ps[t].peer /\ hurt.hp > 0
        /\ hurt.alive = ps[t].alive /\ hurt.respawn_timer = ps[t].respawn_timer
    BY <1>2, <1>5, GameAssumption DEF Player, Kills, GameAssumption
  <2>2. qs = [ps EXCEPT ![t] = hurt]
    BY <1>1, <1>5 DEF apply_fire
  <2>3. ps[t].alive
    BY DEF CanHit
  <2> HIDE DEF hurt, qs
  <2>4. Players(qs) /\ SamePeers(qs, ps)
    BY <1>1, <2>1, <2>2 DEF Players, IsMap, SamePeers
  <2>5. HpOK(ps) => HpOK(qs)
    BY <1>1, <2>1, <2>2, <2>3 DEF HpOK
  <2> QED
    BY <2>4, <2>5 DEF qs
<1> QED
  BY <1>4, <1>5

LEMMA RespawnKeeps ==
  ASSUME NEW ps, Players(ps), NEW p
  PROVE  LET qs == apply_respawn(ps, p) IN
         Players(qs) /\ SamePeers(qs, ps) /\ (HpOK(ps) => HpOK(qs))
<1> DEFINE qs == apply_respawn(ps, p)
<1>1. ps \in [DOMAIN ps -> Player] /\ DOMAIN ps \subseteq Ids
  BY DEF Players, IsMap
<1>2. CASE CanRespawn(ps, p)
  <2> DEFINE new == [ps[p] EXCEPT !.alive = TRUE, !.hp = kFullHp]
  <2>1. p \in DOMAIN ps /\ ps[p] \in Player /\ ps[p].respawn_timer = 0
    BY <1>1, <1>2 DEF CanRespawn
  <2>2. /\ new \in Player /\ new.peer = ps[p].peer /\ new.hp > 0
        /\ new.alive = TRUE /\ new.respawn_timer = 0
    <3>1. kFullHp \in 0..kFullHp /\ kFullHp > 0
      BY GameAssumption DEF GameAssumption
    <3> QED
      BY <2>1, <3>1 DEF Player
  <2>3. qs = [ps EXCEPT ![p] = new]
    BY <1>1, <1>2, <2>1 DEF apply_respawn, Player
  <2> HIDE DEF new, qs
  <2>4. Players(qs) /\ SamePeers(qs, ps)
    BY <1>1, <2>1, <2>2, <2>3 DEF Players, IsMap, SamePeers
  <2>5. HpOK(ps) => HpOK(qs)
    BY <1>1, <2>1, <2>2, <2>3 DEF HpOK
  <2> QED
    BY <2>4, <2>5 DEF qs
<1>3. CASE ~CanRespawn(ps, p)
  BY <1>3 DEF apply_respawn, SamePeers
<1> QED
  BY <1>2, <1>3

LEMMA TickKeeps ==
  ASSUME NEW ps, Players(ps)
  PROVE  LET qs == simulate_respawn(ps) IN
         Players(qs) /\ SamePeers(qs, ps) /\ (HpOK(ps) => HpOK(qs))
  BY GameAssumption
     DEF simulate_respawn, Players, IsMap, Player, SamePeers, HpOK, GameAssumption

LEMMA ConsistentSame ==
  ASSUME NEW ps, NEW qs, NEW ix, SamePeers(qs, ps), Consistent(ps, ix)
  PROVE  Consistent(qs, ix)
  BY DEF SamePeers, Consistent
-----------------------------------------------------------------------------
(* resolve_and_refresh_peer *)

LEMMA RefreshKeeps ==
  ASSUME TypeOK, IndexConsistent, NEW a \in Addrs, NEW hid, NEW p \in Ids, p = Resolved(a, hid)
  PROVE  LET ps == RefreshedPlayers(a, p)
             ix == RefreshedIndex(a, p)
         IN  /\ Players(ps) /\ IsMap(ix, Addrs, Ids) /\ Consistent(ps, ix)
             /\ p \in DOMAIN players_ /\ ps = [players_ EXCEPT ![p].peer = a]
<1> DEFINE ps == RefreshedPlayers(a, p)
           ix == RefreshedIndex(a, p)
<1>1. p \in DOMAIN players_
  BY DEF Resolved, IndexConsistent, Consistent, Ids
<1>2. /\ players_ \in [DOMAIN players_ -> Player] /\ DOMAIN players_ \subseteq Ids
      /\ players_[p] \in Player
  BY <1>1 DEF TypeOK, IsMap
<1>3. ps = [players_ EXCEPT ![p].peer = a]
  BY <1>1 DEF RefreshedPlayers
<1> DEFINE moved == [players_[p] EXCEPT !.peer = a]
<1>4. moved \in Player /\ moved.peer = a
  BY <1>2 DEF Player
<1>5. /\ DOMAIN ps = DOMAIN players_ /\ Players(ps) /\ ps[p].peer = a
      /\ \A q \in DOMAIN ps : q # p => ps[q] = players_[q]
  <2>1. ps = [players_ EXCEPT ![p] = moved]
    BY <1>2, <1>3
  <2> HIDE DEF ps, moved
  <2> QED
    BY <1>1, <1>2, <1>4, <2>1 DEF Players, IsMap
<1>6. CASE a \in DOMAIN peer_index_
  <2>1. ix = peer_index_ /\ peer_index_[a] = p
    BY <1>6 DEF RefreshedIndex, Resolved
  <2>2. players_[p].peer = a
    BY <1>6, <2>1 DEF IndexConsistent, Consistent
  <2>3. SamePeers(ps, players_)
    BY <1>5, <2>2 DEF SamePeers
  <2>4. Consistent(ps, ix)
    BY <2>1, <2>3, ConsistentSame DEF IndexConsistent
  <2> QED
    BY <1>1, <1>3, <1>5, <2>1, <2>4 DEF TypeOK
<1>7. CASE a \notin DOMAIN peer_index_
  <2> DEFINE old == players_[p].peer
             mid == Without(peer_index_, old)
  <2> HIDE DEF old
  <2>1. IsMap(mid, Addrs, Ids) /\ DOMAIN mid = DOMAIN peer_index_ \ {old}
        /\ \A x \in DOMAIN mid : mid[x] = peer_index_[x]
    <3>1. IsMap(peer_index_, Addrs, Ids)
      BY DEF TypeOK
    <3>2. /\ IsMap(Without(peer_index_, old), Addrs, Ids)
          /\ DOMAIN Without(peer_index_, old) = DOMAIN peer_index_ \ {old}
          /\ \A x \in DOMAIN peer_index_ : x # old =>
                Without(peer_index_, old)[x] = peer_index_[x]
      BY <3>1, WithoutMap, SMTT(30)
    <3> QED
      BY <3>2
  <2>2. ix = With(mid, a, p)
    BY <1>7 DEF RefreshedIndex, old
  <2> HIDE DEF mid, ix, ps
  <2>3. /\ IsMap(ix, Addrs, Ids) /\ DOMAIN ix = DOMAIN mid \cup {a} /\ ix[a] = p
        /\ \A x \in DOMAIN mid : x # a => ix[x] = mid[x]
    <3>1. IsMap(mid, Addrs, Ids)
      BY <2>1
    <3>2. /\ IsMap(With(mid, a, p), Addrs, Ids)
          /\ DOMAIN With(mid, a, p) = DOMAIN mid \cup {a}
          /\ With(mid, a, p)[a] = p
          /\ \A x \in DOMAIN mid : x # a => With(mid, a, p)[x] = mid[x]
      BY <3>1 DEF With, IsMap
    <3> QED
      BY <2>2, <3>2
  <2>4. ASSUME NEW x \in DOMAIN ix PROVE ix[x] \in DOMAIN ps /\ ps[ix[x]].peer = x
    <3>1. CASE x = a
      BY <1>1, <1>5, <2>3, <3>1
    <3>2. CASE x # a
      <4>1. x \in DOMAIN peer_index_ /\ x # old /\ ix[x] = peer_index_[x]
        BY <2>1, <2>3, <3>2
      <4>2. peer_index_[x] \in DOMAIN players_ /\ players_[peer_index_[x]].peer = x
        BY <4>1 DEF IndexConsistent, Consistent
      <4> QED
        BY <1>5, <4>1, <4>2 DEF old
    <3> QED
      BY <3>1, <3>2
  <2>5. ASSUME NEW q \in DOMAIN ps PROVE ps[q].peer \in DOMAIN ix /\ ix[ps[q].peer] = q
    <3>1. CASE q = p
      BY <1>5, <2>3, <3>1
    <3>2. CASE q # p
      <4>1. q \in DOMAIN players_ /\ ps[q].peer = players_[q].peer
        BY <1>5, <3>2
      <4>2. /\ players_[q].peer \in DOMAIN peer_index_ /\ peer_index_[players_[q].peer] = q
            /\ peer_index_[old] = p
        BY <1>1, <4>1 DEF IndexConsistent, Consistent, old
      <4> QED
        BY <1>7, <2>1, <2>3, <3>2, <4>1, <4>2 DEF old
    <3> QED
      BY <3>1, <3>2
  <2> QED
    BY <1>1, <1>3, <1>5, <2>3, <2>4, <2>5 DEF Consistent, ps, ix
<1> QED
  BY <1>6, <1>7

-----------------------------------------------------------------------------
(* The respawn delay *)

\* The time a player has been dead and the rest of its timer make up the delay.
DelayOK(ps, dead) ==
    \A p \in DOMAIN ps : ~ps[p].alive => dead[p] + ps[p].respawn_timer >= kRespawnMs

IInv ==
    /\ TypeOK
    /\ IndexConsistent
    /\ HpConsistent
    /\ DelayOK(players_, dead_ms)

LEMMA InitIInv == Init => IInv
<1> SUFFICES ASSUME Init PROVE IInv
  OBVIOUS
<1>1. DOMAIN players_ = {} /\ DOMAIN peer_index_ = {}
  BY DEF Init
<1>2. IsMap(players_, Ids, Player) /\ IsMap(peer_index_, Addrs, Ids)
  BY <1>1 DEF IsMap, Init
<1>3. 0 \in 0..(Period - 1)
  BY GameAssumption DEF Period, kSecMs, GameAssumption
<1>4. 1 \in 0..(IdSpace - 1) /\ kMatchSec \in 0..kMatchSec /\ 0 \in 0..kRespawnMs
  BY GameAssumption DEF GameAssumption
<1>5. TypeOK
  BY <1>2, <1>3, <1>4 DEF TypeOK, Init
<1> QED
  BY <1>1, <1>5 DEF IInv, IndexConsistent, Consistent, HpConsistent, DelayOK

-----------------------------------------------------------------------------
(* Datagrams *)

\* Refreshing a peer changes nothing that the hp and delay invariants look at.
LEMMA RefreshedOK ==
  ASSUME IInv, NEW a \in Addrs, NEW p \in Ids, NEW ps,
         p \in DOMAIN players_, ps = [players_ EXCEPT ![p].peer = a]
  PROVE  HpOK(ps) /\ DelayOK(ps, dead_ms)
<1>1. /\ players_ \in [DOMAIN players_ -> Player]
      /\ HpOK(players_) /\ DelayOK(players_, dead_ms)
  BY DEF IInv, TypeOK, IsMap, HpConsistent, HpOK
<1>2. players_[p] \in Player
  BY <1>1
<1>3. /\ DOMAIN ps = DOMAIN players_
      /\ \A q \in DOMAIN ps : /\ ps[q].alive = players_[q].alive
                              /\ ps[q].hp = players_[q].hp
                              /\ ps[q].respawn_timer = players_[q].respawn_timer
  BY <1>2 DEF Player
<1> QED
  BY <1>1, <1>3 DEF HpOK, DelayOK

\* What a handler must establish of the players and the events it broadcasts.
LEMMA PacketKeeps ==
  ASSUME IInv, NEW a \in Addrs, NEW hid, NEW p \in Ids, Received(a, hid, p),
         Players(players_'), SamePeers(players_', RefreshedPlayers(a, p)),
         HpOK(players_'), DelayOK(players_', dead_ms'),
         dead_ms' \in [Ids -> 0..kRespawnMs],
         sent' \subseteq [type : {"Hit", "Kill", "Respawn"}, target : Ids, by : Ids \cup {0}]
  PROVE  IInv'
<1>1. TypeOK /\ IndexConsistent /\ p = Resolved(a, hid)
  BY DEF IInv, Received
<1>2. /\ IsMap(RefreshedIndex(a, p), Addrs, Ids)
      /\ Consistent(RefreshedPlayers(a, p), RefreshedIndex(a, p))
  BY <1>1, RefreshKeeps
<1>3. peer_index_' = RefreshedIndex(a, p)
  BY DEF Received
<1>4. TypeOK'
  BY <1>1, <1>2, <1>3 DEF TypeOK, Players, IsMap, Received, match_vars, Period
<1>5. Consistent(players_', peer_index_')
  BY <1>2, <1>3, ConsistentSame
<1> QED
  BY <1>4, <1>5 DEF IInv, IndexConsistent, HpConsistent, HpOK

LEMMA OtherPacketIInv ==
  ASSUME IInv, NEW a \in Addrs, NEW hid, OtherPacket(a, hid)
  PROVE  IInv'
<1>1. PICK p \in Ids : /\ Received(a, hid, p) /\ players_' = RefreshedPlayers(a, p)
                       /\ sent' = {} /\ dead_ms' = dead_ms
  BY DEF OtherPacket
<1> DEFINE ps == RefreshedPlayers(a, p)
<1>2. /\ TypeOK /\ IndexConsistent /\ p = Resolved(a, hid)
      /\ dead_ms \in [Ids -> 0..kRespawnMs]
  BY <1>1 DEF IInv, Received, TypeOK
<1>3. Players(ps) /\ p \in DOMAIN players_ /\ ps = [players_ EXCEPT ![p].peer = a]
  BY <1>2, RefreshKeeps
<1>4. HpOK(ps) /\ DelayOK(ps, dead_ms)
  BY <1>3, RefreshedOK
<1>5. SamePeers(ps, ps)
  BY DEF SamePeers
<1> QED
  BY <1>1, <1>2, <1>3, <1>4, <1>5, PacketKeeps

LEMMA InputIInv ==
  ASSUME IInv, NEW a \in Addrs, NEW hid, NEW seq \in Seqs, Input(a, hid, seq)
  PROVE  IInv'
<1>1. PICK p \in Ids : /\ Received(a, hid, p)
                       /\ players_' = apply_input(RefreshedPlayers(a, p), p, seq)
                       /\ sent' = {} /\ dead_ms' = dead_ms
  BY DEF Input
<1> DEFINE ps == RefreshedPlayers(a, p)
           qs == apply_input(ps, p, seq)
<1>2. /\ TypeOK /\ IndexConsistent /\ p = Resolved(a, hid)
      /\ dead_ms \in [Ids -> 0..kRespawnMs]
  BY <1>1 DEF IInv, Received, TypeOK
<1>3. Players(ps) /\ p \in DOMAIN players_ /\ ps = [players_ EXCEPT ![p].peer = a]
  BY <1>2, RefreshKeeps
<1>4. HpOK(ps) /\ DelayOK(ps, dead_ms)
  BY <1>3, RefreshedOK
<1> HIDE DEF ps
<1>5. Players(qs) /\ SamePeers(qs, ps) /\ HpOK(qs)
  BY <1>3, <1>4, InputKeeps
<1>6. DelayOK(qs, dead_ms)
  <2>1. ps \in [DOMAIN ps -> Player]
    BY <1>3 DEF Players, IsMap
  <2>2. \A q \in DOMAIN ps : ps[q] \in Player
    BY <2>1
  <2> QED
    BY <1>4, <2>2 DEF apply_input, DelayOK, Player
<1> QED
  BY <1>1, <1>2, <1>5, <1>6, PacketKeeps DEF ps

LEMMA FireIInv ==
  ASSUME IInv, NEW a \in Addrs, NEW hid, NEW t \in Ids, Fire(a, hid, t)
  PROVE  IInv'
<1>1. PICK p \in Ids :
        LET ps == RefreshedPlayers(a, p) IN
        /\ Received(a, hid, p)
        /\ CanHit(ps, p, t)
        /\ players_' = apply_fire(ps, p, t)
        /\ sent' = {Event("Hit", t, p)} \cup (IF Kills(ps, t) THEN {Event("Kill", t, p)} ELSE {})
        /\ dead_ms' = IF Kills(ps, t) THEN [dead_ms EXCEPT ![t] = 0] ELSE dead_ms
  BY DEF Fire
<1> DEFINE ps == RefreshedPlayers(a, p)
           qs == apply_fire(ps, p, t)
<1>2. /\ TypeOK /\ IndexConsistent /\ p = Resolved(a, hid)
      /\ dead_ms \in [Ids -> 0..kRespawnMs]
  BY <1>1 DEF IInv, Received, TypeOK
<1>3. Players(ps) /\ p \in DOMAIN players_ /\ ps = [players_ EXCEPT ![p].peer = a]
  BY <1>2, RefreshKeeps
<1>4. HpOK(ps) /\ DelayOK(ps, dead_ms)
  BY <1>3, RefreshedOK
<1>5. CanHit(ps, p, t) /\ (dead_ms' = IF Kills(ps, t) THEN [dead_ms EXCEPT ![t] = 0] ELSE dead_ms)
  BY <1>1
<1>6. sent' \subseteq [type : {"Hit", "Kill", "Respawn"}, target : Ids, by : Ids \cup {0}]
  BY <1>1 DEF Event
<1> HIDE DEF ps
<1>7. Players(qs) /\ SamePeers(qs, ps) /\ HpOK(qs)
  BY <1>3, <1>4, <1>5, FireKeeps
<1>8. 0 \in 0..kRespawnMs
  BY GameAssumption DEF GameAssumption
<1>9. dead_ms' \in [Ids -> 0..kRespawnMs]
  BY <1>2, <1>5, <1>8
<1>10. DelayOK(qs, dead_ms')
  <2>1. /\ t \in DOMAIN ps /\ p \in DOMAIN ps /\ p # t
        /\ \A q \in DOMAIN ps : ps[q] \in Player
    BY <1>3, <1>5 DEF CanHit, Players, IsMap
  <2>2. kRespawnMs \in Nat
    BY GameAssumption DEF GameAssumption
  <2>3. CASE Kills(ps, t)
    <3>1. dead_ms' = [dead_ms EXCEPT ![t] = 0]
      BY <1>5, <2>3
    <3>2. DOMAIN qs = DOMAIN ps
      BY <2>3 DEF apply_fire
    <3>3. qs[t].respawn_timer = kRespawnMs
      BY <2>1, <2>3 DEF apply_fire, Player
    <3>4. \A q \in DOMAIN ps \ {t} : /\ qs[q].alive = ps[q].alive
                                     /\ qs[q].respawn_timer = ps[q].respawn_timer
      BY <2>1, <2>3 DEF apply_fire, Player
    <3> HIDE DEF qs
    <3>5. ASSUME NEW q \in DOMAIN qs, ~qs[q].alive
          PROVE  dead_ms'[q] + qs[q].respawn_timer >= kRespawnMs
      <4>1. CASE q = t
        BY <1>2, <2>2, <3>1, <3>3, <4>1
      <4>2. CASE q # t
        BY <1>2, <1>4, <3>1, <3>2, <3>4, <3>5, <4>2 DEF DelayOK
      <4> QED
        BY <4>1, <4>2
    <3> QED
      BY <3>5 DEF DelayOK
  <2>4. CASE ~Kills(ps, t)
    <3>1. dead_ms' = dead_ms
      BY <1>5, <2>4
    <3>2. /\ DOMAIN qs = DOMAIN ps
          /\ \A q \in DOMAIN ps : /\ qs[q].alive = ps[q].alive
                                  /\ qs[q].respawn_timer = ps[q].respawn_timer
      BY <2>1, <2>4 DEF apply_fire, Player
    <3> QED
      BY <1>4, <3>1, <3>2 DEF DelayOK
  <2> QED
    BY <2>3, <2>4
<1> QED
  BY <1>1, <1>6, <1>7, <1>9, <1>10, PacketKeeps DEF ps

LEMMA RespawnIInv ==
  ASSUME IInv, NEW a \in Addrs, NEW hid, Respawn(a, hid)
  PROVE  IInv'
<1>1. PICK p \in Ids : /\ Received(a, hid, p)
                       /\ players_' = apply_respawn(RefreshedPlayers(a, p), p)
                       /\ sent' = {Event("Respawn", p, 0)} /\ dead_ms' = dead_ms
  BY DEF Respawn
<1> DEFINE ps == RefreshedPlayers(a, p)
           qs == apply_respawn(ps, p)
<1>2. /\ TypeOK /\ IndexConsistent /\ p = Resolved(a, hid)
      /\ dead_ms \in [Ids -> 0..kRespawnMs]
  BY <1>1 DEF IInv, Received, TypeOK
<1>3. Players(ps) /\ p \in DOMAIN players_ /\ ps = [players_ EXCEPT ![p].peer = a]
  BY <1>2, RefreshKeeps
<1>4. HpOK(ps) /\ DelayOK(ps, dead_ms)
  BY <1>3, RefreshedOK
<1>5. sent' \subseteq [type : {"Hit", "Kill", "Respawn"}, target : Ids, by : Ids \cup {0}]
  BY <1>1 DEF Event
<1> HIDE DEF ps
<1>6. Players(qs) /\ SamePeers(qs, ps) /\ HpOK(qs)
  BY <1>3, <1>4, RespawnKeeps
<1>7. DelayOK(qs, dead_ms)
  <2>1. \A q \in DOMAIN ps : ps[q] \in Player
    BY <1>3 DEF Players, IsMap
  <2> QED
    BY <1>4, <2>1 DEF apply_respawn, CanRespawn, DelayOK, Player
<1> QED
  BY <1>1, <1>2, <1>5, <1>6, <1>7, PacketKeeps DEF ps

-----------------------------------------------------------------------------
(* Joining, leaving and ticking *)

LEMMA JoinIInv ==
  ASSUME IInv, NEW a \in Addrs, Join(a)
  PROVE  IInv'
<1>1. /\ TypeOK /\ IndexConsistent /\ HpOK(players_) /\ DelayOK(players_, dead_ms)
      /\ players_ \in [DOMAIN players_ -> Player] /\ DOMAIN players_ \subseteq Ids
      /\ IsMap(players_, Ids, Player) /\ IsMap(peer_index_, Addrs, Ids)
      /\ dead_ms \in [Ids -> 0..kRespawnMs]
  BY DEF IInv, HpConsistent, HpOK, TypeOK, IsMap
<1>2. next_player_id_' \in 0..(IdSpace - 1)
  BY <1>1, GameAssumption DEF Join, TypeOK, GameAssumption
<1>3. SUFFICES /\ IsMap(players_', Ids, Player) /\ IsMap(peer_index_', Addrs, Ids)
               /\ acked' \subseteq Ids /\ dead_ms' \in [Ids -> 0..kRespawnMs]
               /\ Consistent(players_', peer_index_')
               /\ HpOK(players_') /\ DelayOK(players_', dead_ms')
  <2>1. room_open' \in BOOLEAN /\ sent' = {} /\ UNCHANGED match_vars
    BY <1>1 DEF Join, TypeOK
  <2>2. TypeOK'
    BY <1>1, <1>2, <1>3, <2>1 DEF TypeOK, match_vars, Period
  <2> QED
    BY <1>3, <2>2 DEF IInv, IndexConsistent, HpConsistent, HpOK
<1>4. CASE a \in DOMAIN peer_index_
  <2> DEFINE p == peer_index_[a]
  <2>1. p \in Ids /\ p \in DOMAIN players_ /\ p = Resolved(a, 0)
    BY <1>1, <1>4 DEF IsMap, IndexConsistent, Consistent, Resolved
  <2>2. /\ players_' = [players_ EXCEPT ![p].peer = a]
        /\ peer_index_' = peer_index_ /\ dead_ms' = dead_ms /\ acked' = acked \cup {p}
    BY <1>4, <2>1 DEF Join
  <2>3. RefreshedIndex(a, p) = peer_index_ /\ RefreshedPlayers(a, p) = players_'
    BY <1>4, <2>1, <2>2 DEF RefreshedIndex, RefreshedPlayers
  <2>4. Players(players_') /\ Consistent(players_', peer_index_)
    BY <1>1, <2>1, <2>3, RefreshKeeps
  <2>5. HpOK(players_') /\ DelayOK(players_', dead_ms)
    BY <2>1, <2>2, RefreshedOK
  <2> QED
    BY <1>1, <2>1, <2>2, <2>4, <2>5 DEF TypeOK, Players
<1>5. CASE a \notin DOMAIN peer_index_ /\ (next_player_id_ = 0 \/ next_player_id_ \in DOMAIN players_)
  <2>1. UNCHANGED <<players_, peer_index_, acked, dead_ms>>
    BY <1>5 DEF Join
  <2> QED
    BY <1>1, <2>1 DEF TypeOK, IndexConsistent
<1>6. CASE a \notin DOMAIN peer_index_ /\ ~(next_player_id_ = 0 \/ next_player_id_ \in DOMAIN players_)
  <2> DEFINE p == next_player_id_
             new == NewPlayer(a)
  <2>1. /\ players_' = With(players_, p, new) /\ peer_index_' = With(peer_index_, a, p)
        /\ acked' = acked \cup {p} /\ dead_ms' = [dead_ms EXCEPT ![p] = 0]
    BY <1>6 DEF Join
  <2>2. p \in Ids /\ p \notin DOMAIN players_ /\ 0 \in 0..kRespawnMs
    BY <1>1, <1>6, GameAssumption DEF TypeOK, Ids, GameAssumption
  <2>3. /\ new \in Player /\ new.peer = a /\ new.alive = TRUE /\ new.hp > 0
        /\ new.respawn_timer = 0
    <3>1. /\ kFullHp \in 0..kFullHp /\ kFullHp > 0 /\ 0 \in 0..kRespawnMs /\ 0 \in 0..MaxSeq
          /\ 0 \in 0..(ScoreSpace - 1)
      BY GameAssumption DEF GameAssumption
    <3> QED
      BY <3>1 DEF NewPlayer, Player
  <2> HIDE DEF new
  <2>4. /\ IsMap(players_', Ids, Player)
        /\ DOMAIN players_' = DOMAIN players_ \cup {p} /\ players_'[p] = new
        /\ \A q \in DOMAIN players_ : players_'[q] = players_[q]
    BY <1>1, <2>1, <2>2, <2>3 DEF With, IsMap
  <2>5. /\ IsMap(peer_index_', Addrs, Ids)
        /\ DOMAIN peer_index_' = DOMAIN peer_index_ \cup {a} /\ peer_index_'[a] = p
        /\ \A b \in DOMAIN peer_index_ : peer_index_'[b] = peer_index_[b]
    BY <1>1, <1>6, <2>1, <2>2 DEF With, IsMap
  <2>6. Consistent(players_', peer_index_')
    <3>1. ASSUME NEW b \in DOMAIN peer_index_'
          PROVE  peer_index_'[b] \in DOMAIN players_' /\ players_'[peer_index_'[b]].peer = b
      BY <1>1, <2>3, <2>4, <2>5 DEF IndexConsistent, Consistent
    <3>2. ASSUME NEW q \in DOMAIN players_'
          PROVE  players_'[q].peer \in DOMAIN peer_index_' /\ peer_index_'[players_'[q].peer] = q
      BY <1>1, <2>3, <2>4, <2>5 DEF IndexConsistent, Consistent
    <3> QED
      BY <3>1, <3>2 DEF Consistent
  <2>7. HpOK(players_')
    BY <1>1, <2>3, <2>4 DEF HpOK
  <2>8. dead_ms' \in [Ids -> 0..kRespawnMs] /\ DelayOK(players_', dead_ms')
    BY <1>1, <2>1, <2>2, <2>3, <2>4 DEF DelayOK
  <2> QED
    BY <1>1, <2>1, <2>2, <2>4, <2>5, <2>6, <2>7, <2>8 DEF TypeOK
<1> QED
  BY <1>4, <1>5, <1>6

LEMMA LeaveIInv ==
  ASSUME IInv, NEW a \in Addrs, Leave(a)
  PROVE  IInv'
<1>1. /\ TypeOK /\ IndexConsistent /\ HpOK(players_) /\ DelayOK(players_, dead_ms)
      /\ IsMap(players_, Ids, Player) /\ IsMap(peer_index_, Addrs, Ids)
  BY DEF IInv, HpConsistent, HpOK, TypeOK
<1> DEFINE p == peer_index_[a]
<1>2. /\ players_' = Without(players_, p) /\ peer_index_' = Without(peer_index_, a)
      /\ a \in DOMAIN peer_index_ /\ sent' = {}
      /\ UNCHANGED <<room_open, next_player_id_, match_vars, acked, dead_ms>>
  BY DEF Leave
<1>3. /\ IsMap(players_', Ids, Player) /\ DOMAIN players_' = DOMAIN players_ \ {p}
      /\ \A q \in DOMAIN players_' : players_'[q] = players_[q]
  BY <1>1, <1>2 DEF Without, IsMap
<1>4. /\ IsMap(peer_index_', Addrs, Ids) /\ DOMAIN peer_index_' = DOMAIN peer_index_ \ {a}
      /\ \A b \in DOMAIN peer_index_' : peer_index_'[b] = peer_index_[b]
  BY <1>1, <1>2 DEF Without, IsMap
<1>5. TypeOK'
  BY <1>1, <1>2, <1>3, <1>4 DEF TypeOK, match_vars, Period
<1>6. IndexConsistent'
  BY <1>1, <1>2, <1>3, <1>4 DEF IndexConsistent, Consistent
<1>7. HpConsistent' /\ DelayOK(players_', dead_ms')
  BY <1>1, <1>2, <1>3 DEF HpConsistent, HpOK, DelayOK
<1> QED
  BY <1>5, <1>6, <1>7 DEF IInv

-----------------------------------------------------------------------------
(* The match clock *)

\* The last place of a number, unless it is a whole unit, is small next to the number.
LEMMA UlpBounds ==
  ASSUME NEW v \in Nat
  PROVE  /\ Ulp(v) \in Nat \ {0}
         /\ Ulp(v) = 1 \/ Significand * Ulp(v) <= 2 * v
<1> DEFINE S == {1} \cup {u \in Powers : Significand * u <= 2 * v}
<1>1. \E x \in S : \A y \in S : x >= y
  BY DEF Powers
<1>2. Ulp(v) \in S
  BY <1>1 DEF Ulp, Max
<1> QED
  BY <1>2 DEF Powers

LEMMA TimesMono ==
  ASSUME NEW a \in Int, NEW b \in Int, NEW c \in Nat, a <= b
  PROVE  c * a <= c * b
<1>1. b - a \in Nat /\ c * (b - a) >= 0
  OBVIOUS
<1>2. c * (b - a) = c * b - c * a
  OBVIOUS
<1> QED
  BY <1>1, <1>2

LEMMA Division ==
  ASSUME NEW n \in Nat, NEW d \in Nat \ {0}
  PROVE  /\ n \div d \in Nat /\ n % d \in 0..(d - 1)
         /\ n = d * (n \div d) + (n % d)
         /\ d * (n \div d) \in 0..n
<1>1. /\ n \div d \in Nat /\ n % d \in 0..(d - 1)
      /\ n = d * (n \div d) + (n % d)
  OBVIOUS
<1>2. d * (n \div d) \in Nat
  BY <1>1
<1> QED
  BY <1>1, <1>2

\* Rounding errs by half of the last place at most, which is less than the
\* number over Significand.
LEMMA NearestBounds ==
  ASSUME NEW n \in Nat, NEW d \in Nat \ {0}, d = 1 \/ Significand * d <= 2 * n
  PROVE  /\ Nearest(n, d) \in Nat
         /\ Significand * (d * Nearest(n, d) - n) \in -n..n
<1>1. Significand \in Nat
  BY ClockAssumption DEF ClockAssumption
<1>2. /\ n \div d \in Nat /\ d * (n \div d) <= n
  <2>1. n \div d \in Nat /\ d * (n \div d) \in 0..n
    BY Division, Zenon
  <2> QED
    BY <2>1
<1> DEFINE U == Ulp(n \div d)
           u == d * U
           q == n \div u
           r == n % u
           up == 2 * r > u \/ (2 * r = u /\ q % 2 = 1)
           k == IF up THEN q + 1 ELSE q
           e == u * k - n
<1>3. U \in Nat \ {0} /\ (U = 1 \/ Significand * U <= 2 * (n \div d))
  BY <1>2, UlpBounds
<1>4. Nearest(n, d) = U * k
  BY DEF Nearest
<1> HIDE DEF U
<1>5. u \in Nat \ {0}
  BY <1>3
<1> HIDE DEF u
<1>6. q \in Nat /\ r \in 0..(u - 1) /\ n = u * q + r
  BY <1>5, Division
<1> HIDE DEF q, r
<1>7. k \in Nat /\ u * k \in Nat /\ e \in Int
  BY <1>5, <1>6
<1>8. 2 * e <= u /\ 2 * (-e) <= u
  <2>1. CASE up
    <3>1. u * k = u * q + u
      BY <1>5, <1>6, <2>1
    <3> QED
      BY <1>5, <1>6, <2>1, <3>1
  <2>2. CASE ~up
    BY <1>5, <1>6, <2>2
  <2> QED
    BY <2>1, <2>2
<1>9. d * Nearest(n, d) - n = e
  <2>1. d * (U * k) = (d * U) * k
    BY <1>3, <1>7
  <2> QED
    BY <1>4, <2>1 DEF u
<1>10. Nearest(n, d) \in Nat
  BY <1>3, <1>4, <1>7
<1> HIDE DEF k, e
<1>11. CASE u = 1
  <2>1. e = 0
    BY <1>7, <1>8, <1>11
  <2> QED
    BY <1>1, <1>9, <1>10, <2>1
<1>12. CASE Significand * u <= 2 * n
  <2>1. /\ Significand * (2 * e) <= Significand * u
        /\ Significand * (2 * (-e)) <= Significand * u
    BY <1>1, <1>5, <1>7, <1>8, TimesMono
  <2>2. /\ Significand * (2 * e) = 2 * (Significand * e)
        /\ Significand * (2 * (-e)) = -(2 * (Significand * e))
        /\ Significand * e \in Int /\ Significand * u \in Int
    BY <1>1, <1>5, <1>7
  <2>3. Significand * e <= n /\ -n <= Significand * e
    BY <1>12, <2>1, <2>2
  <2> QED
    BY <1>9, <1>10, <2>2, <2>3
<1>13. u = 1 \/ Significand * u <= 2 * n
  <2>1. CASE U = 1
    <3>1. u = d
      BY <1>3, <2>1 DEF u
    <3> QED
      BY <3>1
  <2>2. CASE Significand * U <= 2 * (n \div d)
    <3>1. d * (Significand * U) <= d * (2 * (n \div d))
      BY <1>1, <1>2, <1>3, <2>2, TimesMono
    <3>2. d * (Significand * U) = Significand * u /\ d * (2 * (n \div d)) = 2 * (d * (n \div d))
      BY <1>1, <1>2, <1>3 DEF u
    <3>3. Significand * u \in Int /\ d * (n \div d) \in Int
      BY <1>1, <1>2, <1>5
    <3> QED
      BY <1>2, <3>1, <3>2, <3>3
  <2> QED
    BY <1>3, <2>1, <2>2
<1> QED
  BY <1>11, <1>12, <1>13

\* dt is a float, as near to the tick as a float can be.
LEMMA DtBounds ==
  /\ dt \in Nat
  /\ Significand * (kSecMs * dt - TickMs * One) \in -(TickMs * One)..(TickMs * One)
<1>1. /\ TickMs * One \in Nat /\ kSecMs \in Nat \ {0}
      /\ Significand * kSecMs <= 2 * (TickMs * One)
  BY GameAssumption, ClockAssumption DEF GameAssumption, ClockAssumption, kSecMs
<1> QED
  BY <1>1, NearestBounds DEF dt

\* So is the sum of a tick.
LEMMA AccumulatedBounds ==
  ASSUME TypeOK
  PROVE  /\ Accumulated \in Nat
         /\ Significand * (Accumulated - (match_accum_ + dt))
                \in -(match_accum_ + dt)..(match_accum_ + dt)
<1>1. match_accum_ + dt \in Nat
  BY DtBounds DEF TypeOK
<1>2. /\ Nearest(match_accum_ + dt, 1) \in Nat
      /\ Significand * (1 * Nearest(match_accum_ + dt, 1) - (match_accum_ + dt))
             \in -(match_accum_ + dt)..(match_accum_ + dt)
  BY <1>1, NearestBounds
<1> QED
  BY <1>2 DEF Accumulated

\* What a tick takes off the clock is there to be taken.
LEMMA SecondsPassedBounds ==
  ASSUME TypeOK
  PROVE  /\ SecondsPassed \in 0..time_left_sec_
         /\ One * SecondsPassed \in 0..Accumulated
         /\ SecondsPassed < time_left_sec_ => Accumulated - One * SecondsPassed < One
<1> DEFINE whole == Accumulated \div One
<1>1. /\ Accumulated \in Nat /\ One \in Nat \ {0} /\ time_left_sec_ \in Nat
  BY ClockAssumption, AccumulatedBounds, GameAssumption DEF TypeOK, ClockAssumption, GameAssumption
<1>2. /\ whole \in Nat /\ One * whole \in 0..Accumulated
      /\ Accumulated - One * whole < One
  BY <1>1, Division
<1>3. SecondsPassed = IF whole <= time_left_sec_ THEN whole ELSE time_left_sec_
  BY DEF SecondsPassed
<1> HIDE DEF whole
<1>4. CASE whole <= time_left_sec_
  BY <1>1, <1>2, <1>3, <1>4
<1>5. CASE ~(whole <= time_left_sec_)
  <2>1. SecondsPassed = time_left_sec_
    BY <1>3, <1>5
  <2>2. One * time_left_sec_ <= One * whole
    BY <1>1, <1>2, <1>5, TimesMono
  <2>3. One * time_left_sec_ \in Nat
    BY <1>1
  <2> QED
    BY <1>1, <1>2, <2>1, <2>2, <2>3
<1> QED
  BY <1>4, <1>5

LEMMA ClockTickTypes ==
  ASSUME TypeOK, ClockTick
  PROVE  /\ time_left_sec_' \in 0..kMatchSec /\ match_accum_' \in Nat
         /\ match_over_' \in BOOLEAN /\ played' \in Nat
<1>1. CASE match_over_
  BY <1>1 DEF TypeOK, ClockTick
<1>2. CASE ~match_over_
  <2>1. /\ SecondsPassed \in 0..time_left_sec_
        /\ One * SecondsPassed \in 0..Accumulated /\ Accumulated \in Nat
    BY SecondsPassedBounds, AccumulatedBounds
  <2>2. /\ time_left_sec_' = time_left_sec_ - SecondsPassed
        /\ match_accum_' = Accumulated - One * SecondsPassed
        /\ match_over_' = (time_left_sec_ = SecondsPassed)
        /\ played' = played + 1
    BY <1>2 DEF ClockTick
  <2> QED
    BY <2>1, <2>2, GameAssumption, ClockAssumption DEF TypeOK, GameAssumption, ClockAssumption
<1> QED
  BY <1>1, <1>2

-----------------------------------------------------------------------------
(* A tick of the room *)

LEMMA TickIInv ==
  ASSUME IInv, TickAll
  PROVE  IInv'
<1>1. /\ TypeOK /\ IndexConsistent /\ HpOK(players_) /\ DelayOK(players_, dead_ms)
      /\ Players(players_) /\ dead_ms \in [Ids -> 0..kRespawnMs]
  BY DEF IInv, HpConsistent, HpOK, TypeOK, Players
<1>2. match_broadcast_counter_' \in 0..(Period - 1)
  <2>1. Period \in Nat \ {0}
    BY GameAssumption DEF Period, kSecMs, GameAssumption
  <2>2. match_broadcast_counter_ + 1 \in Nat
    BY <1>1, <2>1 DEF TypeOK
  <2>3. match_broadcast_counter_' = (match_broadcast_counter_ + 1) % Period
    BY DEF TickAll
  <2> HIDE DEF Period
  <2> QED
    BY <2>1, <2>2, <2>3
<1>3. UNCHANGED <<room_open, peer_index_, next_player_id_, acked>>
  BY DEF TickAll
<1>4. CASE room_open
  <2>1. /\ ClockTick /\ players_' = simulate_respawn(players_)
        /\ sent' \subseteq {[type |-> "MatchState", over |-> match_over_']}
        /\ dead_ms' = [p \in Ids |-> IF p \in DOMAIN players_ /\ ~players_[p].alive
                                     THEN Capped(dead_ms[p] + TickMs) ELSE dead_ms[p]]
    BY <1>4 DEF TickAll, MatchState
  <2>2. Players(players_') /\ SamePeers(players_', players_) /\ HpOK(players_')
    BY <1>1, <2>1, TickKeeps
  <2>3. TickMs \in Nat /\ kRespawnMs \in Nat
    BY GameAssumption DEF GameAssumption
  <2>4. dead_ms' \in [Ids -> 0..kRespawnMs]
    BY <1>1, <2>1, <2>3 DEF Capped
  <2>5. /\ time_left_sec_' \in 0..kMatchSec /\ match_accum_' \in Nat
        /\ match_over_' \in BOOLEAN /\ played' \in Nat
    BY <1>1, <2>1, ClockTickTypes
  <2>6. sent' \subseteq [type : {"Hit", "Kill", "Respawn"}, target : Ids, by : Ids \cup {0}]
                        \cup [type : {"MatchState"}, over : BOOLEAN]
    BY <2>1, <2>5
  <2>7. TypeOK'
    BY <1>1, <1>2, <1>3, <2>2, <2>4, <2>5, <2>6 DEF TypeOK, Players, IsMap, Period
  <2>8. IndexConsistent'
    BY <1>1, <1>3, <2>2, ConsistentSame DEF IndexConsistent
  <2>9. DelayOK(players_', dead_ms')
    <3>1. ASSUME NEW p \in DOMAIN players_', ~players_'[p].alive
          PROVE  dead_ms'[p] + players_'[p].respawn_timer >= kRespawnMs
      <4>1. p \in DOMAIN players_ /\ players_[p] \in Player /\ p \in Ids
        BY <1>1, <2>1, <3>1 DEF simulate_respawn, Players, IsMap
      <4>2. /\ ~players_[p].alive
            /\ players_'[p].respawn_timer =
                  IF players_[p].respawn_timer > TickMs
                  THEN players_[p].respawn_timer - TickMs ELSE 0
        BY <2>1, <3>1, <4>1 DEF simulate_respawn, Player
      <4>3. dead_ms'[p] = Capped(dead_ms[p] + TickMs)
        BY <2>1, <4>1, <4>2
      <4>4. dead_ms[p] + players_[p].respawn_timer >= kRespawnMs
        BY <1>1, <4>1, <4>2 DEF DelayOK
      <4>5. players_[p].respawn_timer \in Nat /\ dead_ms[p] \in Nat
        BY <1>1, <4>1 DEF Player
      <4> QED
        BY <2>3, <4>2, <4>3, <4>4, <4>5 DEF Capped
    <3> QED
      BY <3>1 DEF DelayOK
  <2> QED
    BY <2>2, <2>7, <2>8, <2>9 DEF IInv, HpConsistent, HpOK
<1>5. CASE ~room_open
  <2>1. /\ sent' = {}
        /\ UNCHANGED <<players_, time_left_sec_, match_accum_, match_over_, played, dead_ms>>
    BY <1>5 DEF TickAll
  <2>2. TypeOK'
    BY <1>1, <1>2, <1>3, <2>1 DEF TypeOK, Period
  <2> QED
    BY <1>1, <1>3, <2>1, <2>2 DEF IInv, IndexConsistent, HpConsistent, HpOK
<1> QED
  BY <1>4, <1>5

-----------------------------------------------------------------------------
(* The theorems *)

LEMMA NextIInv == IInv /\ [Next]_vars => IInv'
<1> SUFFICES ASSUME IInv, [Next]_vars PROVE IInv'
  OBVIOUS
<1>1. CASE UNCHANGED vars
  BY <1>1 DEF vars, room_vars, match_vars, IInv, TypeOK, IndexConsistent, HpConsistent, Period
<1>2. CASE Next
  BY <1>2, JoinIInv, LeaveIInv, OtherPacketIInv, RespawnIInv, InputIInv, FireIInv, TickIInv
     DEF Next
<1> QED
  BY <1>1, <1>2

THEOREM InductiveInvariant == Spec => []IInv
  BY InitIInv, NextIInv, PTL DEF Spec

\* Every variable keeps its type: no hp, timer, score or clock leaves its range.
THEOREM TypeCorrect == Spec => []TypeOK
<1>1. IInv => TypeOK
  BY DEF IInv
<1> QED
  BY <1>1, InductiveInvariant, PTL

\* However datagrams are delayed, duplicated and readdressed, peer_index_ and
\* the players' addresses stay inverse to each other.
THEOREM IndexStaysConsistent == Spec => []IndexConsistent
<1>1. IInv => IndexConsistent
  BY DEF IInv
<1> QED
  BY <1>1, InductiveInvariant, PTL

\* A player is dead exactly when its hp is 0, whatever the fire damage is.
THEOREM HpStaysConsistent == Spec => []HpConsistent
<1>1. IInv => HpConsistent
  BY DEF IInv
<1> QED
  BY <1>1, InductiveInvariant, PTL

\* No step brings a player back before kRespawnDelay of tick time has passed.
THEOREM RespawnIsDelayed == Spec => RespawnDelayed
<1> DEFINE Delayed ==
             \A p \in DOMAIN players_ \cap DOMAIN players_' :
                ~players_[p].alive /\ players_'[p].alive => dead_ms[p] >= kRespawnMs
<1>1. ASSUME IInv, Next PROVE Delayed
  <2> SUFFICES ASSUME NEW p \in DOMAIN players_ \cap DOMAIN players_',
                      ~players_[p].alive, players_'[p].alive
               PROVE  dead_ms[p] >= kRespawnMs
    OBVIOUS
  <2>1. /\ TypeOK /\ IndexConsistent /\ DelayOK(players_, dead_ms)
        /\ \A q \in DOMAIN players_ : q \in Ids /\ players_[q] \in Player
    BY <1>1 DEF IInv, TypeOK, IsMap
  <2>2. dead_ms[p] \in Nat /\ kRespawnMs \in Nat
    BY <2>1, GameAssumption DEF TypeOK, GameAssumption
  <2>3. SUFFICES players_[p].respawn_timer = 0
    BY <2>1, <2>2, <2>3 DEF DelayOK
  <2>4. ASSUME NEW a \in Addrs, NEW hid, NEW i \in Ids, Received(a, hid, i)
        PROVE  LET ps == RefreshedPlayers(a, i) IN
               /\ p \in DOMAIN ps /\ ps[p].alive = players_[p].alive
               /\ ps[p].respawn_timer = players_[p].respawn_timer
               /\ \A q \in DOMAIN ps : ps[q] \in Player
    <3>1. i = Resolved(a, hid)
      BY <2>4 DEF Received
    <3>2. /\ Players(RefreshedPlayers(a, i))
          /\ RefreshedPlayers(a, i) = [players_ EXCEPT ![i].peer = a]
      BY <2>1, <3>1, RefreshKeeps
    <3> QED
      BY <2>1, <3>2 DEF Players, IsMap, Player
  <2>5. CASE \E a \in Addrs : Join(a)
    <3>1. PICK a \in Addrs : Join(a)
      BY <2>5
    <3>2. players_'[p].alive = players_[p].alive
      BY <2>1, <3>1 DEF Join, With, Player
    <3> QED
      BY <3>2
  <2>6. CASE \E a \in Addrs : Leave(a)
    BY <2>6 DEF Leave, Without
  <2>7. CASE \E a \in Addrs, hid \in Headers : OtherPacket(a, hid)
    BY <2>4, <2>7 DEF OtherPacket
  <2>8. CASE \E a \in Addrs, hid \in Headers : Respawn(a, hid)
    <3>1. PICK a \in Addrs, hid \in Headers, i \in Ids :
             Received(a, hid, i) /\ players_' = apply_respawn(RefreshedPlayers(a, i), i)
      BY <2>8 DEF Respawn
    <3> DEFINE ps == RefreshedPlayers(a, i)
    <3>2. /\ p \in DOMAIN ps /\ ~ps[p].alive /\ ps[p].respawn_timer = players_[p].respawn_timer
          /\ \A q \in DOMAIN ps : ps[q] \in Player
      BY <2>4, <3>1
    <3> HIDE DEF ps
    <3>3. players_' = apply_respawn(ps, i)
      BY <3>1 DEF ps
    <3> QED
      BY <3>2, <3>3 DEF apply_respawn, CanRespawn, Player
  <2>9. CASE \E a \in Addrs, hid \in Headers, seq \in Seqs : Input(a, hid, seq)
    <3>1. PICK a \in Addrs, hid \in Headers, seq \in Seqs, i \in Ids :
             Received(a, hid, i) /\ players_' = apply_input(RefreshedPlayers(a, i), i, seq)
      BY <2>9 DEF Input
    <3> DEFINE ps == RefreshedPlayers(a, i)
    <3>2. p \in DOMAIN ps /\ ~ps[p].alive /\ \A q \in DOMAIN ps : ps[q] \in Player
      BY <2>4, <3>1
    <3> HIDE DEF ps
    <3>3. players_' = apply_input(ps, i, seq)
      BY <3>1 DEF ps
    <3> QED
      BY <3>2, <3>3 DEF apply_input, Player
  <2>10. CASE \E a \in Addrs, hid \in Headers, t \in Ids : Fire(a, hid, t)
    <3>1. PICK a \in Addrs, hid \in Headers, t \in Ids, i \in Ids :
             LET ps == RefreshedPlayers(a, i) IN
             Received(a, hid, i) /\ CanHit(ps, i, t) /\ players_' = apply_fire(ps, i, t)
      BY <2>10 DEF Fire
    <3> DEFINE ps == RefreshedPlayers(a, i)
    <3>2. p \in DOMAIN ps /\ ~ps[p].alive /\ \A q \in DOMAIN ps : ps[q] \in Player
      BY <2>4, <3>1
    <3>3. players_' = apply_fire(ps, i, t) /\ CanHit(ps, i, t)
      BY <3>1
    <3> HIDE DEF ps
    <3>4. p # t /\ t \in DOMAIN ps /\ i \in DOMAIN ps
      BY <3>2, <3>3 DEF CanHit
    <3> QED
      BY <3>2, <3>3, <3>4 DEF apply_fire, Player
  <2>11. CASE TickAll
    BY <2>1, <2>11 DEF TickAll, simulate_respawn, Player
  <2> QED
    BY <1>1, <2>5, <2>6, <2>7, <2>8, <2>9, <2>10, <2>11 DEF Next
<1>2. ASSUME UNCHANGED vars PROVE Delayed
  BY <1>2 DEF vars, room_vars
<1>3. IInv /\ [Next]_vars => [Delayed]_vars
  BY <1>1, <1>2
<1> HIDE DEF Delayed
<1>4. Spec => [][Delayed]_vars
  BY <1>3, InductiveInvariant, PTL DEF Spec
<1> QED
  BY <1>4 DEF RespawnDelayed, Delayed

-----------------------------------------------------------------------------
\* Nothing but a tick touches the clock.
LEMMA ClockMoves ==
  ASSUME Next
  PROVE  UNCHANGED match_vars \/ TickAll
<1>1. ASSUME NEW a \in Addrs, Join(a) \/ Leave(a) PROVE UNCHANGED match_vars
  BY <1>1 DEF Join, Leave
<1>2. ASSUME NEW a \in Addrs, NEW hid \in Headers, OtherPacket(a, hid) \/ Respawn(a, hid)
      PROVE  UNCHANGED match_vars
  BY <1>2 DEF OtherPacket, Respawn, Received
<1>3. ASSUME NEW a \in Addrs, NEW hid \in Headers, NEW seq \in Seqs, Input(a, hid, seq)
      PROVE  UNCHANGED match_vars
  BY <1>3 DEF Input, Received
<1>4. ASSUME NEW a \in Addrs, NEW hid \in Headers, NEW t \in Ids, Fire(a, hid, t)
      PROVE  UNCHANGED match_vars
  BY <1>4 DEF Fire, Received
<1> HIDE DEF match_vars
<1> QED
  BY <1>1, <1>2, <1>3, <1>4 DEF Next

\* One tick moves the clock on by dt, rounded, while the ticks move on by TickMs.
LEMMA TickDrift ==
  ASSUME TypeOK, MatchClock, ~match_over_, ClockTick
  PROVE  Significand * (Counted' - Ticked') \in -Drift'..Drift'
<1> DEFINE e == Accumulated - (match_accum_ + dt)   \* the error of the sum,
           f == kSecMs * dt - TickMs * One          \* and that of dt
           s == match_accum_ + dt
           t == TickMs * One
<1>1. /\ Significand \in Nat /\ One \in Nat /\ kMatchSec \in Nat /\ t \in Nat /\ dt \in Nat
      /\ match_accum_ \in Nat /\ time_left_sec_ \in Nat /\ played \in Nat
      /\ Accumulated \in Nat /\ SecondsPassed \in Nat
  BY GameAssumption, ClockAssumption, DtBounds, AccumulatedBounds, SecondsPassedBounds
     DEF GameAssumption, ClockAssumption, TypeOK, kSecMs
<1>2. /\ time_left_sec_' = time_left_sec_ - SecondsPassed
      /\ match_accum_' = Accumulated - One * SecondsPassed
      /\ played' = played + 1
  BY DEF ClockTick
<1>3. /\ Significand * e \in -s..s /\ Significand * f \in -t..t
      /\ s < One + dt /\ s \in Nat /\ e \in Int /\ f \in Int
  BY <1>1, DtBounds, AccumulatedBounds DEF MatchClock, kSecMs
<1>4. Counted' = Counted + 1000 * (Accumulated - match_accum_)
  <2>1. (kMatchSec - (time_left_sec_ - SecondsPassed)) * One
           = (kMatchSec - time_left_sec_) * One + One * SecondsPassed
    BY <1>1
  <2> QED
    BY <1>1, <1>2, <2>1 DEF Counted, kSecMs
<1>5. Ticked' = Ticked + t /\ Drift' = Drift + t + 1000 * (One + dt)
  <2> DEFINE c == t + kSecMs * (One + dt)
  <2>1. c \in Nat
    BY <1>1 DEF kSecMs
  <2>2. t * (played + 1) = t * played + t /\ (played + 1) * c = played * c + c
    BY <1>1, <2>1
  <2> QED
    BY <1>1, <1>2, <2>2 DEF Ticked, Drift, kSecMs
<1>6. /\ Counted \in Int /\ Ticked \in Int /\ Drift \in Int
      /\ Significand * (Counted - Ticked) \in -Drift..Drift
  BY <1>1 DEF Counted, Ticked, Drift, MatchClock, kSecMs
<1>7. Counted' - Ticked' = (Counted - Ticked) + 1000 * e + f
  BY <1>1, <1>4, <1>5, <1>6 DEF kSecMs
<1> DEFINE x == Counted - Ticked
<1>8. x \in Int
  BY <1>6
<1> HIDE DEF e, f, x
<1>9. Significand * (x + 1000 * e + f)
         = Significand * x + 1000 * (Significand * e) + Significand * f
  BY <1>1, <1>3, <1>8
<1>10. Significand * x \in -Drift..Drift
  BY <1>6 DEF x
<1>11. Significand * (Counted' - Ticked')
          = Significand * x + 1000 * (Significand * e) + Significand * f
  BY <1>7, <1>9 DEF x
<1> HIDE DEF s, t
<1> QED
  BY <1>1, <1>3, <1>5, <1>6, <1>10, <1>11

\* The clock of the match keeps time but for rounding, with floats of any precision
\* and ticks of any length: MatchClock is inductive beside TypeOK.
THEOREM ClockKeepsTime == Spec => []MatchClock
<1>1. Init => MatchClock
  <2> SUFFICES ASSUME Init PROVE MatchClock
    OBVIOUS
  <2>1. /\ Significand \in Nat /\ One \in Nat \ {0} /\ TickMs * One \in Nat /\ dt \in Nat
        /\ kMatchSec \in Nat \ {0}
    BY GameAssumption, ClockAssumption, DtBounds DEF GameAssumption, ClockAssumption, kSecMs
  <2>2. Counted = 0 /\ Ticked = 0 /\ Drift = 0
    BY <2>1 DEF Init, Counted, Ticked, Drift, kSecMs
  <2> QED
    BY <2>1, <2>2 DEF Init, MatchClock
<1>2. ASSUME TypeOK, MatchClock, [Next]_vars PROVE MatchClock'
  <2>1. CASE UNCHANGED <<time_left_sec_, match_accum_, match_over_, played>>
    BY <1>2, <2>1 DEF MatchClock, Counted, Ticked, Drift
  <2>2. CASE ClockTick
    <3>1. CASE match_over_
      BY <2>1, <2>2, <3>1 DEF ClockTick
    <3>2. CASE ~match_over_
      <4>1. /\ SecondsPassed \in 0..time_left_sec_ /\ time_left_sec_ \in 0..kMatchSec
            /\ SecondsPassed < time_left_sec_ => Accumulated - One * SecondsPassed < One
            /\ Significand \in Nat /\ One \in Nat \ {0} /\ kMatchSec \in Nat
            /\ match_accum_ \in Nat /\ dt \in Nat /\ Accumulated \in Nat
        BY <1>2, SecondsPassedBounds, AccumulatedBounds, DtBounds, GameAssumption, ClockAssumption
           DEF GameAssumption, ClockAssumption, TypeOK
      <4>2. /\ time_left_sec_' = time_left_sec_ - SecondsPassed
            /\ match_accum_' = Accumulated - One * SecondsPassed
        BY <2>2, <3>2 DEF ClockTick
      <4> DEFINE over == match_over_'
      <4>7. over <=> time_left_sec_ = SecondsPassed
        BY <2>2, <3>2 DEF ClockTick
      <4> HIDE DEF over
      <4>3. over <=> time_left_sec_' = 0
        BY <4>1, <4>2, <4>7
      <4>4. ~over => match_accum_' < One
        BY <4>1, <4>2, <4>7
      <4>5. ASSUME over PROVE Significand * (match_accum_' - dt) <= One + dt
        <5>1. SecondsPassed \in Nat \ {0} /\ match_accum_ < One
          <6>1. time_left_sec_ # 0 /\ match_accum_ < One
            BY <1>2, <3>2 DEF MatchClock
          <6> QED
            BY <4>1, <4>5, <4>7, <6>1
        <5>2. One <= One * SecondsPassed /\ One * SecondsPassed \in Nat
          <6>1. One * 1 <= One * SecondsPassed
            BY <4>1, <5>1, TimesMono
          <6> QED
            BY <4>1, <5>1, <6>1
        <5>3. /\ match_accum_' - dt <= Accumulated - (match_accum_ + dt)
              /\ match_accum_' - dt \in Int /\ Accumulated - (match_accum_ + dt) \in Int
          BY <4>1, <4>2, <5>1, <5>2
        <5>4. Significand * (match_accum_' - dt) <= Significand * (Accumulated - (match_accum_ + dt))
          BY <4>1, <5>3, TimesMono
        <5>5. Significand * (Accumulated - (match_accum_ + dt)) <= match_accum_ + dt
          BY <1>2, <4>1, AccumulatedBounds
        <5>6. Significand * (match_accum_' - dt) \in Int
          BY <4>1, <5>3
        <5>7. Significand * (Accumulated - (match_accum_ + dt)) \in Int
          BY <4>1, <5>3
        <5> QED
          BY <4>1, <5>1, <5>4, <5>5, <5>6, <5>7
      <4>6. Significand * (Counted' - Ticked') \in -Drift'..Drift'
        BY <1>2, <2>2, <3>2, TickDrift
      <4> QED
        BY <4>3, <4>4, <4>5, <4>6 DEF MatchClock, over
    <3> QED
      BY <3>1, <3>2
  <2>3. UNCHANGED match_vars \/ TickAll \/ UNCHANGED vars
    BY <1>2, ClockMoves
  <2> QED
    BY <2>1, <2>2, <2>3 DEF TickAll, vars, match_vars
<1> QED
  BY <1>1, <1>2, TypeCorrect, PTL DEF Spec

-----------------------------------------------------------------------------
(* Scores and lives *)

\* Two records of one player that differ at most in peer and respawn timer.
SameBody(q, r) ==
    /\ q.hp = r.hp /\ q.alive = r.alive
    /\ q.kills = r.kills /\ q.deaths = r.deaths
    /\ q.last_input_seq = r.last_input_seq

\* Every player of qs that is in ps as well has the body it has there.
SameBodies(qs, ps) == \A p \in DOMAIN qs \cap DOMAIN ps : SameBody(qs[p], ps[p])

NoKill == \A e \in sent' : e.type # "Kill"

LEMMA RefreshSameBodies ==
  ASSUME TypeOK, IndexConsistent, NEW a \in Addrs, NEW hid, NEW p \in Ids, Received(a, hid, p)
  PROVE  LET ps == RefreshedPlayers(a, p) IN
         /\ DOMAIN ps = DOMAIN players_ /\ SameBodies(ps, players_)
         /\ \A q \in DOMAIN ps : ps[q] \in Player
<1>1. p = Resolved(a, hid)
  BY DEF Received
<1>2. /\ Players(RefreshedPlayers(a, p))
      /\ RefreshedPlayers(a, p) = [players_ EXCEPT ![p].peer = a]
  BY <1>1, RefreshKeeps
<1>3. \A q \in DOMAIN players_ : players_[q] \in Player
  BY DEF TypeOK, IsMap
<1> QED
  BY <1>2, <1>3 DEF Players, IsMap, Player, SameBodies, SameBody

\* Joins, leaves, ticks and the datagrams that only refresh a peer leave every
\* player's body alone, and announce no kill.
LEMMA QuietStep ==
  ASSUME TypeOK, IndexConsistent,
         \/ \E a \in Addrs : Join(a) \/ Leave(a)
         \/ \E a \in Addrs, hid \in Headers : OtherPacket(a, hid)
         \/ TickAll
  PROVE  SameBodies(players_', players_) /\ NoKill
<1>1. \A q \in DOMAIN players_ : players_[q] \in Player
  BY DEF TypeOK, IsMap
<1>2. ASSUME NEW a \in Addrs, Join(a) PROVE SameBodies(players_', players_) /\ NoKill
  BY <1>1, <1>2 DEF Join, With, Player, SameBodies, SameBody, NoKill
<1>3. ASSUME NEW a \in Addrs, Leave(a) PROVE SameBodies(players_', players_) /\ NoKill
  BY <1>3 DEF Leave, Without, SameBodies, SameBody, NoKill
<1>4. ASSUME NEW a \in Addrs, NEW hid \in Headers, OtherPacket(a, hid)
      PROVE  SameBodies(players_', players_) /\ NoKill
  <2>1. PICK p \in Ids : Received(a, hid, p) /\ players_' = RefreshedPlayers(a, p) /\ sent' = {}
    BY <1>4 DEF OtherPacket
  <2> QED
    BY <2>1, RefreshSameBodies DEF NoKill
<1>5. ASSUME TickAll PROVE SameBodies(players_', players_) /\ NoKill
  BY <1>1, <1>5 DEF TickAll, simulate_respawn, MatchState, Player, SameBodies, SameBody, NoKill
<1> QED
  BY <1>2, <1>3, <1>4, <1>5

\* An input moves at most a sequence number, and a respawn at most hp and life
\* of the dead; neither does so when the match is over.
LEMMA InputStep ==
  ASSUME TypeOK, IndexConsistent, NEW a \in Addrs, NEW hid, NEW seq \in Seqs, Input(a, hid, seq)
  PROVE  /\ NoKill
         /\ match_over_ => SameBodies(players_', players_)
         /\ \A p \in DOMAIN players_' \cap DOMAIN players_ :
               /\ players_'[p].alive = players_[p].alive
               /\ players_'[p].kills = players_[p].kills
               /\ players_'[p].deaths = players_[p].deaths
<1>1. PICK i \in Ids : /\ Received(a, hid, i)
                       /\ players_' = apply_input(RefreshedPlayers(a, i), i, seq) /\ sent' = {}
  BY DEF Input
<1> DEFINE ps == RefreshedPlayers(a, i)
<1>2. /\ DOMAIN ps = DOMAIN players_ /\ SameBodies(ps, players_)
      /\ \A q \in DOMAIN ps : ps[q] \in Player
  BY <1>1, RefreshSameBodies
<1>3. players_' = apply_input(ps, i, seq)
  BY <1>1
<1> HIDE DEF ps
<1> QED
  BY <1>1, <1>2, <1>3 DEF apply_input, Player, SameBodies, SameBody, NoKill

LEMMA RespawnStep ==
  ASSUME TypeOK, IndexConsistent, NEW a \in Addrs, NEW hid, Respawn(a, hid)
  PROVE  /\ NoKill
         /\ match_over_ => SameBodies(players_', players_)
         /\ \A p \in DOMAIN players_' \cap DOMAIN players_ :
               /\ players_[p].alive => players_'[p].alive
               /\ players_'[p].kills = players_[p].kills
               /\ players_'[p].deaths = players_[p].deaths
<1>1. PICK i \in Ids : /\ Received(a, hid, i)
                       /\ players_' = apply_respawn(RefreshedPlayers(a, i), i)
                       /\ sent' = {Event("Respawn", i, 0)}
  BY DEF Respawn
<1> DEFINE ps == RefreshedPlayers(a, i)
<1>2. /\ DOMAIN ps = DOMAIN players_ /\ SameBodies(ps, players_)
      /\ \A q \in DOMAIN ps : ps[q] \in Player
  BY <1>1, RefreshSameBodies
<1>3. players_' = apply_respawn(ps, i)
  BY <1>1
<1>4. NoKill
  BY <1>1 DEF Event, NoKill
<1> HIDE DEF ps
<1>5. CASE CanRespawn(ps, i)
  <2> DEFINE new == [ps[i] EXCEPT !.alive = TRUE, !.hp = kFullHp]
  <2>1. i \in DOMAIN ps /\ ps[i] \in Player /\ ~match_over_
    BY <1>2, <1>5 DEF CanRespawn
  <2>2. new.alive = TRUE /\ new.kills = ps[i].kills /\ new.deaths = ps[i].deaths
    BY <2>1 DEF Player
  <2>3. players_' = [ps EXCEPT ![i] = new]
    BY <1>3, <1>5, <2>1 DEF apply_respawn, Player
  <2> HIDE DEF new
  <2> QED
    BY <1>2, <1>4, <2>1, <2>2, <2>3 DEF SameBodies, SameBody
<1>6. CASE ~CanRespawn(ps, i)
  <2>1. players_' = ps
    BY <1>3, <1>6 DEF apply_respawn
  <2> QED
    BY <1>2, <1>4, <2>1 DEF SameBodies, SameBody
<1> QED
  BY <1>5, <1>6

\* A hit takes hp from its target.  If that kills, the target dies and counts a
\* death, the shooter, who is another, counts a kill, and that is announced.
LEMMA FireStep ==
  ASSUME TypeOK, IndexConsistent, NEW a \in Addrs, NEW hid, NEW t \in Ids, Fire(a, hid, t)
  PROVE  /\ ~match_over_ /\ DOMAIN players_' = DOMAIN players_
         /\ \E i \in Ids, killed \in BOOLEAN :
              /\ i # t /\ i \in DOMAIN players_ /\ t \in DOMAIN players_ /\ players_[t].alive
              /\ sent' = {Event("Hit", t, i)} \cup (IF killed THEN {Event("Kill", t, i)} ELSE {})
              /\ \A p \in DOMAIN players_ :
                    /\ players_'[p].alive = (players_[p].alive /\ ~(killed /\ p = t))
                    /\ players_'[p].deaths = IF killed /\ p = t THEN Incr(players_[p].deaths)
                                             ELSE players_[p].deaths
                    /\ players_'[p].kills = IF killed /\ p = i THEN Incr(players_[p].kills)
                                            ELSE players_[p].kills
<1>1. PICK i \in Ids :
        LET ps == RefreshedPlayers(a, i) IN
        /\ Received(a, hid, i) /\ CanHit(ps, i, t) /\ players_' = apply_fire(ps, i, t)
        /\ sent' = {Event("Hit", t, i)} \cup (IF Kills(ps, t) THEN {Event("Kill", t, i)} ELSE {})
  BY DEF Fire
<1> DEFINE ps == RefreshedPlayers(a, i)
           killed == Kills(ps, t)
<1>2. /\ DOMAIN ps = DOMAIN players_ /\ SameBodies(ps, players_)
      /\ \A q \in DOMAIN ps : ps[q] \in Player
  BY <1>1, RefreshSameBodies
<1>3. /\ players_' = apply_fire(ps, i, t) /\ CanHit(ps, i, t)
      /\ sent' = {Event("Hit", t, i)} \cup (IF killed THEN {Event("Kill", t, i)} ELSE {})
  BY <1>1
<1>4. killed \in BOOLEAN
  BY DEF Kills
<1>5. \A p \in DOMAIN ps : /\ ps[p].alive = players_[p].alive
                           /\ ps[p].deaths = players_[p].deaths
                           /\ ps[p].kills = players_[p].kills
  BY <1>2 DEF SameBodies, SameBody
<1> HIDE DEF ps
<1>6. /\ ~match_over_ /\ i # t /\ i \in DOMAIN ps /\ t \in DOMAIN ps /\ ps[t].alive
  BY <1>3 DEF CanHit
<1>7. DOMAIN players_' = DOMAIN ps
  BY <1>3, <1>6 DEF apply_fire
<1>8. ASSUME NEW p \in DOMAIN ps
      PROVE  /\ players_'[p].alive = (ps[p].alive /\ ~(killed /\ p = t))
             /\ players_'[p].deaths = IF killed /\ p = t THEN Incr(ps[p].deaths) ELSE ps[p].deaths
             /\ players_'[p].kills = IF killed /\ p = i THEN Incr(ps[p].kills) ELSE ps[p].kills
  <2>1. ps[p] \in Player /\ ps[p].alive \in BOOLEAN
    BY <1>2 DEF Player
  <2>2. CASE killed
    BY <1>2, <1>3, <1>6, <2>1, <2>2 DEF apply_fire, Player
  <2>3. CASE ~killed
    BY <1>2, <1>3, <1>6, <2>1, <2>3 DEF apply_fire, Player
  <2> QED
    BY <1>4, <2>2, <2>3
<1> HIDE DEF killed
<1>9. /\ i # t /\ i \in DOMAIN players_ /\ t \in DOMAIN players_ /\ players_[t].alive
      /\ \A p \in DOMAIN players_ :
            /\ players_'[p].alive = (players_[p].alive /\ ~(killed /\ p = t))
            /\ players_'[p].deaths = IF killed /\ p = t THEN Incr(players_[p].deaths)
                                     ELSE players_[p].deaths
            /\ players_'[p].kills = IF killed /\ p = i THEN Incr(players_[p].kills)
                                    ELSE players_[p].kills
  BY <1>2, <1>5, <1>6, <1>8
<1> QED
  BY <1>2, <1>3, <1>4, <1>6, <1>7, <1>9

\* Every kill is one life, one death and one point, announced in the same step,
\* for any number of players, any damage and any width of the scores.
THEOREM KillsAreAccounted == Spec => KillsAccounted
<1> DEFINE Died(p) == players_[p].alive /\ ~players_'[p].alive
           Accounted ==
             \A p \in DOMAIN players_ \cap DOMAIN players_' :
                /\ players_'[p].deaths = IF Died(p) THEN Incr(players_[p].deaths)
                                         ELSE players_[p].deaths
                /\ players_'[p].kills =
                      IF \E e \in sent' : e.type = "Kill" /\ e.by = p
                      THEN Incr(players_[p].kills) ELSE players_[p].kills
                /\ Died(p) <=> \E e \in sent' : e.type = "Kill" /\ e.target = p /\ e.by # p
<1>1. ASSUME NoKill,
             \A p \in DOMAIN players_' \cap DOMAIN players_ :
               /\ players_[p].alive => players_'[p].alive
               /\ players_'[p].kills = players_[p].kills
               /\ players_'[p].deaths = players_[p].deaths
      PROVE  Accounted
  BY <1>1 DEF NoKill
<1>2. ASSUME SameBodies(players_', players_), NoKill PROVE Accounted
  BY <1>1, <1>2 DEF SameBodies, SameBody
<1>3. ASSUME IInv, Next PROVE Accounted
  <2>1. TypeOK /\ IndexConsistent
    BY <1>3 DEF IInv
  <2>2. CASE \E a \in Addrs : Join(a) \/ Leave(a)
    BY <1>2, <2>1, <2>2, QuietStep
  <2>3. CASE \E a \in Addrs, hid \in Headers : OtherPacket(a, hid)
    BY <1>2, <2>1, <2>3, QuietStep
  <2>4. CASE TickAll
    BY <1>2, <2>1, <2>4, QuietStep
  <2>5. ASSUME NEW a \in Addrs, NEW hid \in Headers, Respawn(a, hid) PROVE Accounted
    BY <1>1, <2>1, <2>5, RespawnStep
  <2>6. ASSUME NEW a \in Addrs, NEW hid \in Headers, NEW seq \in Seqs, Input(a, hid, seq)
        PROVE  Accounted
    BY <1>1, <2>1, <2>6, InputStep
  <2>7. ASSUME NEW a \in Addrs, NEW hid \in Headers, NEW t \in Ids, Fire(a, hid, t)
        PROVE  Accounted
    <3>1. PICK i \in Ids, killed \in BOOLEAN :
              /\ i # t /\ i \in DOMAIN players_ /\ t \in DOMAIN players_ /\ players_[t].alive
              /\ sent' = {Event("Hit", t, i)} \cup (IF killed THEN {Event("Kill", t, i)} ELSE {})
              /\ \A p \in DOMAIN players_ :
                    /\ players_'[p].alive = (players_[p].alive /\ ~(killed /\ p = t))
                    /\ players_'[p].deaths = IF killed /\ p = t THEN Incr(players_[p].deaths)
                                             ELSE players_[p].deaths
                    /\ players_'[p].kills = IF killed /\ p = i THEN Incr(players_[p].kills)
                                            ELSE players_[p].kills
      BY <2>1, <2>7, FireStep
    <3>2. \A e \in sent' : e.type = "Kill" <=> killed /\ e = Event("Kill", t, i)
      BY <3>1 DEF Event
    <3>3. killed => Event("Kill", t, i) \in sent'
      BY <3>1
    <3>4. \A p : /\ (\E e \in sent' : e.type = "Kill" /\ e.by = p) <=> killed /\ p = i
                 /\ (\E e \in sent' : e.type = "Kill" /\ e.target = p /\ e.by # p)
                       <=> killed /\ p = t
      BY <3>1, <3>2, <3>3 DEF Event
    <3>5. \A p \in DOMAIN players_ : Died(p) <=> killed /\ p = t
      BY <3>1
    <3> HIDE DEF Died
    <3> QED
      BY <3>1, <3>4, <3>5
  <2> QED
    BY <1>3, <2>2, <2>3, <2>4, <2>5, <2>6, <2>7 DEF Next
<1>4. IInv /\ [Next]_vars => [Accounted]_vars
  BY <1>3
<1> HIDE DEF Accounted
<1>5. Spec => [][Accounted]_vars
  BY <1>4, InductiveInvariant, PTL DEF Spec
<1> QED
  BY <1>5 DEF KillsAccounted, Accounted

\* Once the match is over, no handler and no tick changes anybody's hp, life,
\* kills or accepted input, and the match stays over.
THEOREM FinishedMatchIsFrozen == Spec => MatchFrozen
<1> DEFINE Frozen ==
             match_over_ =>
                /\ match_over_' /\ time_left_sec_' = 0
                /\ \A p \in DOMAIN players_ \cap DOMAIN players_' :
                      /\ players_'[p].hp = players_[p].hp
                      /\ players_'[p].alive = players_[p].alive
                      /\ players_'[p].kills = players_[p].kills
                      /\ players_'[p].last_input_seq = players_[p].last_input_seq
<1>1. ASSUME IInv, MatchClock, Next, match_over_
      PROVE  SameBodies(players_', players_) /\ UNCHANGED <<match_over_, time_left_sec_>>
  <2>1. TypeOK /\ IndexConsistent
    BY <1>1 DEF IInv
  <2>2. UNCHANGED <<match_over_, time_left_sec_>>
    <3>1. CASE UNCHANGED match_vars
      BY <3>1 DEF match_vars
    <3>2. CASE TickAll
      BY <1>1, <3>2 DEF TickAll, ClockTick
    <3>3. UNCHANGED match_vars \/ TickAll
      BY <1>1, ClockMoves
    <3> QED
      BY <3>1, <3>2, <3>3
  <2>3. SameBodies(players_', players_)
    <3>1. CASE \/ \E a \in Addrs : Join(a) \/ Leave(a)
               \/ \E a \in Addrs, hid \in Headers : OtherPacket(a, hid)
               \/ TickAll
      BY <2>1, <3>1, QuietStep
    <3>2. ASSUME NEW a \in Addrs, NEW hid \in Headers, Respawn(a, hid)
          PROVE  SameBodies(players_', players_)
      BY <1>1, <2>1, <3>2, RespawnStep
    <3>3. ASSUME NEW a \in Addrs, NEW hid \in Headers, NEW seq \in Seqs, Input(a, hid, seq)
          PROVE  SameBodies(players_', players_)
      BY <1>1, <2>1, <3>3, InputStep
    <3>4. ASSUME NEW a \in Addrs, NEW hid \in Headers, NEW t \in Ids, Fire(a, hid, t)
          PROVE  FALSE
      BY <1>1, <2>1, <3>4, FireStep
    <3> QED
      BY <1>1, <3>1, <3>2, <3>3, <3>4 DEF Next
  <2> QED
    BY <2>2, <2>3
<1>2. ASSUME IInv, MatchClock, [Next]_vars PROVE [Frozen]_vars
  <2>1. CASE UNCHANGED vars
    BY <2>1
  <2>2. CASE Next
    <3>1. ASSUME match_over_ PROVE time_left_sec_ = 0
      BY <1>2, <3>1 DEF MatchClock
    <3>2. Frozen
      BY <1>1, <1>2, <2>2, <3>1 DEF SameBodies, SameBody
    <3> HIDE DEF Frozen
    <3> QED
      BY <3>2
  <2> QED
    BY <1>2, <2>1, <2>2
<1> HIDE DEF Frozen
<1>3. Spec => [][Frozen]_vars
  BY <1>2, InductiveInvariant, ClockKeepsTime, PTL DEF Spec
<1> QED
  BY <1>3 DEF MatchFrozen, Frozen
=============================================================================
