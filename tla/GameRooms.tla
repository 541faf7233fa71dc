----------------------------- MODULE GameRooms ------------------------------
(***************************************************************************)
(* lightnet::GameRoomManager with its one GameRoom: UDP datagrams arrive   *)
(* duplicated, reordered or from an address the NAT has changed, and a     *)
(* repeating timer runs tick_all.  Every handler runs to its end on the    *)
(* loop thread, so a handler is one action.                                *)
(*                                                                         *)
(* A datagram is what the handlers read of it: the source address, the     *)
(* player id of its header (0 when the header names no room or player) and *)
(* the fields the room acts on.  Positions, aim, weapons, names and chat   *)
(* text decide nothing below: whom a shot hits is any living player.       *)
(* server_tick_ is only stamped on packets and is left out.                *)
(*                                                                         *)
(* The match clock is a sum of floats, and rounds as they do: a number of  *)
(* it is a whole number of units, of which 1.0f has One.  The respawn      *)
(* timers, which are floats too, are exact milliseconds: what rounding     *)
(* does to one in kRespawnMs is far less than a tick.                      *)
(***************************************************************************)
EXTENDS Integers, FiniteSetsExt

CONSTANTS Addrs,        \* client addresses, ip:port
          IdSpace,      \* number of values of a player id, 2^32
          ScoreSpace,   \* number of values of a score, 2^16
          MaxSeq,       \* bound: largest input_seq a client sends
          kFullHp,      \* a player's hp when it spawns, 100
          kFireDamage,
          kRespawnMs,   \* kRespawnDelay
          kMatchSec,    \* time_left_sec_ at the start, 300
          TickMs,       \* tick_interval_ms_
          Significand,  \* values of a float's significand, 2^24
          One           \* units of the match clock in 1.0f, 2^34

kSecMs == 1000

\* udp_game_server takes a tick of 1 to 1000 ms.
ASSUME GameAssumption ==
    /\ IdSpace \in Nat \ {0, 1}
    /\ ScoreSpace \in Nat \ {0, 1}
    /\ MaxSeq \in Nat
    /\ kFullHp \in Nat \ {0} /\ kFireDamage \in Nat \ {0}
    /\ kRespawnMs \in Nat \ {0}
    /\ kMatchSec \in Nat \ {0}
    /\ TickMs \in 1..kSecMs

\* The powers of two that the last place of a float can be worth in units.
Powers == {1, 2, 4, 8, 16, 32, 64, 128, 256, 512, 1024, 2048, 4096}

\* The last place of a number v.
Ulp(v) == Max({1} \cup {u \in Powers : Significand * u <= 2 * v})

\* The float that is nearest to n / d; of two, the even one.
Nearest(n, d) ==
    LET u == d * Ulp(n \div d)
        q == n \div u
        up == 2 * (n % u) > u \/ (2 * (n % u) = u /\ q % 2 = 1)
    IN  Ulp(n \div d) * (IF up THEN q + 1 ELSE q)

\* The length of a tick in tick().
dt == Nearest(TickMs * One, kSecMs)

\* A unit is not more than the last place of dt, and Powers goes up to the last place
\* of what a tick adds up.
ASSUME ClockAssumption ==
    /\ Significand \in Nat \ {0} /\ One \in Nat \ {0}
    /\ Significand * kSecMs <= 2 * TickMs * One
    /\ One + dt < 4096 * Significand

Ids    == 1..(IdSpace - 1)
Seqs   == 1..MaxSeq

VARIABLES room_open,        \* rooms_ holds room 1
          players_,         \* the room's players, by id
          peer_index_,      \* player id by address
          next_player_id_,
          time_left_sec_,
          match_accum_,     \* in units
          match_over_,
          match_broadcast_counter_,  \* modulo its period
          sent,             \* events and match states broadcast by the last step
          acked,            \* history: ids that a join ack has carried
          dead_ms,          \* history: tick time since a player's death, up to kRespawnMs
          played            \* history: ticks of the match until it was over

room_vars  == <<room_open, players_, peer_index_, next_player_id_>>
match_vars == <<time_left_sec_, match_accum_, match_over_, match_broadcast_counter_, played>>
vars == <<room_vars, match_vars, sent, acked, dead_ms>>

Player == [peer : Addrs, hp : 0..kFullHp, alive : BOOLEAN, respawn_timer : 0..kRespawnMs,
           last_input_seq : 0..MaxSeq,
           kills : 0..(ScoreSpace - 1), deaths : 0..(ScoreSpace - 1)]

\* The constructor.
Init ==
    /\ room_open = FALSE
    /\ players_ = << >>
    /\ peer_index_ = << >>
    /\ next_player_id_ = 1
    /\ time_left_sec_ = kMatchSec
    /\ match_accum_ = 0
    /\ match_over_ = FALSE
    /\ match_broadcast_counter_ = 0
    /\ sent = {}
    /\ acked = {}
    /\ dead_ms = [p \in Ids |-> 0]
    /\ played = 0

-----------------------------------------------------------------------------
(* Maps *)

With(f, k, v)  == [x \in DOMAIN f \cup {k} |-> IF x = k THEN v ELSE f[x]]
Without(f, k)  == [x \in DOMAIN f \ {k} |-> f[x]]

-----------------------------------------------------------------------------
(* GameRoom *)

\* add_player
NewPlayer(a) == [peer |-> a, hp |-> kFullHp, alive |-> TRUE, respawn_timer |-> 0,
                 last_input_seq |-> 0, kills |-> 0, deaths |-> 0]

apply_input(ps, p, seq) ==
    IF p \in DOMAIN ps /\ ps[p].alive /\ ~match_over_ /\ seq > ps[p].last_input_seq
    THEN [ps EXCEPT ![p].last_input_seq = seq] ELSE ps

\* find_hit_target: the shooter, itself alive, hits another living player.
CanHit(ps, shooter, t) ==
    /\ ~match_over_
    /\ shooter \in DOMAIN ps /\ ps[shooter].alive
    /\ t \in DOMAIN ps \ {shooter} /\ ps[t].alive

Incr(score) == (score + 1) % ScoreSpace

\* Mutant: a shot that takes the last hp does not kill.
Kills_m(ps, t) == ps[t].hp < kFireDamage

Kills(ps, t) == ps[t].hp <= kFireDamage

\* Mutant: a kill leaves the respawn timer alone.
apply_fire_m(ps, shooter, t) ==
    IF Kills(ps, t)
    THEN [ps EXCEPT ![t].hp = 0, ![t].alive = FALSE,
                    ![t].deaths = Incr(@), ![shooter].kills = Incr(@)]
    ELSE [ps EXCEPT ![t].hp = @ - kFireDamage]

\* Mutant: the shooter's kill is not counted.
apply_fire_m2(ps, shooter, t) ==
    IF Kills(ps, t)
    THEN [ps EXCEPT ![t].hp = 0, ![t].alive = FALSE, ![t].respawn_timer = kRespawnMs,
                    ![t].deaths = Incr(@)]
    ELSE [ps EXCEPT ![t].hp = @ - kFireDamage]

apply_fire(ps, shooter, t) ==
    IF Kills(ps, t)
    THEN [ps EXCEPT ![t].hp = 0, ![t].alive = FALSE, ![t].respawn_timer = kRespawnMs,
                    ![t].deaths = Incr(@), ![shooter].kills = Incr(@)]
    ELSE [ps EXCEPT ![t].hp = @ - kFireDamage]

\* Mutant: respawning goes on when the match is over.
CanRespawn_m(ps, p) ==
    p \in DOMAIN ps /\ ~ps[p].alive /\ ps[p].respawn_timer = 0

CanRespawn(ps, p) ==
    p \in DOMAIN ps /\ ~ps[p].alive /\ ~match_over_ /\ ps[p].respawn_timer = 0

apply_respawn(ps, p) ==
    IF CanRespawn(ps, p) THEN [ps EXCEPT ![p].alive = TRUE, ![p].hp = kFullHp] ELSE ps

\* Mutant: a timer that runs below zero is not stopped.
simulate_respawn_m(ps) ==
    [p \in DOMAIN ps |->
        IF ps[p].alive \/ ps[p].respawn_timer = 0 THEN ps[p]
        ELSE [ps[p] EXCEPT !.respawn_timer = @ - TickMs]]

\* simulate_respawn: the timers of the dead run down by one tick.
simulate_respawn(ps) ==
    [p \in DOMAIN ps |->
        IF ps[p].alive THEN ps[p]
        ELSE [ps[p] EXCEPT !.respawn_timer = IF @ > TickMs THEN @ - TickMs ELSE 0]]

\* The match clock part of tick(): the float sum of match_accum_ and dt, and the
\* whole seconds of it, not more than there are left.
Accumulated == Nearest(match_accum_ + dt, 1)

SecondsPassed ==
    LET whole == Accumulated \div One
    IN  IF whole <= time_left_sec_ THEN whole ELSE time_left_sec_

-----------------------------------------------------------------------------
(* GameRoomManager *)

\* join: an address that is bound already keeps its player.  A fresh id that
\* is 0 or taken makes add_player refuse, and the client gets no ack.
Join(a) ==
    /\ room_open' = (room_open \/ a \notin DOMAIN peer_index_)
    /\ IF a \in DOMAIN peer_index_
       THEN /\ acked' = acked \cup {peer_index_[a]}
            /\ players_' = IF peer_index_[a] \in DOMAIN players_
                           THEN [players_ EXCEPT ![peer_index_[a]].peer = a] ELSE players_
            /\ UNCHANGED <<peer_index_, next_player_id_, dead_ms>>
       ELSE LET p == next_player_id_ IN
            /\ next_player_id_' = (next_player_id_ + 1) % IdSpace
            /\ IF p = 0 \/ p \in DOMAIN players_
               THEN UNCHANGED <<players_, peer_index_, acked, dead_ms>>
               ELSE /\ players_' = With(players_, p, NewPlayer(a))
                    /\ peer_index_' = With(peer_index_, a, p)
                    /\ acked' = acked \cup {p}
                    /\ dead_ms' = [dead_ms EXCEPT ![p] = 0]
    /\ sent' = {}
    /\ UNCHANGED match_vars

\* leave_by_peer, called by the embedding program.
Leave(a) ==
    /\ a \in DOMAIN peer_index_
    /\ players_' = Without(players_, peer_index_[a])
    /\ peer_index_' = Without(peer_index_, a)
    /\ sent' = {}
    /\ UNCHANGED <<room_open, next_player_id_, match_vars, acked, dead_ms>>

\* resolve_and_refresh_peer: the player a datagram is for, or 0.  The binding
\* of the source address wins over the id in the header.
Resolved(a, hid) ==
    IF a \in DOMAIN peer_index_ THEN peer_index_[a]
    ELSE IF room_open /\ hid \in DOMAIN players_ THEN hid ELSE 0

\* Mutant: the player's former address stays bound after a rebinding.
RefreshedIndex_m(a, p) ==
    IF a \in DOMAIN peer_index_ THEN peer_index_ ELSE With(peer_index_, a, p)

\* Its effect on the address index and on the players.
RefreshedIndex(a, p) ==
    IF a \in DOMAIN peer_index_ THEN peer_index_
    ELSE With(Without(peer_index_, players_[p].peer), a, p)

RefreshedPlayers(a, p) ==
    IF p \in DOMAIN players_ THEN [players_ EXCEPT ![p].peer = a] ELSE players_

\* A datagram of a bound player or of one that its header finds again.
Received(a, hid, p) ==
    /\ p = Resolved(a, hid) /\ p # 0
    /\ peer_index_' = RefreshedIndex(a, p)
    /\ UNCHANGED <<room_open, next_player_id_, match_vars, acked>>

\* Chat, weapon, profile, ping and datagrams whose payload does not decode.
OtherPacket(a, hid) ==
    \E p \in Ids :
        /\ Received(a, hid, p)
        /\ players_' = RefreshedPlayers(a, p)
        /\ sent' = {}
        /\ UNCHANGED dead_ms

Input(a, hid, seq) ==
    \E p \in Ids :
        /\ Received(a, hid, p)
        /\ players_' = apply_input(RefreshedPlayers(a, p), p, seq)
        /\ sent' = {}
        /\ UNCHANGED dead_ms

Event(type, target, by) == [type |-> type, target |-> target, by |-> by]

\* kC2SFire that hits: the hit and, if so, the kill are broadcast.  One that
\* misses has the effect of OtherPacket.
Fire(a, hid, t) ==
    \E p \in Ids :
        LET ps == RefreshedPlayers(a, p) IN
        /\ Received(a, hid, p)
        /\ CanHit(ps, p, t)
        /\ players_' = apply_fire(ps, p, t)
        /\ sent' = {Event("Hit", t, p)} \cup (IF Kills(ps, t) THEN {Event("Kill", t, p)} ELSE {})
        /\ dead_ms' = IF Kills(ps, t) THEN [dead_ms EXCEPT ![t] = 0] ELSE dead_ms

\* kC2SRespawn: the event is broadcast whatever apply_respawn has done.
Respawn(a, hid) ==
    \E p \in Ids :
        /\ Received(a, hid, p)
        /\ players_' = apply_respawn(RefreshedPlayers(a, p), p)
        /\ sent' = {Event("Respawn", p, 0)}
        /\ UNCHANGED dead_ms

Period == IF kSecMs \div TickMs > 1 THEN kSecMs \div TickMs ELSE 1

Capped(ms) == IF ms <= kRespawnMs THEN ms ELSE kRespawnMs

\* Mutant: the part of a second that is left over is dropped.
ClockTick_m ==
    IF match_over_ THEN UNCHANGED <<time_left_sec_, match_accum_, match_over_, played>>
    ELSE /\ time_left_sec_' = time_left_sec_ - SecondsPassed
         /\ match_accum_' = IF SecondsPassed > 0 THEN 0 ELSE Accumulated
         /\ match_over_' = (time_left_sec_ = SecondsPassed)
         /\ played' = played + 1

\* To subtract 1.0f loses nothing.
ClockTick ==
    IF match_over_ THEN UNCHANGED <<time_left_sec_, match_accum_, match_over_, played>>
    ELSE /\ time_left_sec_' = time_left_sec_ - SecondsPassed
         /\ match_accum_' = Accumulated - One * SecondsPassed
         /\ match_over_' = (time_left_sec_ = SecondsPassed)
         /\ played' = played + 1

MatchState(over) == [type |-> "MatchState", over |-> over]

\* tick_all: the room, once there is one, ticks and broadcasts a snapshot (the
\* players themselves) and, once a second, the match state.
TickAll ==
    /\ match_broadcast_counter_' = (match_broadcast_counter_ + 1) % Period
    /\ IF room_open
       THEN /\ ClockTick
            /\ players_' = simulate_respawn(players_)
            /\ sent' = IF match_broadcast_counter_' = 0
                       THEN {MatchState(match_over_')} ELSE {}
            /\ dead_ms' = [p \in Ids |->
                              IF p \in DOMAIN players_ /\ ~players_[p].alive
                              THEN Capped(dead_ms[p] + TickMs) ELSE dead_ms[p]]
       ELSE /\ sent' = {}
            /\ UNCHANGED <<players_, time_left_sec_, match_accum_, match_over_, played, dead_ms>>
    /\ UNCHANGED <<room_open, peer_index_, next_player_id_, acked>>

-----------------------------------------------------------------------------
\* The player ids of headers: a client puts that of its ack there, or none.
Headers == acked \cup {0}

\* A datagram may be delayed, duplicated or come from any address the NAT gives
\* its client.
Next ==
    \/ \E a \in Addrs : Join(a) \/ Leave(a)
    \/ \E a \in Addrs, hid \in Headers :
          \/ OtherPacket(a, hid)
          \/ Respawn(a, hid)
          \/ \E seq \in Seqs : Input(a, hid, seq)
          \/ \E t \in Ids : Fire(a, hid, t)
    \/ TickAll

Spec == Init /\ [][Next]_vars

-----------------------------------------------------------------------------
(* Properties *)

\* f is a map from some of the keys in K to values in V.
IsMap(f, K, V) ==
    /\ DOMAIN f \subseteq K
    /\ f \in [DOMAIN f -> V]

\* Types: among them that no hp, timer or clock leaves its range.
TypeOK ==
    /\ room_open \in BOOLEAN
    /\ IsMap(players_, Ids, Player)
    /\ IsMap(peer_index_, Addrs, Ids)
    /\ next_player_id_ \in 0..(IdSpace - 1)
    /\ time_left_sec_ \in 0..kMatchSec
    /\ match_accum_ \in Nat
    /\ match_over_ \in BOOLEAN
    /\ match_broadcast_counter_ \in 0..(Period - 1)
    /\ sent \subseteq [type : {"Hit", "Kill", "Respawn"}, target : Ids, by : Ids \cup {0}]
                      \cup [type : {"MatchState"}, over : BOOLEAN]
    /\ acked \subseteq Ids
    /\ dead_ms \in [Ids -> 0..kRespawnMs]
    /\ played \in Nat

\* Players ps and address index ix are inverse to each other.
Consistent(ps, ix) ==
    /\ \A a \in DOMAIN ix : ix[a] \in DOMAIN ps /\ ps[ix[a]].peer = a
    /\ \A p \in DOMAIN ps : ps[p].peer \in DOMAIN ix /\ ix[ps[p].peer] = p

\* The address index and the players' peers agree through joins, leaves, NAT
\* rebindings and stale datagrams: snapshots and events for a player go to the
\* address that speaks for it, and an address speaks for one player.
IndexConsistent == Consistent(players_, peer_index_)

\* A player is dead exactly when its hp is 0, and only the dead wait to respawn.
HpConsistent ==
    \A p \in DOMAIN players_ :
        /\ players_[p].alive <=> players_[p].hp > 0
        /\ players_[p].respawn_timer > 0 => ~players_[p].alive

\* kSecMs times what the clock has counted of the match, and what the ticks add up
\* to, in units.
Counted == kSecMs * ((kMatchSec - time_left_sec_) * One + match_accum_)
Ticked  == TickMs * One * played

\* How far rounding can take one from the other, times Significand: with each tick,
\* by half of the last place of dt and half of that of the sum.
Drift == played * (TickMs * One + kSecMs * (One + dt))

\* The clock drifts from the ticks by what rounding accounts for and nothing else: no
\* tick and no part of a second is lost.  The match ends with the tick in which the
\* clock gets to kMatchSec, be it a tick late because the last second just missed 1.0f.
MatchClock ==
    /\ match_over_ <=> time_left_sec_ = 0
    /\ Significand * (Counted - Ticked) \in -Drift..Drift
    /\ ~match_over_ => match_accum_ < One
    /\ match_over_ => Significand * (match_accum_ - dt) <= One + dt

\* A kill is counted for one player and a death for another, in the same step
\* that is announced as a kill of the one by the other, and nothing else
\* changes the score or takes a life.
KillsAccounted ==
    [][\A p \in DOMAIN players_ \cap DOMAIN players_' :
          LET died == players_[p].alive /\ ~players_'[p].alive IN
          /\ players_'[p].deaths = IF died THEN Incr(players_[p].deaths) ELSE players_[p].deaths
          /\ players_'[p].kills =
                IF \E e \in sent' : e.type = "Kill" /\ e.by = p
                THEN Incr(players_[p].kills) ELSE players_[p].kills
          /\ died <=> \E e \in sent' : e.type = "Kill" /\ e.target = p /\ e.by # p]_vars

\* Nobody returns to life before kRespawnDelay of tick time has passed.
RespawnDelayed ==
    [][\A p \in DOMAIN players_ \cap DOMAIN players_' :
          ~players_[p].alive /\ players_'[p].alive => dead_ms[p] >= kRespawnMs]_vars

\* Once the match is over it stays over, and datagrams still under way change
\* neither hp, lives, score nor accepted input of anybody.
MatchFrozen ==
    [][match_over_ =>
          /\ match_over_' /\ time_left_sec_' = 0
          /\ \A p \in DOMAIN players_ \cap DOMAIN players_' :
                /\ players_'[p].hp = players_[p].hp
                /\ players_'[p].alive = players_[p].alive
                /\ players_'[p].kills = players_[p].kills
                /\ players_'[p].last_input_seq = players_[p].last_input_seq]_vars
=============================================================================
