----------------------------- MODULE GameClient -----------------------------
(***************************************************************************)
(* The game examples together: udp_game_client, GameServer with its        *)
(* UdpServer and its rooms, and the network between them, which loses,     *)
(* duplicates and reorders datagrams.  The rooms are module GameRooms; the *)
(* datagrams go through module GameCodec on both sides.                    *)
(*                                                                         *)
(* One client is followed.  A NAT may change the address that its          *)
(* datagrams come from.  The other players are what their datagrams do to  *)
(* the room; every client puts the id of its own ack, or none, in its      *)
(* headers.                                                                *)
(*                                                                         *)
(* Time is discrete, UnitMs a unit, and runs between steps.  select in the *)
(* client returns no later than its time-out; the server's tick may be     *)
(* late.                                                                   *)
(***************************************************************************)
EXTENDS GameCodec, FiniteSets

CONSTANTS Addrs, IdSpace, ScoreSpace, MaxSeq, kFullHp, kFireDamage, kRespawnMs, kMatchSec,
          TickMs, Significand, One,   \* GameRooms
          MyAddrs,      \* the addresses that the NAT gives the client,
          Me,           \* among them the one that its join comes from
          MaxInputs,    \* inputs that the client sends, 20
          kClientBuf,   \* bytes that the client reads of a datagram, 2048
          kMaxDatagramSize,   \* bytes of the longest datagram that UDP carries, 65507
          UnitMs,       \* a unit of time
          kJoinWait,    \* time-outs of the client in units: 5000 ms,
          kDrainWait,   \* 80 ms,
          kSleep,       \* 40 ms and
          kPingWait,    \* 2000 ms
          MaxNet,       \* bound: datagrams under way
          MaxExtra,     \* bound: duplications and datagrams of other players
          MaxMoves      \* bound: times that the NAT changes the address

\* A snapshot of so many players that their count wraps does not fit the client's buffer
\* (2048 < 24 + 256 * 34).  UDP carries a snapshot of one player, which is longer than what
\* players send; and the length of a payload that it carries does not wrap.
ASSUME ClientAssumption ==
    /\ Me \in MyAddrs /\ MyAddrs \subseteq Addrs
    /\ MaxInputs \in 1..MaxSeq
    /\ UnitMs \in Nat \ {0} /\ TickMs % UnitMs = 0
    /\ {kClientBuf, kMaxDatagramSize, kJoinWait, kDrainWait, kSleep, kPingWait} \subseteq Nat \ {0}
    /\ {MaxNet, MaxExtra, MaxMoves} \subseteq Nat
    /\ kClientBuf < kHeaderSize + CountSpace * RecordSize
    /\ kHeaderSize + RecordSize < kMaxDatagramSize /\ kMaxDatagramSize < LenSpace

VARIABLES room_open, players_, peer_index_, next_player_id_, time_left_sec_, match_accum_,
          match_over_, match_broadcast_counter_, sent, acked, dead_ms, played,
          server,       \* "down", "up" in loop(), or "stopped"
          due,          \* units until the tick timer expires
          net,          \* datagrams under way: to whom, the server's with their source
          extra,        \* duplications and datagrams of other players so far
          client,       \* the locals of main() in udp_game_client
          addr,         \* the address that its datagrams come from, and
          moves,        \* how often it has changed
          shown         \* history: the players of the last snapshot counted

Rooms == INSTANCE GameRooms

ASSUME RoomsAssumption == Rooms!GameAssumption /\ Rooms!ClockAssumption

rooms == <<room_open, players_, peer_index_, next_player_id_, time_left_sec_, match_accum_,
           match_over_, match_broadcast_counter_, sent, acked, dead_ms, played>>
nat   == <<addr, moves>>
vars  == <<rooms, server, due, net, extra, client, nat, shown>>

kRoom     == 1
Stamp     == 0                     \* server_tick_, and the times of a ping
TickUnits == TickMs \div UnitMs
Others    == Addrs \ MyAddrs

Init ==
    /\ Rooms!Init
    /\ server = "down" /\ due = 0
    /\ net = {} /\ extra = 0
    /\ addr = Me /\ moves = 0
    /\ client = [pc |-> "start", wait |-> 0, room_id |-> 0, player_id |-> 0, inputs |-> 0,
                 snapshots |-> FALSE, code |-> -1]
    /\ shown = << >>

-----------------------------------------------------------------------------
(* The network *)

ToServer(packet) == [to |-> "server", from |-> addr, packet |-> packet]

\* To any address of the client: what comes to a former one may still arrive.
Datagram(packet) == [to |-> "client", packet |-> packet]

\* The bytes of an encoded packet.
Length(packet) == HeaderBytes + Size(packet.payload)

\* sendto fails for a datagram that is too long; what there is no room for is lost, as
\* any datagram may be.
Sent(ds, under_way) ==
    LET now == under_way \cup {d \in ds : Length(d.packet) <= kMaxDatagramSize}
    IN  IF Cardinality(now) <= MaxNet THEN now ELSE under_way

Lose(d) ==
    /\ net' = net \ {d}
    /\ UNCHANGED <<rooms, server, due, extra, client, nat, shown>>

\* The NAT gives the next datagram of the client another address, or a former one again.
Rebind(a) ==
    /\ client.pc \in {"sending", "pinging"} /\ moves < MaxMoves
    /\ addr' = a /\ moves' = moves + 1
    /\ UNCHANGED <<rooms, server, due, net, extra, client, shown>>

-----------------------------------------------------------------------------
(* The server *)

\* A packet of the room to the client, for every player that the room has at one of its
\* addresses; the packets to the other players are not followed.
ToClient(type, seq, payload) ==
    {Datagram(build_packet(type, kRoom, p, seq, Stamp, payload)) :
        p \in {q \in DOMAIN players_' : players_'[q].peer \in MyAddrs}}

EventType  == [Hit |-> 1, Kill |-> 2, Respawn |-> 3]
EventValue == [Hit |-> -kFireDamage, Kill |-> 0, Respawn |-> kFullHp]

send_event(e) ==
    ToClient("S2CEvent", 0,
        encode_event([event_type |-> EventType[e.type], target_id |-> e.target,
                      value |-> EventValue[e.type], extra |-> e.by]))

send_match_state(over) ==
    ToClient("S2CMatchState", 0,
        encode_match_state([time_left_sec |-> time_left_sec_', match_over |-> over]))

\* What the room's last step has broadcast.
Broadcast ==
    UNION {IF e.type = "MatchState" THEN send_match_state(e.over) ELSE send_event(e) : e \in sent'}

send_chat(p, text) ==
    ToClient("S2CChat", 0, encode_chat([sender_id |-> p, text |-> text]))

\* The players come in the order of a hash table.
send_snapshot ==
    LET ids == SetToSeq(DOMAIN players_')
        record(p) == [player_id |-> p, last_input_seq |-> players_'[p].last_input_seq]
    IN  ToClient("S2CSnapshot", Stamp,
            encode_snapshot([server_tick |-> Stamp, players |-> [i \in DOMAIN ids |-> record(ids[i])]]))

JoinAck(p) ==
    Datagram(build_packet("S2CJoinAck", kRoom, p, 0, Stamp,
        encode_join_ack([room_id |-> kRoom, player_id |-> p, server_tick |-> Stamp,
                         tick_interval_ms |-> TickMs])))

\* Mutant: a join that comes twice is acknowledged with an id of its own.
send_join_ack_m(a) ==
    IF a \notin MyAddrs \/ a \notin DOMAIN peer_index_' THEN {} ELSE {JoinAck(next_player_id_)}

\* To the client only, as what follows.
send_join_ack(a) ==
    IF a \notin MyAddrs \/ a \notin DOMAIN peer_index_' THEN {} ELSE {JoinAck(peer_index_'[a])}

send_pong(a, ping) ==
    LET bound == a \in DOMAIN peer_index_' IN
    IF a \notin MyAddrs \/ decode_ping(ping.payload) = Refused THEN {}
    ELSE {Datagram(build_packet("S2CPong",
             IF bound THEN kRoom ELSE ping.room_id,
             IF bound THEN peer_index_'[a] ELSE ping.player_id, ping.seq, ping.tick,
             encode_pong(decode_ping(ping.payload).client_send, Stamp, Stamp)))}

\* The player id that a header names; a room that does not exist has no players.
HeaderId(packet) == IF packet.room_id = kRoom THEN packet.player_id ELSE 0

Unresolved(a, packet) == Rooms!Resolved(a, HeaderId(packet)) = 0

\* on_datagram and handle_packet, for a datagram from address a; the packets still
\* under way are those of rest.
HandlePacket(a, packet, rest) ==
    LET hid     == HeaderId(packet)
        is(t)   == packet.msg_type = t
        lost    == UNCHANGED rooms /\ net' = rest
        other   == Rooms!OtherPacket(a, hid)
        in      == CASE is("C2SJoin")    -> decode_join(packet.payload)
                     [] is("C2SInput")   -> decode_input(packet.payload)
                     [] is("C2SFire")    -> decode_fire(packet.payload)
                     [] is("C2SChat")    -> decode_chat(packet.payload)
                     [] is("C2SWeapon")  -> decode_weapon(packet.payload)
                     [] is("C2SProfile") -> decode_profile(packet.payload)
                     [] OTHER            -> Refused
    IN  \/ /\ is("C2SJoin") /\ in # Refused
           /\ Rooms!Join(a)
           /\ net' = Sent(send_join_ack(a), rest)
        \/ /\ is("C2SInput") /\ in # Refused
           /\ Rooms!Input(a, hid, in.input_seq)
           /\ net' = rest
        \/ /\ is("C2SFire") /\ in # Refused
           /\ other \/ \E t \in Rooms!Ids : Rooms!Fire(a, hid, t)
           /\ net' = Sent(Broadcast, rest)
        \/ /\ is("C2SChat") /\ in # Refused
           /\ other
           /\ net' = Sent(send_chat(Rooms!Resolved(a, hid), in.text), rest)
        \/ /\ is("C2SRespawn")
           /\ Rooms!Respawn(a, hid)
           /\ net' = Sent(Broadcast, rest)
        \/ /\ is("C2SPing")
           /\ other \/ (Unresolved(a, packet) /\ UNCHANGED rooms)
           /\ net' = Sent(send_pong(a, packet), rest)
        \* Changes nothing but the player's address: a weapon or a profile, or a
        \* payload that does not decode.
        \/ /\ is("C2SWeapon") \/ is("C2SProfile")
              \/ (in = Refused /\ packet.msg_type \in {"C2SInput", "C2SFire", "C2SChat"})
           /\ other
           /\ net' = rest
        \* Nobody's, or nothing the server knows.
        \/ /\ \/ packet = Refused
              \/ is("C2SJoin") /\ in = Refused
              \/ packet.msg_type \notin {"refused", "C2SJoin", "C2SPing"} /\ Unresolved(a, packet)
           /\ lost

\* GameServer::start: from then on the socket is read and the timer runs.
Start ==
    /\ server = "down"
    /\ server' = "up"
    /\ due' = TickUnits
    /\ UNCHANGED <<rooms, net, extra, client, nat, shown>>

\* A signal ends loop(); then main calls stop and closes the socket.
Stop ==
    /\ server = "up"
    /\ server' = "stopped"
    /\ due' = 0
    /\ UNCHANGED <<rooms, net, extra, client, nat, shown>>

\* The i-th input of a client, from 0.
InputOf(i) ==
    [input_seq |-> i + 1, client_tick |-> i, move_x |-> 127, move_y |-> 0, yaw |-> i * 100,
     pitch |-> 0, buttons |-> 0, pos_x |-> 0, pos_y |-> 13, pos_z |-> 0, has_pos |-> 0]

\* A datagram is taken from the network, which may deliver it again.
Rest(d, again) == IF again = 1 THEN net ELSE net \ {d}

ServerReceives(d, again) ==
    /\ server = "up" /\ d.to = "server"
    /\ HandlePacket(d.from, decode(encode(d.packet)), Rest(d, again))
    /\ extra' = extra + again
    /\ UNCHANGED <<server, due, client, nat, shown>>

\* The ids that acks have given the other players.
OtherIds == {p \in DOMAIN players_ : players_[p].peer \in Others}

\* Packets of a player that goes by id p, or by none yet (0), among them ones in error,
\* as the server decodes them.
OtherPackets == [p \in 0..(IdSpace - 1) |->
    LET build(t, payload) == build_packet(t, IF p = 0 THEN 0 ELSE kRoom, p, 1, 0, payload)
        fire == Tagged({"client_tick", "weapon_id", "origin_x", "origin_y", "origin_z",
                        "dir_x", "dir_y", "dir_z"})
        sent_packets ==
          { build("C2SJoin", encode_join([desired_room_id |-> 0])),
            build("C2SFire", encode_fire(fire)),
            build("C2SChat", encode_chat([sender_id |-> p, text |-> <<"hi">>])),
            build("C2SWeapon", encode_weapon([weapon_id |-> 1])),
            build("C2SProfile", encode_profile([name |-> <<"me">>])),
            build("C2SRespawn", << >>),
            build("C2SPing", encode_ping(Stamp)),
            build("C2SFire", << >>),
            build("C2SJoin", << >>),
            [build("C2SJoin", << >>) EXCEPT !.version = 2] }
          \cup {build("C2SInput", encode_input(InputOf(i))) : i \in 0..(MaxSeq - 1)}
    IN  {decode(encode(packet)) : packet \in sent_packets}]

OtherPlayer(a, packet) ==
    /\ server = "up" /\ extra < MaxExtra
    /\ extra' = extra + 1
    /\ HandlePacket(a, packet, net)
    /\ UNCHANGED <<server, due, client, nat, shown>>

\* on_tick.  The timer is rearmed from the time of the tick.
OnTick ==
    /\ server = "up" /\ due = 0
    /\ due' = TickUnits
    /\ Rooms!TickAll
    /\ net' = Sent(IF room_open THEN send_snapshot \cup Broadcast ELSE {}, net)
    /\ UNCHANGED <<server, extra, client, nat, shown>>

-----------------------------------------------------------------------------
(* The client *)

\* recv_packet: the buffer cuts a datagram that is longer.
recv_packet(d) == decode(Prefix(encode(d.packet), kClientBuf))

Waits(pc) == pc \in {"joining", "draining", "ponging"}

Goes(pc, wait) == [client EXCEPT !.pc = pc, !.wait = wait]

ClientSends(packet) == net' = Sent({ToServer(packet)}, net)

Exits(code) == [client EXCEPT !.pc = "done", !.wait = 0, !.code = code]

JoinPacket == build_packet("C2SJoin", 0, 0, 1, 0, encode_join([desired_room_id |-> 0]))

SendJoin ==
    /\ client.pc = "start"
    /\ client' = Goes("joining", kJoinWait)
    /\ ClientSends(JoinPacket)
    /\ UNCHANGED <<rooms, server, due, extra, nat, shown>>

\* The first packet has to be the ack.
Joined(packet) ==
    LET ack == IF packet.msg_type = "S2CJoinAck" THEN decode_join_ack(packet.payload) ELSE Refused
    IN  /\ client' = IF ack = Refused THEN Exits(1)
                     ELSE [Goes("sending", 0) EXCEPT !.room_id = ack.room_id,
                                                     !.player_id = ack.player_id]
        /\ UNCHANGED shown

\* Mutant: the drain loop tries again when nothing has come.
DrainEnds_m == Goes("draining", kDrainWait)

DrainEnds == Goes("sleeping", kSleep)

\* The drain loop: it goes on with every packet that decodes, and counts the
\* snapshots.
Drained(packet) ==
    LET snap == IF packet.msg_type = "S2CSnapshot" THEN decode_snapshot(packet.payload) ELSE Refused
    IN  IF packet = Refused THEN client' = DrainEnds /\ UNCHANGED shown
        ELSE IF snap = Refused THEN client' = Goes("draining", kDrainWait) /\ UNCHANGED shown
        ELSE /\ client' = [Goes("draining", kDrainWait) EXCEPT !.snapshots = TRUE]
             /\ shown' = snap.players

\* The exit code; the pong, or what comes in its place, changes nothing.
Ponged == client' = Exits(IF client.snapshots THEN 0 ELSE 2) /\ UNCHANGED shown

ClientReceives(d, again) ==
    /\ d.to = "client" /\ Waits(client.pc)
    /\ \/ client.pc = "joining"  /\ Joined(recv_packet(d))
       \/ client.pc = "draining" /\ Drained(recv_packet(d))
       \/ client.pc = "ponging"  /\ Ponged
    /\ net' = Rest(d, again)
    /\ extra' = extra + again
    /\ UNCHANGED <<rooms, server, due, nat>>

\* Mutant: one input too many.
MoreInputs_m == client.inputs <= MaxInputs

MoreInputs == client.inputs < MaxInputs

\* select returns 0, or the sleep ends.
TimeOut ==
    /\ client.pc \in {"joining", "draining", "ponging", "sleeping"} /\ client.wait = 0
    /\ \/ client.pc = "joining"  /\ client' = Exits(1) /\ UNCHANGED shown
       \/ client.pc = "draining" /\ client' = DrainEnds /\ UNCHANGED shown
       \/ client.pc = "ponging"  /\ Ponged
       \/ /\ client.pc = "sleeping"
          /\ client' = Goes(IF MoreInputs THEN "sending" ELSE "pinging", 0)
          /\ UNCHANGED shown
    /\ UNCHANGED <<rooms, server, due, net, extra, nat>>

InputPacket(i) ==
    build_packet("C2SInput", client.room_id, client.player_id, i + 2, i, encode_input(InputOf(i)))

SendInput ==
    /\ client.pc = "sending"
    /\ client' = [Goes("draining", kDrainWait) EXCEPT !.inputs = @ + 1]
    /\ ClientSends(InputPacket(client.inputs))
    /\ UNCHANGED <<rooms, server, due, extra, nat, shown>>

PingPacket(seq) ==
    build_packet("C2SPing", client.room_id, client.player_id, seq, 0, encode_ping(Stamp))

SendPing ==
    /\ client.pc = "pinging"
    /\ client' = Goes("ponging", kPingWait)
    /\ ClientSends(PingPacket(client.inputs + 2))
    /\ UNCHANGED <<rooms, server, due, extra, nat, shown>>

-----------------------------------------------------------------------------

\* Time does not pass over the client's code between two waits, nor over a time-out.
TimePasses ==
    /\ client.pc \in {"start", "done"} \/ client.wait > 0
    /\ due' = IF due > 0 THEN due - 1 ELSE 0
    /\ client' = [client EXCEPT !.wait = IF @ > 0 THEN @ - 1 ELSE 0]
    /\ UNCHANGED <<rooms, server, net, extra, nat, shown>>

Next ==
    \/ Start \/ Stop \/ OnTick
    \/ \E d \in net, again \in {0, 1} :
          extra + again <= MaxExtra /\ (ServerReceives(d, again) \/ ClientReceives(d, again))
    \/ \E d \in net : Lose(d)
    \/ \E a \in MyAddrs \ {addr} : Rebind(a)
    \/ \E a \in Others, p \in OtherIds \cup {0} :
          \E packet \in OtherPackets[p] : OtherPlayer(a, packet)
    \/ SendJoin \/ TimeOut \/ SendInput \/ SendPing
    \/ TimePasses

Spec == Init /\ [][Next]_vars

\* The client's process runs and time goes on.  Nothing says that a datagram
\* arrives, or that the server starts, ticks or answers.
FairSpec == Spec /\ WF_vars(TimeOut \/ SendInput \/ SendPing) /\ WF_vars(TimePasses)

-----------------------------------------------------------------------------
(* Properties *)

\* Types; the client waits only where it calls select or sleeps.
TypeOK ==
    /\ server \in {"down", "up", "stopped"}
    /\ due \in 0..TickUnits
    /\ Cardinality(net) <= MaxNet /\ \A d \in net : d.to \in {"server", "client"}
    /\ extra \in 0..MaxExtra
    /\ addr \in MyAddrs /\ moves \in 0..MaxMoves
    /\ client.pc \in {"start", "sending", "sleeping", "pinging", "done"} \/ Waits(client.pc)
    /\ client.wait > 0 => Waits(client.pc) \/ client.pc = "sleeping"
    /\ client.inputs \in 0..MaxInputs
    /\ client.code \in {-1, 0, 1, 2}
    /\ client.code # -1 <=> client.pc = "done"

\* The encoders and decoders agree, for every message; and a datagram is refused
\* by the client's buffer or read as it was sent, never as something else.
Faithful ==
    /\ MessagesKept
    /\ \A d \in net :
          LET p == recv_packet(d) IN
          p # Refused => p.msg_type = d.packet.msg_type /\ p.payload = d.packet.payload

\* The id that the client goes by is that of the player which the server takes its
\* datagrams for, and of a player in every snapshot that it counts, with no input the
\* client has not sent: whatever is duplicated, late or cut off, and wherever the NAT
\* moves the client.  Only where the NAT brings it back to the address of its join can
\* the server take it for another: a late copy of the join may have got a player there.
OwnPlayerShown ==
    client.player_id # 0 =>
        /\ addr # Me \/ moves = 0 => Rooms!Resolved(addr, client.player_id) = client.player_id
        /\ client.snapshots =>
              \E i \in DOMAIN shown : /\ shown[i].player_id = client.player_id
                                      /\ shown[i].last_input_seq <= client.inputs

\* The client ends, whatever is lost or late, as long as a tick takes longer than
\* one drain time-out for each datagram that it sends; and the exit code is 0 only
\* if the client has seen a snapshot.
ClientFinishes ==
    (client.pc = "joining") ~> (client.pc = "done" /\ (client.code = 0 => shown # << >>))

\* udp_game_client.cpp:2: Join, Input, Snapshot, then Ping.
PingFollows == (client.pc = "sending") ~> (client.pc = "ponging")
=============================================================================
