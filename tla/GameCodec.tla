----------------------------- MODULE GameCodec ------------------------------
(***************************************************************************)
(* lightnet::GameCodec: game packets to datagrams and back.                *)
(*                                                                         *)
(* A datagram is a sequence of words, each with its width in bytes and its *)
(* value; a word is read back as what it was if it is read at its width    *)
(* (little endian on both sides, signed and float values by their bits).   *)
(* Which fields a message has, in which order and how wide, is written     *)
(* twice in the code, by an encoder and a decoder, and so it is here.      *)
(* Values are whatever the caller puts there.  What narrows them is a cast *)
(* of a size: of the player count, of the payload and of texts, which are  *)
(* cut.                                                                    *)
(***************************************************************************)
EXTENDS Integers, SequencesExt

CONSTANTS CountSpace,   \* number of values of a snapshot's player count, 2^8
          LenSpace,     \* number of values of payload_len, 2^16
          kMaxChat,     \* 200
          kMaxName      \* 32

ASSUME CodecAssumption ==
    /\ CountSpace \in Nat \ {0} /\ LenSpace \in Nat \ {0}
    /\ kMaxChat \in Nat /\ kMaxName \in Nat

-----------------------------------------------------------------------------
(* Words *)

Pad     == "pad"
Refused == [msg_type |-> "refused"]    \* a decoder has returned false

U8(f)  == <<f, 1>>
U16(f) == <<f, 2>>
U32(f) == <<f, 4>>
U64(f) == <<f, 8>>
Pads   == <<Pad, 3>>    \* three bytes; all of them are there, or the decoder fails

Word(width, value) == <<width, value>>

\* The fields of two records.
Together(f, g) ==
    [x \in DOMAIN f \cup DOMAIN g |-> IF x \in DOMAIN f THEN f[x] ELSE g[x]]

\* The number of bytes up to the end of the n-th word.
Ends(words) ==
    LET end[n \in 0..Len(words)] == IF n = 0 THEN 0 ELSE end[n - 1] + words[n][1] IN end

Size(words) == Ends(words)[Len(words)]

\* The words that lie whole within the first bytes.
Prefix(words, bytes) ==
    LET end == Ends(words) IN
    IF end[Len(words)] <= bytes THEN words
    ELSE SubSeq(words, 1, Max({n \in 0..Len(words) : end[n] <= bytes}))

\* The bytes that fields take.
Width(fields) == Size([i \in DOMAIN fields |-> Word(fields[i][2], 0)])

\* The append_ calls of an encoder, for the named fields of in.
Append_(fields, in) ==
    [i \in DOMAIN fields |-> Word(fields[i][2], IF fields[i][1] = Pad THEN 0 ELSE in[fields[i][1]])]

\* The read_ calls of a decoder: all of them succeed, or it returns false.
Readable(fields, words) ==
    /\ Len(words) >= Len(fields)
    /\ \A i \in DOMAIN fields : words[i][1] = fields[i][2]

Read_(fields, words) ==
    IF ~Readable(fields, words) THEN Refused
    ELSE [f \in {fields[i][1] : i \in DOMAIN fields} \ {Pad} |->
             words[CHOOSE i \in DOMAIN fields : fields[i][1] = f][2]]

-----------------------------------------------------------------------------
(* Packets *)

kHeaderSize == 24    \* by the code's name; its fields are 28 bytes
kMagic      == "LNGP"
kVersion    == 1

\* The header, as encode writes and decode reads it; flags and reserved are 0 in
\* every packet that the code builds.
HeaderFields ==
    <<U32("magic"), U8("version"), U8("msg_type"), U16(Pad), U32("room_id"), U32("player_id"),
      U32("seq"), U32("tick"), U16("payload_len"), U16(Pad)>>

HeaderBytes == Width(HeaderFields)

encode(packet) ==
    Append_(HeaderFields, [packet EXCEPT !.payload_len = Size(packet.payload) % LenSpace])
    \o packet.payload

PayloadFits(payload_len, rest) == payload_len <= Size(rest)

decode(data) ==
    LET header == Read_(HeaderFields, data)
        rest   == SubSeq(data, Len(HeaderFields) + 1, Len(data))
    IN  IF \/ Size(data) < kHeaderSize \/ header = Refused
           \/ header.magic # kMagic \/ header.version # kVersion
           \/ ~PayloadFits(header.payload_len, rest)
        THEN Refused
        ELSE Together(header, [payload |-> Prefix(rest, header.payload_len)])

\* build_packet, up to encode.
build_packet(type, room_id, player_id, seq, tick, payload) ==
    [magic |-> kMagic, version |-> kVersion, msg_type |-> type, room_id |-> room_id,
     player_id |-> player_id, seq |-> seq, tick |-> tick, payload_len |-> 0,
     payload |-> payload]

-----------------------------------------------------------------------------
(* Payloads *)

InputFields == <<U32("input_seq"), U32("client_tick"), U8("move_x"), U8("move_y"), U16("yaw"),
                 U16("pitch"), U16("buttons")>>
PosFields   == <<U32("pos_x"), U32("pos_y"), U32("pos_z"), U8("has_pos"), Pads>>

encode_input(in) == Append_(InputFields \o PosFields, in)

\* The legacy input of 16 bytes has no position.
LegacyPos == [has_pos |-> 0]

decode_input(words) ==
    LET head == Read_(InputFields, words)
        rest == SubSeq(words, Len(InputFields) + 1, Len(words))
        pos  == IF Size(rest) < 16 THEN LegacyPos ELSE Read_(PosFields, rest)
    IN  IF head = Refused \/ pos = Refused THEN Refused ELSE Together(head, pos)

encode_fire(in) ==
    Append_(<<U32("client_tick"), U8("weapon_id"), Pads,
              U32("origin_x"), U32("origin_y"), U32("origin_z"),
              U32("dir_x"), U32("dir_y"), U32("dir_z")>>, in)

decode_fire(words) ==
    Read_(<<U32("client_tick"), U8("weapon_id"), Pads,
            U32("origin_x"), U32("origin_y"), U32("origin_z"),
            U32("dir_x"), U32("dir_y"), U32("dir_z")>>, words)

encode_join(in)    == Append_(<<U32("desired_room_id")>>, in)
decode_join(words) == Read_(<<U32("desired_room_id")>>, words)

encode_join_ack(in) ==
    Append_(<<U32("room_id"), U32("player_id"), U32("server_tick"), U32("tick_interval_ms")>>, in)

decode_join_ack(words) ==
    Read_(<<U32("room_id"), U32("player_id"), U32("server_tick"), U32("tick_interval_ms")>>, words)

\* A record of a snapshot is one word here, as wide as its 13 fields.
RecordFields ==
    <<U32("player_id"), U32("x"), U32("y"), U32("z"), U16("yaw"), U16("pitch"), U16("hp"),
      U16("state_flags"), U32("last_input_seq"), U8("weapon_id"), U8("pad0"), U16("kills"),
      U16("deaths")>>

RecordSize == Width(RecordFields)

encode_snapshot(in) ==
    Append_(<<U32("server_tick"), U8("count"), Pads>>,
            [server_tick |-> in.server_tick, count |-> Len(in.players) % CountSpace])
    \o [i \in DOMAIN in.players |-> Word(RecordSize, in.players[i])]

decode_snapshot(words) ==
    LET fields  == <<U32("server_tick"), U8("count"), Pads>>
        head    == Read_(fields, words)
        records == SubSeq(words, Len(fields) + 1, Len(words))
    IN  IF \/ head = Refused
           \/ Len(records) < head.count
           \/ \E i \in 1..head.count : records[i][1] # RecordSize
        THEN Refused
        ELSE [server_tick |-> head.server_tick,
              players |-> [i \in 1..head.count |-> records[i][2]]]

encode_event(in) ==
    Append_(<<U8("event_type"), Pads, U32("target_id"), U32("value"), U32("extra")>>, in)

decode_event(words) ==
    Read_(<<U8("event_type"), Pads, U32("target_id"), U32("value"), U32("extra")>>, words)

encode_ping(client_send)  == <<Word(8, client_send)>>
decode_ping(words)        == Read_(<<U64("client_send")>>, words)

encode_pong(client_send, server_recv, server_send) ==
    <<Word(8, client_send), Word(8, server_recv), Word(8, server_send)>>

\* Mutant: the server's two times are read the wrong way round.
decode_pong_m(words) ==
    Read_(<<U64("client_send"), U64("server_send"), U64("server_recv")>>, words)

decode_pong(words) ==
    Read_(<<U64("client_send"), U64("server_recv"), U64("server_send")>>, words)

\* A text and its length; the bytes are one word.
Text(text, cap) ==
    LET n == Min({Len(text), cap}) IN <<Word(2, n), Word(n, SubSeq(text, 1, n))>>

ReadableText(words) == Len(words) >= 2 /\ words[1][1] = 2 /\ words[2][1] = words[1][2]

encode_chat(in) == <<Word(4, in.sender_id)>> \o Text(in.text, kMaxChat)

decode_chat(words) ==
    LET text == Tail(words) IN
    IF Readable(<<U32("sender_id")>>, words) /\ ReadableText(text)
    THEN [sender_id |-> words[1][2], text |-> text[2][2]] ELSE Refused

encode_weapon(in)    == Append_(<<U8("weapon_id"), Pads>>, in)
decode_weapon(words) == Read_(<<U8("weapon_id"), Pads>>, words)

encode_match_state(in)    == Append_(<<U32("time_left_sec"), U8("match_over"), Pads>>, in)
decode_match_state(words) == Read_(<<U32("time_left_sec"), U8("match_over"), Pads>>, words)

encode_profile(in) == Text(in.name, kMaxName)

decode_profile(words) ==
    IF ReadableText(words) THEN [name |-> words[2][2]] ELSE Refused

-----------------------------------------------------------------------------
(* Properties *)

\* A message whose fields hold their own names, so that no two are alike.
Tagged(fields) == [f \in fields |-> f]

\* As many players, and a text of as many characters.
Players(n)    == [i \in 1..n |-> i]
Snapshot(n)   == [server_tick |-> "server_tick", players |-> Players(n)]
Chat(n)       == [sender_id |-> "sender_id", text |-> Players(n)]
Profile(n)    == [name |-> Players(n)]
SmallerOf(m, n) == IF m < n THEN m ELSE n

\* What every message should be for its receiver, and what the decoder makes of
\* what the encoder wrote: the same, but for texts that are cut to their limit
\* and for snapshots of more players than the count can say, which lose all
\* but the remainder.
RoundTrips ==
    LET input  == {"input_seq", "client_tick", "move_x", "move_y", "yaw", "pitch", "buttons"}
        pos    == {"pos_x", "pos_y", "pos_z", "has_pos"}
        fire   == {"client_tick", "weapon_id", "origin_x", "origin_y", "origin_z", "dir_x",
                   "dir_y", "dir_z"}
        ack    == {"room_id", "player_id", "server_tick", "tick_interval_ms"}
        event  == {"event_type", "target_id", "value", "extra"}
        match  == {"time_left_sec", "match_over"}
        pong   == {"client_send", "server_recv", "server_send"}
        legacy == SubSeq(encode_input(Tagged(input \cup pos)), 1, Len(InputFields))
    IN  { <<Tagged({"desired_room_id"}), decode_join(encode_join(Tagged({"desired_room_id"})))>>,
          <<Tagged(ack), decode_join_ack(encode_join_ack(Tagged(ack)))>>,
          <<Tagged(input \cup pos), decode_input(encode_input(Tagged(input \cup pos)))>>,
          <<Together(Tagged(input), LegacyPos), decode_input(legacy)>>,
          <<Tagged(fire), decode_fire(encode_fire(Tagged(fire)))>>,
          <<Tagged(event), decode_event(encode_event(Tagged(event)))>>,
          <<Tagged({"client_send"}), decode_ping(encode_ping("client_send"))>>,
          <<Tagged(pong), decode_pong(encode_pong("client_send", "server_recv", "server_send"))>>,
          <<Tagged({"weapon_id"}), decode_weapon(encode_weapon(Tagged({"weapon_id"})))>>,
          <<Tagged(match), decode_match_state(encode_match_state(Tagged(match)))>> }
        \cup {<<Snapshot(n % CountSpace), decode_snapshot(encode_snapshot(Snapshot(n)))>> :
                 n \in 0..(2 * CountSpace)}
        \cup {<<Chat(SmallerOf(n, kMaxChat)), decode_chat(encode_chat(Chat(n)))>> :
                 n \in 0..(kMaxChat + 1)}
        \cup {<<Profile(SmallerOf(n, kMaxName)), decode_profile(encode_profile(Profile(n)))>> :
                 n \in 0..(kMaxName + 1)}

MessagesKept == \A trip \in RoundTrips : trip[1] = trip[2]
=============================================================================
