------------------------------- MODULE MCWire -------------------------------
(* Values of Wire's constants for TLC: msgpack with short fields.          *)
EXTENDS Wire, Codec

\* One message of each kind, a byte of 128 or more in two of them.
Messages == {Code("command", 7), Code("response", 0), Code("offset", 300),
             Code("offset", 70000), Hash(<<5, 200>>), Packet(<<255, 0>>, 1), Resource(200, <<97, 0>>, <<47, 98, 0>>)}

Bytes    == 0..255
Htonl(n) == BigEndian(n, WordSize)

\* Tables, so that TLC serializes and deserializes each message once.
Packed      == [m \in Messages |-> SerializeMessage(m)]
Unpackings  == [x \in {<<m.kind, Packed[m]>> : m \in Messages} |-> DeserializeMessage(x[1], x[2])]
Pack(m)     == Packed[m]
Unpack(kind, b) == IF <<kind, b>> \in DOMAIN Unpackings THEN Unpackings[<<kind, b>>]
                                                        ELSE DeserializeMessage(kind, b)
=============================================================================
