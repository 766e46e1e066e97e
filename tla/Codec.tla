-------------------------------- MODULE Codec --------------------------------
(***************************************************************************)
(* What the serializers of serializer.h make of a message and what the     *)
(* deserializers of deserializer.h read from it, in the bytes of msgpack.  *)
(* Only the sizes of the fields are scaled down; integers are modelled up  *)
(* to 4 bytes (an 8-byte one differs in its tag).                          *)
(***************************************************************************)
EXTENDS Integers, SequencesExt, FiniteSetsExt

CONSTANTS MD5_HASH_LENGTH, MAX_RESOURCE_LENGTH, MAX_PATH_LENGTH, BUFFER_SIZE

-----------------------------------------------------------------------------
(* msgpack.                                                                *)

BigEndian(n, width) == [i \in 1..width |-> (n \div 256^(width - i)) % 256]
FromBigEndian(b)    == FoldLeft(LAMBDA n, byte : 256 * n + byte, 0, b)

PackUint(n) == CASE n < 128 -> <<n>>
                 [] n \in 128..255 -> <<204>> \o BigEndian(n, 1)
                 [] n \in 256..65535 -> <<205>> \o BigEndian(n, 2)
                 [] n > 65535 -> <<206>> \o BigEndian(n, 4)
PackArray(n) == IF n < 16 THEN <<144 + n>> ELSE <<220>> \o BigEndian(n, 2)
PackStr(n)   == CASE n < 32 -> <<160 + n>>
                  [] n \in 32..255 -> <<217>> \o BigEndian(n, 1)
                  [] n > 255 -> <<218>> \o BigEndian(n, 2)
PackUints(s) == FlattenSeq([i \in DOMAIN s |-> PackUint(s[i])])

\* How many bytes after a tag hold an integer, an array's length, a string's.
UintWidth  == [b \in 204..206 |-> 2^(b - 204)]
ArrayWidth == [b \in {220} |-> 2]
StrWidth   == [b \in {217, 218} |-> b - 216]

\* The object that starts at i, and where the next one starts; a string is the
\* sequence of its bytes.  An object that is cut short ends beyond the bytes.
RECURSIVE Unpacked(_, _), Items(_, _, _)
Items(b, i, n) ==
    IF n = 0 \/ i > Len(b) THEN [value |-> <<>>, next |-> i + n]
    ELSE LET first == Unpacked(b, i)
             rest  == Items(b, first.next, n - 1)
         IN  [value |-> <<first.value>> \o rest.value, next |-> rest.next]
Unpacked(b, i) ==
    LET Cut(from, n)  == SubSeq(b, from, Min({from + n - 1, Len(b)}))
        Number(w)     == FromBigEndian(Cut(i + 1, w))
        Str(from, n)  == [value |-> Cut(from, n), next |-> from + n]
    IN  CASE b[i] < 128 -> [value |-> b[i], next |-> i + 1]
          [] b[i] \in 144..159 -> Items(b, i + 1, b[i] - 144)
          [] b[i] \in 160..191 -> Str(i + 1, b[i] - 160)
          [] b[i] \in DOMAIN UintWidth ->
                 [value |-> Number(UintWidth[b[i]]), next |-> i + 1 + UintWidth[b[i]]]
          [] b[i] \in DOMAIN ArrayWidth -> Items(b, i + 3, Number(2))
          [] b[i] \in DOMAIN StrWidth ->
                 Str(i + 1 + StrWidth[b[i]], Number(StrWidth[b[i]]))

-----------------------------------------------------------------------------
(* The messages, with all their fields.                                    *)

Code(kind, code)            == [kind |-> kind, code |-> code]
Hash(hash)                  == [kind |-> "hash", hash |-> hash]
Resource(size, name, dir)   == [kind |-> "resource", size |-> size, name |-> name, dir |-> dir]
Packet(payload, size)       == [kind |-> "packet", payload |-> payload, size |-> size]

SerializeHash(m)     == PackArray(MD5_HASH_LENGTH) \o PackUints(m.hash)
SerializeResource(m) == PackArray(3) \o PackUint(m.size)
                        \o PackStr(MAX_RESOURCE_LENGTH) \o m.name
                        \o PackStr(MAX_PATH_LENGTH) \o m.dir
SerializePacket(m)   == PackArray(2) \o PackArray(BUFFER_SIZE) \o PackUints(m.payload)
                        \o PackUint(m.size)

SerializeMessage(m) ==
    CASE m.kind \in {"command", "response", "offset"} -> PackUint(m.code)
      [] m.kind = "hash" -> SerializeHash(m)
      [] m.kind = "resource" -> SerializeResource(m)
      [] m.kind = "packet" -> SerializePacket(m)

\* command_type and response_type are uint8_t.
ReadAs(kind, root) ==
    CASE kind \in {"command", "response"} -> Code(kind, root % 256)
      [] kind = "offset" -> Code(kind, root)
      [] kind = "hash" -> Hash([i \in 1..MD5_HASH_LENGTH |-> root[i]])
      [] kind = "resource" -> Resource(root[1], SubSeq(root[2], 1, MAX_RESOURCE_LENGTH),
                                       SubSeq(root[3], 1, MAX_PATH_LENGTH))
      [] kind = "packet" -> Packet([i \in 1..BUFFER_SIZE |-> root[1][i]], root[2])

\* msgpack_unpack_next succeeds on a whole object, whatever follows it.
Unreadable == [kind |-> "none"]
DeserializeMessage(kind, b) ==
    IF b = <<>> \/ Unpacked(b, 1).next > Len(b) + 1 THEN Unreadable
    ELSE ReadAs(kind, Unpacked(b, 1).value)

=============================================================================
