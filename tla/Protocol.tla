------------------------------ MODULE Protocol ------------------------------
(***************************************************************************)
(* The vocabulary of filerail's application protocol: the two enumerations *)
(* of protocol.h and the messages the filerail_send_x functions put on the *)
(* wire.  A message is a record with the kind of the function that sent it *)
(* and the value it carries.  The wire itself has no kind: a command, a    *)
(* response and a file offset are all one msgpack unsigned integer, so a   *)
(* receiver that is out of step would decode one as another without any    *)
(* error.  That this never happens is a property of the protocol, stated   *)
(* by the modules that use this one.                                       *)
(***************************************************************************)
EXTENDS Naturals

\* enum COMMAND: the codes of command_type that some handler sends.
GET       == 0
PUT       == 1
PING      == 2
ABORT     == 4
OVERWRITE == 5
RESUME    == 7
RESTART   == 8

\* enum RESPONSE: the codes of response_type that some handler sends.
OK                      == 0
PONG                    == 1
NOT_FOUND               == 3
NO_ACCESS               == 4
BAD_RESOURCE            == 5
INSUFFICIENT_SPACE      == 6
DUPLICATE_RESOURCE_NAME == 7
NO_INTEGRITY            == 8

-----------------------------------------------------------------------------
Command(type)        == [kind |-> "command",  code |-> type]
Response(type)       == [kind |-> "response", code |-> type]
FileOffset(offset)   == [kind |-> "offset",   code |-> offset]
ResourceHash(hash)   == [kind |-> "hash",     hash |-> hash]
ResourceHeader(size) == [kind |-> "resource", size |-> size]
DataPacket(payload)  == [kind |-> "packet",   payload |-> payload]

=============================================================================
