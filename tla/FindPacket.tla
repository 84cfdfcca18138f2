----------------------------- MODULE FindPacket -----------------------------
(***************************************************************************)
(* Find::Packets::Packet: a FIND packet is an opcode of two bytes, strings *)
(* that each end with a zero, and a terminating byte.                      *)
(***************************************************************************)
EXTENDS Naturals, SequencesExt

InformationRequest == 1
InformationAnswer == 2
Opcodes == {InformationRequest, InformationAnswer}
Invalid == 65535

StringTerminator == 0
PacketTerminator == 16

(* The parameters of an answer, in their order. *)
NumberOfParameters == 5

Encode(opcode, parameters) ==
  <<0, opcode>>
    \o FlattenSeq([i \in DOMAIN parameters |-> Append(parameters[i], StringTerminator)])
    \o <<PacketTerminator>>

PacketType(raw) ==
  IF Len(raw) >= 2 /\ raw[1] = 0 /\ raw[2] \in Opcodes THEN raw[2] ELSE Invalid

Text(raw) == SubSeq(raw, 3, Len(raw) - 1)

(* Packet(rawPacket) does not throw InvalidFindPacket.                     *)
Decodable(raw) ==
  /\ Len(raw) > 2
  /\ raw[Len(raw)] = PacketTerminator
  /\ PacketType(raw) # Invalid
  /\ Text(raw) # <<>>
  /\ Last(Text(raw)) = StringTerminator

Terminators(text) == {i \in DOMAIN text : text[i] = StringTerminator}

(* The first terminator after a place.                                     *)
NextEnd(text, place) == Min({i \in Terminators(text) : i > place})

(* Where the strings of a text end, in their order.                        *)
StringEnds(text) ==
  LET end[i \in 0..Cardinality(Terminators(text))] ==
        IF i = 0 THEN 0 ELSE NextEnd(text, end[i - 1])
  IN  end

(* Bug: the search for the end of a string starts on the terminator.       *)
ParametersFromTerminator(raw) ==
  LET text == Text(raw)
      end == StringEnds(text)
  IN  [i \in 1..Cardinality(Terminators(text)) |->
         SubSeq(text, IF i = 1 THEN 1 ELSE end[i - 1], end[i] - 1)]

Parameters(raw) ==
  LET text == Text(raw)
      end == StringEnds(text)
  IN  [i \in 1..Cardinality(Terminators(text)) |-> SubSeq(text, end[i - 1] + 1, end[i] - 1)]

(* PacketHandler::packet: the packet is handed to the handler of its type. *)
Handled(raw, opcode) == PacketType(raw) = opcode /\ Decodable(raw)

=============================================================================
