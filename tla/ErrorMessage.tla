---------------------------- MODULE ErrorMessage ----------------------------
(***************************************************************************)
(* The WAIT and ABORT messages of the data loader: the text of a TFTP      *)
(* error packet, written by the server and read by the client.  A text is  *)
(* a sequence of characters, each its value as a digit, NoDigit for a      *)
(* character that is a digit in no base.                                   *)
(***************************************************************************)
EXTENDS Naturals, Sequences

NoDigit == 36

Limit == 65536   \* both numbers are uint16_t

(* The codes an ABORT message may carry, as numbers.  Additional           *)
(* information in progress is a status code, but not one of these.         *)
AbortedByDlp == 4100      \* 0x1004
AbortedByOperator == 4101 \* 0x1005
MessageCodes == {1, 2, 3, 4096, 4098, 4099, AbortedByDlp, AbortedByOperator, 4103}

NoNumber == Limit

(* std::from_chars: the digits the text starts with, as a number, if there *)
(* are any and the number fits.                                            *)
LeadingDigits(text, base) ==
  LET isNumber(n) == \A i \in 1..n : text[i] < base
  IN  CHOOSE n \in 0..Len(text) :
        isNumber(n) /\ (n = Len(text) \/ ~isNumber(n + 1))

(* The number each prefix of the text stands for.                          *)
PrefixNumbers(text, base) ==
  LET value[i \in 0..Len(text)] == IF i = 0 THEN 0 ELSE value[i - 1] * base + text[i]
  IN  value

FromChars(text, base) ==
  LET n == LeadingDigits(text, base)
      number == PrefixNumbers(text, base)[n]
  IN  IF n = 0 \/ number >= Limit THEN NoNumber ELSE number

(* ErrorMessage_type: the prefix alone is no message.                      *)
MessageType(message) ==
  IF message.text = <<>> THEN "Invalid" ELSE message.prefix

(* std::format "{:04X}". *)
PowersOfSixteen == <<1, 16, 256, 4096, 65536>>

HexDigits(code) == [i \in 1..4 |-> (code \div PowersOfSixteen[5 - i]) % 16]

(* std::format "{}": the fewest decimal digits.                            *)
PowersOfTen == <<1, 10, 100, 1000, 10000, 100000>>

DecimalDigits(number) ==
  LET length == CHOOSE n \in 1..5 :
        number < PowersOfTen[n + 1] /\ (n = 1 \/ number >= PowersOfTen[n])
  IN  [i \in 1..length |-> (number \div PowersOfTen[length + 1 - i]) % 10]

AbortMessage(code) == [prefix |-> "Abort", text |-> HexDigits(code)]

WaitMessage(time) == [prefix |-> "Wait", text |-> DecimalDigits(time)]

(* ErrorMessage_abort *)
AbortCode(text) ==
  LET code == FromChars(text, 16)
  IN  IF code \in MessageCodes THEN code ELSE NoNumber

(* Bug: the time is read as a hexadecimal number.                          *)
WaitTimeHex(text) == FromChars(text, 16)

(* ErrorMessage_wait *)
WaitTime(text) == FromChars(text, 10)

(* What the client makes of an error packet.                               *)
Understood(message) ==
  CASE MessageType(message) = "Abort" -> [prefix |-> "Abort", number |-> AbortCode(message.text)]
    [] MessageType(message) = "Wait" -> [prefix |-> "Wait", number |-> WaitTime(message.text)]
    [] OTHER -> [prefix |-> "Invalid", number |-> NoNumber]

=============================================================================
