------------------------- MODULE MessagePadding -------------------------
(* padSignalMessageBody and stripSignalMessagePadding (src/src/crypto.ts): *)
(* a message is padded with a terminator and zeros to one byte less than a *)
(* number of whole blocks, and the receiver scans back for the terminator. *)
EXTENDS Naturals, Sequences

CONSTANT BlockSize   \* 80

ASSUME BlockAssumption == BlockSize \in Nat \ {0}

Byte == 0 .. 255
Terminator == 128

(* getPaddedSignalMessageLength: the whole blocks that hold the message and*)
(* its terminator.                                                         *)
WholeBlocks(length) == ((length + 1 + BlockSize - 1) \div BlockSize) * BlockSize

PaddedLength(length) == WholeBlocks(length + 1) - 1

Pad(body) ==
  [i \in 1 .. PaddedLength(Len(body)) |->
     IF i <= Len(body) THEN body[i]
     ELSE IF i = Len(body) + 1 THEN Terminator ELSE 0]

Marks(message) == {i \in DOMAIN message : message[i] # 0}
LastMark(message) ==
  CHOOSE i \in Marks(message) : \A j \in Marks(message) : j <= i

(* Seeded fault: the first terminator ends the message.                    *)
StripAtFirst(message) ==
  IF \A i \in DOMAIN message : message[i] # Terminator THEN message
  ELSE SubSeq(message, 1, (CHOOSE i \in DOMAIN message :
         /\ message[i] = Terminator
         /\ \A j \in 1 .. i - 1 : message[j] # Terminator) - 1)

(* A message that does not end in a terminator and zeros is left as it is. *)
Strip(message) ==
  IF Marks(message) = {} THEN <<>>
  ELSE IF message[LastMark(message)] = Terminator
         THEN SubSeq(message, 1, LastMark(message) - 1)
         ELSE message

=============================================================================
