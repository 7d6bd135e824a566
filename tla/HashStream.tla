----------------------------- MODULE HashStream -----------------------------
(***************************************************************************)
(* The SHA-256 of bootloader_crypto.c around its compression function: a   *)
(* context that collects a block, hands each full one on, and closes the   *)
(* last with the mark and the length of the message.  What is hashed is    *)
(* the sequence of blocks the compression gets.                            *)
(***************************************************************************)
EXTENDS Naturals, Sequences

CONSTANTS
    Block,      \* bytes of a block (64 in the code)
    LengthSize, \* bytes of the length at its end (8)
    Byte,       \* values of a byte (256)
    Mark,       \* the byte after the message (0x80)
    Message,    \* bytes a message is made of
    MaxBytes    \* bound: length of a message

HashAssumption == /\ LengthSize < Block - 1 /\ Byte > 1 /\ MaxBytes * 8 < Byte ^ LengthSize
                         /\ Message \cup {Mark} \subseteq 0 .. Byte - 1

VARIABLES
    data, datalen, bitlen,  \* SHA256_CTX; its state is what was handed on
    handed,                 \* every block the compression got, one after the other
    closed,                 \* sha256_final ran
    message                 \* history: the message

svars == <<data, datalen, bitlen, handed, closed, message>>

Places == 0 .. Block - 1
AsBlock(d) == [i \in 1 .. Block |-> d[i - 1]]

\* sha256_init leaves the block as it finds it on the stack: any byte will do for it.
Init == /\ \E junk \in {0, Mark} : data = [i \in Places |-> junk]
        /\ datalen = 0 /\ bitlen = 0 /\ handed = <<>> /\ closed = FALSE /\ message = <<>>

\* sha256_update takes a byte; in how many calls they come makes no difference to it.
Update(byte) ==
    /\ ~closed /\ Len(message) < MaxBytes
    /\ data' = [data EXCEPT ![datalen] = byte]
    /\ IF datalen + 1 = Block
       THEN handed' = handed \o AsBlock(data') /\ bitlen' = bitlen + 8 * Block /\ datalen' = 0
       ELSE datalen' = datalen + 1 /\ UNCHANGED <<handed, bitlen>>
    /\ message' = Append(message, byte)
    /\ UNCHANGED closed

LengthFits(n) == n < Block - LengthSize

\* The mark, and zeros from there to a place.
MarkedTo(place) == [i \in Places |-> IF i = datalen THEN Mark ELSE IF i > datalen /\ i < place THEN 0 ELSE data[i]]

\* The length takes the last places of a block, the highest byte first.
WithLength(d, bits) ==
    [i \in Places |-> IF i < Block - LengthSize THEN d[i] ELSE (bits \div (Byte ^ (Block - 1 - i))) % Byte]

\* sha256_final.
Final ==
    /\ ~closed /\ closed' = TRUE
    /\ bitlen' = bitlen + 8 * datalen
    /\ IF LengthFits(datalen)
       THEN /\ data' = WithLength(MarkedTo(Block - LengthSize), bitlen')
            /\ handed' = handed \o AsBlock(data')
       ELSE /\ data' = WithLength([i \in Places |-> 0], bitlen')
            /\ handed' = handed \o AsBlock(MarkedTo(Block)) \o AsBlock(data')
    /\ UNCHANGED <<datalen, message>>

Next == (\E byte \in Message : Update(byte)) \/ Final
Spec == Init /\ [][Next]_svars
-----------------------------------------------------------------------------
\* The padding of the standard: the mark, the fewest zeros, the length in bits.
Padded(m) ==
    LET n == Len(m) + 1 + LengthSize
        zeros == (Block - (n % Block)) % Block
    IN  m \o <<Mark>> \o [i \in 1 .. zeros |-> 0]
          \o [i \in 1 .. LengthSize |-> ((8 * Len(m)) \div (Byte ^ (LengthSize - i))) % Byte]

\* The bootloader hashes what the signing tool does: every byte of the message once and
\* in order, then the standard's padding, whatever the length is next to the end of a
\* block and whatever the stack held (sha256_update, sha256_final).
HashesLikeTheStandard == closed => handed = Padded(message)
=============================================================================
