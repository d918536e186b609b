------------------------------ MODULE KeyCodec ------------------------------
(***************************************************************************)
(* The base64 of public keys that PostgresStore has of its own: a device   *)
(* is stored with the bytes that the text of its key decodes to, found by  *)
(* them, and given back with the text that they are encoded to.            *)
(*                                                                         *)
(* A text, without the spaces around it, is a sequence of the numbers that *)
(* its characters stand for; it is chosen character by character while it  *)
(* is read, and what follows the padding is never read.                    *)
(***************************************************************************)
EXTENDS Integers, Sequences

CONSTANTS
  KeyLen,      \* 32: bytes of a key
  AccMod,      \* 2^32: acc is a uint32
  Characters,  \* numbers of characters of the alphabet
  Pad          \* "="

ASSUME CodecAssumption ==
  /\ KeyLen \in Nat \ {0}
  /\ AccMod \in Nat \ {0} /\ AccMod % 4096 = 0
  /\ Characters \subseteq 0 .. 63 /\ Pad \notin 0 .. 63

VARIABLES
  text,    \* the characters read
  acc,     \* acc
  bits,    \* bits: those of acc that are not in dst yet
  dst,     \* dst[0 .. out)
  verdict  \* "reading", "key" or "refused"

codecVars == <<text, acc, bits, dst, verdict>>

CodecInit == text = <<>> /\ acc = 0 /\ bits = 0 /\ dst = <<>> /\ verdict = "reading"

-----------------------------------------------------------------------------
Pow2 == <<1, 2, 4, 8, 16, 32, 64, 128>>

\* Mutant: the bits of earlier characters are not shifted out of the way.
Unshifted(v) == (acc * 32 + v) % AccMod

Shifted(v) == (acc * 64 + v) % AccMod

\* A character of the alphabet, which completes a byte or does not; a byte too
\* many ends the decoding.
ReadCharacter(v) ==
  /\ verdict = "reading"
  /\ text' = Append(text, v)
  /\ acc' = Shifted(v)
  /\ IF bits + 6 < 8
     THEN bits' = bits + 6 /\ UNCHANGED <<dst, verdict>>
     ELSE /\ bits' = bits - 2
          /\ IF Len(dst) >= KeyLen
             THEN verdict' = "refused" /\ UNCHANGED dst
             ELSE /\ dst' = Append(dst, (acc' \div Pow2[bits - 1]) % 256)
                  /\ UNCHANGED verdict

\* Any other character.
ReadBad ==
  /\ verdict = "reading"
  /\ verdict' = "refused"
  /\ UNCHANGED <<text, acc, bits, dst>>

\* The padding, or the end of the text; bits that are left are not looked at.
ReadEnd ==
  /\ verdict = "reading"
  /\ verdict' = IF Len(dst) = KeyLen THEN "key" ELSE "refused"
  /\ UNCHANGED <<text, acc, bits, dst>>

\* Another text.
ReadNext ==
  /\ verdict # "reading"
  /\ text' = <<>> /\ acc' = 0 /\ bits' = 0 /\ dst' = <<>> /\ verdict' = "reading"

CodecNext ==
  ReadBad \/ ReadEnd \/ ReadNext \/ \E v \in Characters : ReadCharacter(v)

CodecSpec == CodecInit /\ [][CodecNext]_codecVars

(***************************************************************************)
(* pkBytesToB64: character j of the text of a key, in groups of four for   *)
(* three bytes, of which the last may be missing.                          *)
(***************************************************************************)
ByteAt(key, i) == IF i < Len(key) THEN key[i + 1] ELSE 0

EncodedAt(key, j) ==
  LET i == (j \div 4) * 3
      b0 == ByteAt(key, i)
      b1 == ByteAt(key, i + 1)
      b2 == ByteAt(key, i + 2)
      c2 == IF i + 1 < Len(key) THEN (b1 % 16) * 4 + (b2 \div 64) ELSE Pad
      c3 == IF i + 2 < Len(key) THEN b2 % 64 ELSE Pad
  IN <<b0 \div 4, (b0 % 4) * 16 + (b1 \div 16), c2, c3>>[(j % 4) + 1]

\* Mutant: a group that lacks bytes is not padded, as in RawStdEncoding.
RawEncoded(key) == [j \in 1 .. ((Len(key) * 8 + 5) \div 6) |-> EncodedAt(key, j - 1)]

Encoded(key) == [j \in 1 .. (((Len(key) + 2) \div 3) * 4) |-> EncodedAt(key, j - 1)]

-----------------------------------------------------------------------------
\* Bit i of a text and of a key, the first one being the highest.
TextBit(t, i) == (t[(i \div 6) + 1] \div Pow2[6 - (i % 6)]) % 2
KeyBit(key, i) == (key[(i \div 8) + 1] \div Pow2[8 - (i % 8)]) % 2

(***************************************************************************)
(* The bits of the bytes are the bits of the characters, in their order,   *)
(* at every moment of the decoding and however much of acc has been shifted *)
(* out; and a key is as long as the table demands (pgxDecodeB64).          *)
(***************************************************************************)
DecodesBits ==
  /\ \A i \in 0 .. 8 * Len(dst) - 1 : KeyBit(dst, i) = TextBit(text, i)
  /\ verdict = "key" => Len(dst) = KeyLen /\ 6 * Len(text) - 8 * KeyLen \in 0 .. 7

(***************************************************************************)
(* The text that is given back for a stored key has its bits, nothing in   *)
(* the bits that are left, and padding to a multiple of four characters:   *)
(* what base64.StdEncoding decodes to the same key (pkBytesToB64).         *)
(***************************************************************************)
EncodesBits == verdict = "key" =>
  LET e == Encoded(dst)
      used == (8 * KeyLen + 5) \div 6
  IN /\ Len(e) % 4 = 0 /\ Len(e) - used \in 0 .. 3
     /\ \A j \in 1 .. Len(e) : IF j <= used THEN e[j] \in 0 .. 63 ELSE e[j] = Pad
     /\ \A i \in 0 .. 6 * used - 1 :
          TextBit(e, i) = IF i < 8 * KeyLen THEN KeyBit(dst, i) ELSE 0
=============================================================================
