---------------------------------- MODULE Md5 ----------------------------------
(* The digest of the user's name and day that the sample clients authenticate *)
(* with (md5.cpp): the text padded to whole blocks of 64 bytes, 64 steps on   *)
(* four registers for each block, and the binary and printed results of       *)
(* get_md5. A 32-bit word is the pair of its halves.                          *)
(* A definition named ...Faulty is the one after it with a bug seeded.        *)
EXTENDS Naturals, Sequences, Bitwise

(* What get_md5 is called with, and the digest of RFC 1321: the texts of its  *)
(* A.5, and as many letters a as put the end of the text on either side of a  *)
(* limit of the padding; 0 leaves the size to strlen.                         *)
Sample(text, size, digest) == [text |-> text, size |-> size, digest |-> digest]
Letters(from, n) == [j \in 1..n |-> from + j - 1]
As(n) == [j \in 1..n |-> 97]
Digits(n) == [j \in 1..n |-> 48 + (j % 10)]

Samples == {
    Sample(<<>>, 0,
           <<212, 29, 140, 217, 143, 0, 178, 4, 233, 128, 9, 152, 236, 248, 66, 126>>),
    Sample(As(1), 1,
           <<12, 193, 117, 185, 192, 241, 182, 168, 49, 195, 153, 226, 105, 119, 38, 97>>),
    Sample(<<97, 98, 99>>, 3,
           <<144, 1, 80, 152, 60, 210, 79, 176, 214, 150, 63, 125, 40, 225, 127, 114>>),
    Sample(<<97, 98, 99>>, 0,
           <<144, 1, 80, 152, 60, 210, 79, 176, 214, 150, 63, 125, 40, 225, 127, 114>>),
    Sample(<<109, 101, 115, 115, 97, 103, 101, 32, 100, 105, 103, 101, 115, 116>>, 14,
           <<249, 107, 105, 125, 124, 183, 147, 141, 82, 90, 47, 49, 170, 241, 97, 208>>),
    Sample(Letters(97, 26), 26,
           <<195, 252, 211, 215, 97, 146, 228, 0, 125, 251, 73, 108, 202, 103, 225, 59>>),
    Sample(Letters(65, 26) \o Letters(97, 26) \o Letters(48, 10), 62,
           <<209, 116, 171, 152, 210, 119, 217, 245, 165, 97, 28, 44, 159, 65, 157, 159>>),
    Sample(Digits(80), 80,
           <<87, 237, 244, 162, 43, 227, 201, 85, 172, 73, 218, 46, 33, 7, 182, 122>>),
    Sample(As(55), 55,
           <<239, 23, 114, 182, 223, 249, 161, 34, 53, 133, 82, 149, 74, 208, 223, 101>>),
    Sample(As(56), 56,
           <<59, 12, 138, 199, 3, 248, 40, 176, 76, 108, 25, 112, 6, 209, 114, 24>>),
    Sample(As(63), 63,
           <<176, 101, 33, 243, 145, 83, 214, 24, 85, 6, 6, 190, 41, 116, 102, 213>>),
    Sample(As(64), 64,
           <<1, 72, 66, 212, 128, 181, 113, 73, 90, 74, 3, 99, 121, 63, 115, 103>>),
    Sample(As(119), 119,
           <<138, 123, 208, 115, 46, 214, 162, 140, 231, 95, 109, 171, 201, 14, 22, 19>>),
    Sample(As(120), 120,
           <<95, 97, 192, 204, 173, 76, 172, 68, 199, 95, 245, 5, 225, 241, 229, 55>>)}

VARIABLES sample,
          strw,     \* the padded text, <<>> before
          i,        \* offset of the block in work
          step,     \* steps done on it
          val,      \* the registers, val[1] is the one the next step changes
          saved     \* their values before the block
vars == <<sample, strw, i, step, val, saved>>

TypeOK ==
    /\ sample \in Samples /\ \A j \in DOMAIN strw : strw[j] \in 0..255
    /\ step \in 0..64 /\ i % 64 = 0 /\ i <= Len(strw)
    /\ \A r \in 1..4 : \A h \in 1..2 : val[r][h] \in 0..65535 /\ saved[r][h] \in 0..65535

HalfWord == 65536
Inverted(x) == HalfWord - 1 - x
Halves(Op(_, _, _), x, y, z) == <<Op(x[1], y[1], z[1]), Op(x[2], y[2], z[2])>>
AddFaulty(x, y) == <<x[1] + y[1], (x[2] + y[2]) % HalfWord>>
Add(x, y) ==
    LET low == x[2] + y[2]
    IN  <<(x[1] + y[1] + (low \div HalfWord)) % HalfWord, low % HalfWord>>

(* F, G, H and I                                                              *)
Mix(round, x, y, z) ==
    CASE round = 0 -> Halves(LAMBDA p, q, r : (p & q) | (Inverted(p) & r), x, y, z)
      [] round = 1 -> Halves(LAMBDA p, q, r : (p & r) | (q & Inverted(r)), x, y, z)
      [] round = 2 -> Halves(LAMBDA p, q, r : (p ^^ q) ^^ r, x, y, z)
      [] round = 3 -> Halves(LAMBDA p, q, r : q ^^ (p | Inverted(r)), x, y, z)

RotateLeft(x, n) ==
    LET w == IF n < 16 THEN x ELSE <<x[2], x[1]>>
        m == n % 16
    IN  <<((w[1] * 2^m) % HalfWord) + (w[2] \div 2^(16 - m)),
          ((w[2] * 2^m) % HalfWord) + (w[1] \div 2^(16 - m))>>

(* S11 to S44: by how much the steps of a round rotate                        *)
Shifts == <<<<7, 12, 17, 22>>, <<5, 9, 14, 20>>, <<4, 11, 16, 23>>, <<6, 10, 15, 21>>>>

(* The word of the block that a step takes                                    *)
WordOfFaulty(round, n) == CASE round = 0 -> n [] round = 1 -> (5 * n + 1) % 16
                            [] round = 2 -> (3 * n + 5) % 16 [] round = 3 -> (7 * n + 1) % 16
WordOf(round, n) == CASE round = 0 -> n [] round = 1 -> (5 * n + 1) % 16
                      [] round = 2 -> (3 * n + 5) % 16 [] round = 3 -> (7 * n) % 16

(* The constant it adds                                                       *)
Constants == <<
    <<\hd76a, \ha478>>, <<\he8c7, \hb756>>, <<\h2420, \h70db>>, <<\hc1bd, \hceee>>,
    <<\hf57c, \h0faf>>, <<\h4787, \hc62a>>, <<\ha830, \h4613>>, <<\hfd46, \h9501>>,
    <<\h6980, \h98d8>>, <<\h8b44, \hf7af>>, <<\hffff, \h5bb1>>, <<\h895c, \hd7be>>,
    <<\h6b90, \h1122>>, <<\hfd98, \h7193>>, <<\ha679, \h438e>>, <<\h49b4, \h0821>>,
    <<\hf61e, \h2562>>, <<\hc040, \hb340>>, <<\h265e, \h5a51>>, <<\he9b6, \hc7aa>>,
    <<\hd62f, \h105d>>, <<\h0244, \h1453>>, <<\hd8a1, \he681>>, <<\he7d3, \hfbc8>>,
    <<\h21e1, \hcde6>>, <<\hc337, \h07d6>>, <<\hf4d5, \h0d87>>, <<\h455a, \h14ed>>,
    <<\ha9e3, \he905>>, <<\hfcef, \ha3f8>>, <<\h676f, \h02d9>>, <<\h8d2a, \h4c8a>>,
    <<\hfffa, \h3942>>, <<\h8771, \hf681>>, <<\h6d9d, \h6122>>, <<\hfde5, \h380c>>,
    <<\ha4be, \hea44>>, <<\h4bde, \hcfa9>>, <<\hf6bb, \h4b60>>, <<\hbebf, \hbc70>>,
    <<\h289b, \h7ec6>>, <<\heaa1, \h27fa>>, <<\hd4ef, \h3085>>, <<\h0488, \h1d05>>,
    <<\hd9d4, \hd039>>, <<\he6db, \h99e5>>, <<\h1fa2, \h7cf8>>, <<\hc4ac, \h5665>>,
    <<\hf429, \h2244>>, <<\h432a, \hff97>>, <<\hab94, \h23a7>>, <<\hfc93, \ha039>>,
    <<\h655b, \h59c3>>, <<\h8f0c, \hcc92>>, <<\hffef, \hf47d>>, <<\h8584, \h5dd1>>,
    <<\h6fa8, \h7e4f>>, <<\hfe2c, \he6e0>>, <<\ha301, \h4314>>, <<\h4e08, \h11a1>>,
    <<\hf753, \h7e82>>, <<\hbd3a, \hf235>>, <<\h2ad7, \hd2bb>>, <<\heb86, \hd391>>>>

Registers == <<<<\h6745, \h2301>>, <<\hefcd, \hab89>>, <<\h98ba, \hdcfe>>, <<\h1032, \h5476>>>>

Init ==
    /\ sample \in Samples /\ strw = <<>> /\ i = 0 /\ step = 0
    /\ val = Registers /\ saved = Registers

Bytes(w) == <<w[2] % 256, w[2] \div 256, w[1] % 256, w[1] \div 256>>
Word(n) == LET b == i + 4 * n IN <<strw[b + 4] * 256 + strw[b + 3], strw[b + 2] * 256 + strw[b + 1]>>

(* The texts hold no NUL, so strlen is their length.                          *)
Size == IF sample.size = 0 THEN Len(sample.text) ELSE sample.size
PaddedLengthFaulty(n) == (n - (n % 64)) + (IF n % 64 <= 56 THEN 64 ELSE 128)
PaddedLength(n) == (n - (n % 64)) + (IF n % 64 < 56 THEN 64 ELSE 128)
Pad ==
    /\ strw = <<>>
    /\ strw' = [j \in 1..(PaddedLength(Size) - 8) |->
                  IF j <= Size THEN sample.text[j] ELSE IF j = Size + 1 THEN 128 ELSE 0]
               \o Bytes(<<Size \div 8192, (Size * 8) % HalfWord>>)
               \o Bytes(<<0, 0>>)
    /\ UNCHANGED <<sample, i, step, val, saved>>

(* FF, GG, HH and II: a is rotated with what was added to it, then b is added *)
Step ==
    /\ i < Len(strw) /\ step < 64
    /\ LET round == step \div 16
           a == Add(Add(val[1], Mix(round, val[2], val[3], val[4])),
                    Add(Word(WordOf(round, step % 16)), Constants[step + 1]))
           b == Add(RotateLeft(a, Shifts[round + 1][(step % 4) + 1]), val[2])
       IN  val' = <<val[4], b, val[2], val[3]>>
    /\ step' = step + 1 /\ UNCHANGED <<sample, strw, i, saved>>

(* The original values are added; the next block starts from the sums.        *)
AddOriginal ==
    /\ i < Len(strw) /\ step = 64
    /\ val' = [r \in 1..4 |-> Add(val[r], saved[r])] /\ saved' = val'
    /\ i' = i + 64 /\ step' = 0 /\ UNCHANGED <<sample, strw>>

Next == Pad \/ Step \/ AddOriginal

Spec == Init /\ [][Next]_vars

Done == strw # <<>> /\ i = Len(strw)

(* conv turns the four bytes of a word round; %08x prints the highest first.  *)
ConvFaulty(w) == w
Conv(w) == <<((w[2] % 256) * 256) + (w[2] \div 256), ((w[1] % 256) * 256) + (w[1] \div 256)>>
Printed(w) == <<w[1] \div 256, w[1] % 256, w[2] \div 256, w[2] % 256>>

(* get_md5: the bytes that are printed, and those copied from memory          *)
Ascii == Printed(Conv(val[1])) \o Printed(Conv(val[2])) \o Printed(Conv(val[3])) \o Printed(Conv(val[4]))
Binary == Bytes(val[1]) \o Bytes(val[2]) \o Bytes(val[3]) \o Bytes(val[4])
--------------------------------------------------------------------------------
(* get_md5 computes the digest of RFC 1321, which the file says it does: for   *)
(* the texts of the RFC and for lengths on both sides of every limit of the   *)
(* padding, with the size given or left to strlen.                            *)
IsMd5 == Done => Binary = sample.digest

(* The padding is the RFC's: the text, one bit, the fewest zeros that leave   *)
(* room for the length, and nothing is written outside the blocks.            *)
PadsAsRfc ==
    strw # <<>> =>
        /\ Len(strw) % 64 = 0 /\ Size + 9 <= Len(strw) /\ Len(strw) < Size + 9 + 64
        /\ SubSeq(strw, 1, Size) = sample.text /\ strw[Size + 1] = 128

(* The digest that is printed is the one that is copied: the client hashes    *)
(* the text of the first digest and sends the bytes of the second.            *)
AsciiIsBinary == Ascii = Binary
================================================================================
