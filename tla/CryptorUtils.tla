------------------------------ MODULE CryptorUtils ------------------------------
(***************************************************************************)
(* CryptorUtils::pkcs7_encode and pkcs7_decode (src/src/utils.cc) as far   *)
(* as lengths go: a message is a sequence of bytes.                        *)
(***************************************************************************)
EXTENDS Integers, Sequences

\* the bytes of std::to_string(n) for 0 < n < 1000
Digits(n) ==
    (IF n < 100 THEN <<>> ELSE <<48 + (n \div 100)>>) \o
    (IF n < 10 THEN <<>> ELSE <<48 + ((n \div 10) % 10)>>) \o <<48 + (n % 10)>>

Thrown == [thrown |-> TRUE, text |-> <<>>]
Returned(s) == [thrown |-> FALSE, text |-> s]

PadSize(message, block) == block - (Len(message) % block)

\* append(string, position): the part of the digits from that position on,
\* an exception when it lies behind their end.
pkcs7_encode(message, block) ==
    LET pad == PadSize(message, block)
        digits == Digits(pad) IN
    IF pad > Len(digits) THEN Thrown
    ELSE Returned(message \o SubSeq(digits, pad + 1, Len(digits)))

------------------------------------------------------------------------------
(***************************************************************************)
(* The padding adds nothing: a message that lacks one byte comes back as   *)
(* it is, and for every other length the call throws.                      *)
(***************************************************************************)
NeverPads(message, block) ==
    pkcs7_encode(message, block) =
        IF (Len(message) + 1) % block = 0 THEN Returned(message) ELSE Thrown
================================================================================
