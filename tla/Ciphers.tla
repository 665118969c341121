------------------------------ MODULE Ciphers ------------------------------
(***************************************************************************)
(* The payload ciphers (crypto.cpp) over bytes 0..N-1.  A buffer and a key *)
(* are sequences of bytes; N is 256 in the program.                        *)
(***************************************************************************)
EXTENDS Integers, Sequences

CONSTANTS
    N,             \* number of byte values
    XorByte(_, _)  \* the machine's exclusive or

Byte == 0 .. N - 1

ASSUME CipherAssumption ==
    /\ N \in Nat \ {0}
    /\ \A a, b \in Byte : XorByte(a, b) \in Byte /\ XorByte(XorByte(a, b), b) = a

Types == {"NONE", "XOR", "VIGENERE", "RC4"}

\* key[i % klen], for the i-th byte counted from 1.
KeyByte(key, i) == key[((i - 1) % Len(key)) + 1]

XorCrypt(buf, key) ==
    IF key = <<>> THEN buf ELSE [i \in 1 .. Len(buf) |-> XorByte(buf[i], KeyByte(key, i))]

VigenereEncrypt(buf, key) ==
    IF key = <<>> THEN buf ELSE [i \in 1 .. Len(buf) |-> (buf[i] + KeyByte(key, i)) % N]

VigenereDecrypt_SkipsFirst(buf, key) ==
    IF key = <<>> THEN buf
    ELSE [i \in 1 .. Len(buf) |-> (buf[i] - KeyByte(key, i + 1) + N) % N]
VigenereDecrypt(buf, key) ==
    IF key = <<>> THEN buf ELSE [i \in 1 .. Len(buf) |-> (buf[i] - KeyByte(key, i) + N) % N]

-----------------------------------------------------------------------------
(* RC4                                                                     *)

\* The array of the N bytes and the two indices.
RC4State == [i : Byte, j : Byte, S : [Byte -> Byte]]

Swapped(S, a, b) == [S EXCEPT ![a] = S[b], ![b] = S[a]]

\* j moves on by S[i] and the byte b; then S[i] and S[j] change places.
Stirred(s, i, b) ==
    LET j == (s.j + s.S[i] + b) % N
    IN  [i |-> i, j |-> j, S |-> Swapped(s.S, i, j)]

\* The identity permutation, with which RC4State() begins.
Identity == [i |-> 0, j |-> 0, S |-> [x \in Byte |-> x]]

\* The last r turns of the loop of RC4State(): the key-scheduling algorithm.
KeySchedule(key) ==
    LET ksa[r \in 0 .. N] ==
            IF r = 0 THEN [s \in RC4State |-> s]
            ELSE [s \in RC4State |-> ksa[r - 1][Stirred(s, N - r, KeyByte(key, N - r + 1))]]
    IN  ksa

\* r of n calls of next().
Calls(n) ==
    LET next[r \in 0 .. n] ==
            IF r = 0 THEN [s \in RC4State |-> s]
            ELSE [s \in RC4State |-> next[r - 1][Stirred(s, (s.i + 1) % N, 0)]]
    IN  next

\* The byte that the n-th call returns.
KeyStream(key, n) ==
    LET s == Calls(n)[n][[Identity EXCEPT !.S = KeySchedule(key)[N][Identity].S]]
    IN  s.S[(s.S[s.i] + s.S[s.j]) % N]

Rc4Crypt(buf, key) ==
    IF key = <<>> THEN buf
    ELSE [i \in 1 .. Len(buf) |-> XorByte(buf[i], KeyStream(key, i))]

-----------------------------------------------------------------------------
crypto_encrypt(buf, type, key) ==
    CASE type = "NONE"     -> buf
      [] type = "XOR"      -> XorCrypt(buf, key)
      [] type = "VIGENERE" -> VigenereEncrypt(buf, key)
      [] type = "RC4"      -> Rc4Crypt(buf, key)

crypto_decrypt(buf, type, key) ==
    CASE type = "NONE"     -> buf
      [] type = "XOR"      -> XorCrypt(buf, key)
      [] type = "VIGENERE" -> VigenereDecrypt(buf, key)
      [] type = "RC4"      -> Rc4Crypt(buf, key)
=============================================================================
