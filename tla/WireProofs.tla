---------------------------- MODULE WireProofs ----------------------------
(***************************************************************************)
(* Decryption undoes encryption, first; and then:                          *)
(* Wire implements Channel: for every set of writers, those of them that   *)
(* lock, readers, payloads and keys, every size of the buffers and every   *)
(* way send() and recv() split a packet.                                   *)
(***************************************************************************)
EXTENDS Wire, SequenceTheorems, WellFoundedInduction, TLAPS

-----------------------------------------------------------------------------
(* Ciphers: decryption undoes encryption, for every number of byte values, *)
(* every buffer and every key.                                             *)

LEMMA ModRange ==
    ASSUME NEW a \in Int, NEW n \in Nat \ {0}
    PROVE  a % n \in 0 .. n - 1
  BY SMT

LEMMA ModAdd ==
    ASSUME NEW n \in Nat \ {0}, NEW a \in 0 .. n - 1, NEW b \in 0 .. n - 1
    PROVE  /\ (a + b) % n = IF a + b < n THEN a + b ELSE a + b - n
           /\ a % n = a
  BY SMT

LEMMA ModWrap ==
    ASSUME NEW n \in Nat \ {0}, NEW a \in 0 .. n - 1
    PROVE  (a + n) % n = a
  BY SMT

\* Adding a key byte and subtracting it again gives the byte back.
LEMMA ShiftBack ==
    ASSUME NEW a \in Byte, NEW k \in Byte
    PROVE  /\ (a + k) % N \in Byte
           /\ (((a + k) % N) - k + N) % N = a
  <1>1. N \in Nat \ {0}  BY CipherAssumption
  <1>2. (a + k) % N \in Byte  BY <1>1, ModRange DEF Byte
  <1>3. CASE a + k < N
    <2>1. (a + k) % N = a + k  BY <1>1, <1>3, ModAdd DEF Byte
    <2>2. ((a + k) % N) - k + N = a + N  BY <2>1, <1>1 DEF Byte
    <2>3. (a + N) % N = a  BY <1>1, ModWrap DEF Byte
    <2> QED  BY <1>2, <2>2, <2>3
  <1>4. CASE ~(a + k < N)
    <2>1. (a + k) % N = a + k - N  BY <1>1, <1>4, ModAdd DEF Byte
    <2>2. ((a + k) % N) - k + N = a  BY <2>1, <1>1 DEF Byte
    <2> QED  BY <1>1, <1>2, <2>2, ModAdd DEF Byte
  <1> QED  BY <1>3, <1>4

LEMMA KeyByteIsByte ==
    ASSUME NEW pass \in Seq(Byte), pass # <<>>, NEW i \in Nat \ {0}
    PROVE  KeyByte(pass, i) \in Byte
  <1>1. Len(pass) \in Nat \ {0}  BY EmptySeq
  <1>2. (i - 1) % Len(pass) \in 0 .. Len(pass) - 1
    <2>1. i - 1 \in Int  OBVIOUS
    <2> QED  BY <1>1, <2>1, ModRange
  <1>3. ((i - 1) % Len(pass)) + 1 \in 1 .. Len(pass)  BY <1>1, <1>2
  <1> QED  BY <1>3 DEF KeyByte

\* A buffer of bytes and what one of the ciphers makes of it.
LEMMA BufferIsSeq ==
    ASSUME NEW S, NEW n \in Nat, NEW f, f = [i \in 1 .. n |-> f[i]],
           \A i \in 1 .. n : f[i] \in S
    PROVE  f \in Seq(S) /\ Len(f) = n
  BY SMT

LEMMA XorCrypts ==
    ASSUME NEW buf \in Seq(Byte), NEW pass \in Seq(Byte)
    PROVE  /\ XorCrypt(buf, pass) \in Seq(Byte)
           /\ Len(XorCrypt(buf, pass)) = Len(buf)
           /\ XorCrypt(XorCrypt(buf, pass), pass) = buf
  <1>1. CASE pass = <<>>  BY <1>1 DEF XorCrypt
  <1>2. CASE pass # <<>>
    <2> DEFINE enc == XorCrypt(buf, pass)
    <2>1. \A i \in 1 .. Len(buf) : buf[i] \in Byte /\ KeyByte(pass, i) \in Byte
      BY <1>2, KeyByteIsByte, ElementOfSeq
    <2>2. enc = [i \in 1 .. Len(buf) |-> XorByte(buf[i], KeyByte(pass, i))]
      BY <1>2 DEF XorCrypt
    <2>3. \A i \in 1 .. Len(buf) :
            enc[i] \in Byte /\ XorByte(enc[i], KeyByte(pass, i)) = buf[i]
      BY <2>1, <2>2, CipherAssumption
    <2> HIDE DEF enc
    <2>4. Len(buf) \in Nat  BY LenProperties
    <2>5. enc \in Seq(Byte) /\ Len(enc) = Len(buf)  BY <2>2, <2>3, <2>4, BufferIsSeq
    <2>6. XorCrypt(enc, pass) = [i \in 1 .. Len(enc) |-> XorByte(enc[i], KeyByte(pass, i))]
      BY <1>2 DEF XorCrypt
    <2>7. XorCrypt(enc, pass) = [i \in 1 .. Len(buf) |-> buf[i]]  BY <2>3, <2>5, <2>6
    <2>8. buf = [i \in 1 .. Len(buf) |-> buf[i]]  BY LenProperties
    <2> QED  BY <2>5, <2>7, <2>8 DEF enc
  <1> QED  BY <1>1, <1>2

LEMMA VigenereCrypts ==
    ASSUME NEW buf \in Seq(Byte), NEW pass \in Seq(Byte)
    PROVE  /\ VigenereEncrypt(buf, pass) \in Seq(Byte)
           /\ Len(VigenereEncrypt(buf, pass)) = Len(buf)
           /\ VigenereDecrypt(VigenereEncrypt(buf, pass), pass) = buf
  <1>1. CASE pass = <<>>  BY <1>1 DEF VigenereEncrypt, VigenereDecrypt
  <1>2. CASE pass # <<>>
    <2> DEFINE enc == VigenereEncrypt(buf, pass)
    <2>1. \A i \in 1 .. Len(buf) : buf[i] \in Byte /\ KeyByte(pass, i) \in Byte
      BY <1>2, KeyByteIsByte, ElementOfSeq
    <2>2. enc = [i \in 1 .. Len(buf) |-> (buf[i] + KeyByte(pass, i)) % N]
      BY <1>2 DEF VigenereEncrypt
    <2>3. \A i \in 1 .. Len(buf) :
            enc[i] \in Byte /\ (enc[i] - KeyByte(pass, i) + N) % N = buf[i]
      BY <2>1, <2>2, ShiftBack
    <2> HIDE DEF enc
    <2>4. Len(buf) \in Nat  BY LenProperties
    <2>5. enc \in Seq(Byte) /\ Len(enc) = Len(buf)  BY <2>2, <2>3, <2>4, BufferIsSeq
    <2>6. VigenereDecrypt(enc, pass) = [i \in 1 .. Len(enc) |-> (enc[i] - KeyByte(pass, i) + N) % N]
      BY <1>2 DEF VigenereDecrypt
    <2>7. VigenereDecrypt(enc, pass) = [i \in 1 .. Len(buf) |-> buf[i]]  BY <2>3, <2>5, <2>6
    <2>8. buf = [i \in 1 .. Len(buf) |-> buf[i]]  BY LenProperties
    <2> QED  BY <2>5, <2>7, <2>8 DEF enc
  <1> QED  BY <1>1, <1>2

-----------------------------------------------------------------------------
(* RC4: every byte of the key stream is one.  The states are defined by    *)
(* recursion over the turns of a loop, and the proofs go along it.         *)

LEMMA NatWellFounded == IsWellFoundedOn({s \in Nat \X Nat : s[1] < s[2]}, Nat)
  <1>1. OpToRel(<, Nat) = {s \in Nat \X Nat : s[1] < s[2]}  BY Zenon DEF OpToRel
  <1> QED  BY <1>1, NatLessThanWellFounded

\* A set that 0 is in, and every number whose predecessor is, holds all of them.
LEMMA UpTo ==
    ASSUME NEW n \in Nat, NEW G, 0 \in G, \A k \in 1 .. n : k - 1 \in G => k \in G
    PROVE  \A k \in 0 .. n : k \in G
  <1> DEFINE R == {s \in Nat \X Nat : s[1] < s[2]}
             Bad == {k \in 0 .. n : k \notin G}
  <1> SUFFICES ASSUME Bad # {} PROVE FALSE  OBVIOUS
  <1>1. IsWellFoundedOn(R, Nat) /\ Bad \subseteq Nat  BY NatWellFounded
  <1>2. PICK k \in Bad : \A m \in Bad : ~(<<m, k>> \in R)
    <2> HIDE DEF R, Bad
    <2> QED  BY <1>1, WFMin
  <1>3. k \in 1 .. n /\ k \notin G  OBVIOUS
  <1>4. <<k - 1, k>> \in R  BY <1>3
  <1>5. k - 1 \notin Bad  BY <1>2, <1>4
  <1>6. k - 1 \in G  BY <1>3, <1>5
  <1> QED  BY <1>3, <1>6

\* A loop of n turns, each of which leads from states to states, and its run.
IsLoop(n, State, first, Turn) ==
    n \in Nat /\ first \in State /\ Turn \in [1 .. n -> [State -> State]]
IsRun(f, n, State, first, Turn) ==
    /\ f \in [0 .. n -> State] /\ f[0] = first
    /\ \A k \in 1 .. n : f[k] = Turn[k][f[k - 1]]

LEMMA LoopRuns ==
    ASSUME NEW n, NEW State, NEW first, NEW Turn, IsLoop(n, State, first, Turn)
    PROVE  \E f : IsRun(f, n, State, first, Turn)
  <1> DEFINE Run(f, m) == f[0] = first /\ \A k \in 1 .. m : f[k] = Turn[k][f[k - 1]]
             G == {m \in 0 .. n : \E f \in [0 .. n -> State] : Run(f, m)}
  <1>0. n \in Nat /\ first \in State /\ Turn \in [1 .. n -> [State -> State]]  BY DEF IsLoop
  <1>1. 0 \in G
    <2>1. PICK f : f = [k \in 0 .. n |-> first]  OBVIOUS
    <2>2. f \in [0 .. n -> State] /\ Run(f, 0)  BY <1>0, <2>1
    <2> QED  BY <1>0, <2>2
  <1>2. ASSUME NEW m \in 1 .. n, m - 1 \in G PROVE m \in G
    <2>1. PICK f \in [0 .. n -> State] : Run(f, m - 1)  BY <1>2
    <2>2. f[m - 1] \in State /\ Turn[m] \in [State -> State]  BY <1>0, <1>2
    <2>3. Turn[m][f[m - 1]] \in State  BY <2>2
    <2>4. PICK g : g = [f EXCEPT ![m] = Turn[m][f[m - 1]]]  OBVIOUS
    <2>5. g \in [0 .. n -> State]  BY <2>3, <2>4
    <2>6. \A k \in 0 .. m - 1 : g[k] = f[k]  BY <1>0, <1>2, <2>4
    <2>7. g[m] = Turn[m][f[m - 1]]  BY <1>0, <1>2, <2>4
    <2>8. ASSUME NEW k \in 1 .. m PROVE g[k] = Turn[k][g[k - 1]]
      <3>1. k - 1 \in 0 .. m - 1  BY <1>0, <1>2
      <3>2. g[k - 1] = f[k - 1]  BY <2>6, <3>1
      <3>3. CASE k = m  BY <2>7, <3>2, <3>3
      <3>4. CASE k # m
        <4>1. k \in 1 .. m - 1 /\ k \in 0 .. m - 1  BY <1>0, <1>2, <3>4
        <4> QED  BY <2>1, <2>6, <3>2, <4>1
      <3> QED  BY <3>3, <3>4
    <2>9. g[0] = first  BY <1>0, <1>2, <2>1, <2>6
    <2>10. Run(g, m)  BY <2>8, <2>9
    <2> QED  BY <1>0, <1>2, <2>5, <2>10
  <1> HIDE DEF G
  <1>3. \A m \in 0 .. n : m \in G  BY <1>0, <1>1, <1>2, UpTo, Zenon
  <1>4. n \in 0 .. n  BY <1>0
  <1>5. n \in G  BY <1>3, <1>4
  <1>6. \E f \in [0 .. n -> State] : Run(f, n)  BY <1>5, Zenon DEF G
  <1>7. PICK f \in [0 .. n -> State] : Run(f, n)  BY <1>6
  <1>8. IsRun(f, n, State, first, Turn)  BY <1>7, Zenon DEF IsRun
  <1> QED  BY <1>8

LEMMA ByteIsInt ==
    /\ 0 \in Byte /\ \A b \in Byte : b \in Int
    /\ \A a \in Int : a % N \in Byte
  <1>1. ASSUME NEW a \in Int PROVE a % N \in Byte
    BY ModRange, CipherAssumption DEF Byte
  <1> QED  BY <1>1, CipherAssumption DEF Byte

\* A turn leads from states to states.
LEMMA StirredState ==
    ASSUME NEW s \in RC4State, NEW i \in Byte, NEW b \in Byte
    PROVE  Stirred(s, i, b) \in RC4State
  <1>1. s.j \in Byte /\ s.S \in [Byte -> Byte] /\ s.S[i] \in Byte  BY DEF RC4State
  <1>2. s.j \in Int /\ s.S[i] \in Int /\ b \in Int  BY <1>1, ByteIsInt
  <1>3. PICK j : j = (s.j + s.S[i] + b) % N  OBVIOUS
  <1>4. j \in Byte  BY <1>2, <1>3, ByteIsInt
  <1>5. Swapped(s.S, i, j) \in [Byte -> Byte]  BY <1>1, <1>4 DEF Swapped
  <1> QED  BY <1>3, <1>4, <1>5 DEF Stirred, RC4State

\* What one turn after another makes of a state is a state.
Maps == [RC4State -> RC4State]

IsLoopOfMaps(f, n, Turn) ==
    f = [r \in 0 .. n |-> IF r = 0 THEN [s \in RC4State |-> s]
                          ELSE [s \in RC4State |-> f[r - 1][Turn[r][s]]]]

LEMMA LoopMaps ==
    ASSUME NEW n \in Nat, NEW Turn, Turn \in [1 .. n -> Maps]
    PROVE  /\ \E f : IsLoopOfMaps(f, n, Turn)
           /\ \A f : IsLoopOfMaps(f, n, Turn) => f[n] \in Maps
  <1> DEFINE first == [s \in RC4State |-> s]
             Outer == [r \in 1 .. n |-> [m \in Maps |-> [s \in RC4State |-> m[Turn[r][s]]]]]
  <1>1. first \in Maps  BY DEF Maps
  <1>2. ASSUME NEW r \in 1 .. n, NEW m \in Maps
        PROVE  [s \in RC4State |-> m[Turn[r][s]]] \in Maps
    <2>1. Turn[r] \in Maps  OBVIOUS
    <2>2. \A s \in RC4State : m[Turn[r][s]] \in RC4State  BY <2>1 DEF Maps
    <2> QED  BY <2>2 DEF Maps
  <1>3. ASSUME NEW r \in 1 .. n
        PROVE  [m \in Maps |-> [s \in RC4State |-> m[Turn[r][s]]]] \in [Maps -> Maps]
    BY <1>2
  <1>4. Outer \in [1 .. n -> [Maps -> Maps]]  BY <1>3
  <1>5. \A r \in 1 .. n, m \in Maps : Outer[r][m] = [s \in RC4State |-> m[Turn[r][s]]]
    OBVIOUS
  <1> HIDE DEF Outer
  <1>6. PICK f : IsRun(f, n, Maps, first, Outer)
    <2> HIDE DEF first
    <2>1. IsLoop(n, Maps, first, Outer)  BY <1>1, <1>4 DEF IsLoop
    <2> QED  BY <2>1, LoopRuns
  <1>7. ASSUME NEW r \in 0 .. n, r # 0
        PROVE  f[r] = [s \in RC4State |-> f[r - 1][Turn[r][s]]]
    <2>1. r \in 1 .. n /\ r - 1 \in 0 .. n  BY <1>7
    <2>2. f[r - 1] \in Maps /\ f[r] = Outer[r][f[r - 1]]  BY <1>6, <2>1 DEF IsRun
    <2> QED  BY <1>5, <2>1, <2>2
  <1>8. IsLoopOfMaps(f, n, Turn)  BY <1>6, <1>7 DEF IsRun, IsLoopOfMaps
  <1>9. ASSUME NEW g, IsLoopOfMaps(g, n, Turn) PROVE g[n] \in Maps
    <2> DEFINE G == {r \in 0 .. n : g[r] \in Maps}
    <2>1. 0 \in G  BY <1>1, <1>9 DEF IsLoopOfMaps
    <2>2. ASSUME NEW r \in 1 .. n, r - 1 \in G PROVE r \in G
      <3>0. r \in 0 .. n /\ r # 0  OBVIOUS
      <3>1. g[r] = [s \in RC4State |-> g[r - 1][Turn[r][s]]]
        <4> HIDE DEF G
        <4> QED  BY ONLY <1>9, <3>0 DEF IsLoopOfMaps
      <3>2. g[r - 1] \in Maps  BY <2>2
      <3> QED  BY <1>2, <3>1, <3>2
    <2> HIDE DEF G
    <2>3. \A r \in 0 .. n : r \in G  BY <2>1, <2>2, UpTo, Zenon
    <2> QED  BY <2>3 DEF G
  <1> QED  BY <1>8, <1>9

\* The key-scheduling algorithm leaves a state.
LEMMA Scheduled ==
    ASSUME NEW pass \in Seq(Byte), pass # <<>>
    PROVE  KeySchedule(pass)[N] \in Maps
  <1> DEFINE Turn == [r \in 1 .. N |->
                        [s \in RC4State |-> Stirred(s, N - r, KeyByte(pass, N - r + 1))]]
             Ksa(f) == f = [r \in 0 .. N |->
                 IF r = 0 THEN [s \in RC4State |-> s]
                 ELSE [s \in RC4State |-> f[r - 1][Stirred(s, N - r, KeyByte(pass, N - r + 1))]]]
  <1>0. N \in Nat  BY CipherAssumption
  <1>1. \A r \in 1 .. N, s \in RC4State :
            Stirred(s, N - r, KeyByte(pass, N - r + 1)) \in RC4State
    <2>1. \A r \in 1 .. N : N - r \in Byte /\ N - r + 1 \in Nat \ {0}  BY <1>0 DEF Byte
    <2> QED  BY <2>1, KeyByteIsByte, StirredState
  <1>2. Turn \in [1 .. N -> Maps]  BY <1>1 DEF Maps
  <1>3. \A r \in 1 .. N, s \in RC4State :
            Turn[r][s] = Stirred(s, N - r, KeyByte(pass, N - r + 1))
    OBVIOUS
  <1> HIDE DEF Turn
  <1>4. ASSUME NEW f PROVE Ksa(f) <=> IsLoopOfMaps(f, N, Turn)
    <2>1. ASSUME NEW r \in 0 .. N, r # 0
          PROVE  [s \in RC4State |-> f[r - 1][Turn[r][s]]]
                  = [s \in RC4State |-> f[r - 1][Stirred(s, N - r, KeyByte(pass, N - r + 1))]]
      <3>1. r \in 1 .. N  BY <1>0, <2>1
      <3> QED  BY <1>3, <3>1
    <2> QED  BY <2>1 DEF IsLoopOfMaps
  <1>5. KeySchedule(pass) = CHOOSE f : Ksa(f)  BY Zenon DEF KeySchedule
  <1> HIDE DEF Ksa
  <1>6. Ksa(KeySchedule(pass))  BY <1>0, <1>2, <1>4, <1>5, LoopMaps
  <1> QED  BY <1>0, <1>2, <1>4, <1>6, LoopMaps

\* So does every call of next().
LEMMA Called ==
    ASSUME NEW n \in Nat
    PROVE  Calls(n)[n] \in Maps
  <1> DEFINE Turn == [r \in 1 .. n |-> [s \in RC4State |-> Stirred(s, (s.i + 1) % N, 0)]]
             Steps(f) == f = [r \in 0 .. n |->
                 IF r = 0 THEN [s \in RC4State |-> s]
                 ELSE [s \in RC4State |-> f[r - 1][Stirred(s, (s.i + 1) % N, 0)]]]
  <1>1. ASSUME NEW s \in RC4State PROVE Stirred(s, (s.i + 1) % N, 0) \in RC4State
    <2>1. s.i \in Byte  BY DEF RC4State
    <2>2. s.i + 1 \in Int  BY <2>1, ByteIsInt
    <2> QED  BY <2>2, ByteIsInt, StirredState
  <1>2. Turn \in [1 .. n -> Maps]  BY <1>1 DEF Maps
  <1>3. \A r \in 1 .. n, s \in RC4State : Turn[r][s] = Stirred(s, (s.i + 1) % N, 0)
    OBVIOUS
  <1> HIDE DEF Turn
  <1>4. ASSUME NEW f PROVE Steps(f) <=> IsLoopOfMaps(f, n, Turn)
    <2>1. ASSUME NEW r \in 0 .. n, r # 0
          PROVE  [s \in RC4State |-> f[r - 1][Turn[r][s]]]
                  = [s \in RC4State |-> f[r - 1][Stirred(s, (s.i + 1) % N, 0)]]
      <3>1. r \in 1 .. n  BY <2>1
      <3> QED  BY <1>3, <3>1
    <2> QED  BY <2>1 DEF IsLoopOfMaps
  <1>5. Calls(n) = CHOOSE f : Steps(f)  BY Zenon DEF Calls
  <1> HIDE DEF Steps
  <1>6. Steps(Calls(n))  BY <1>2, <1>4, <1>5, LoopMaps
  <1> QED  BY <1>2, <1>4, <1>6, LoopMaps

\* What next() returns is a byte.
LEMMA KeyStreamIsByte ==
    ASSUME NEW pass \in Seq(Byte), pass # <<>>, NEW n \in Nat
    PROVE  KeyStream(pass, n) \in Byte
  <1>1. Identity \in RC4State  BY ByteIsInt DEF Identity, RC4State
  <1>2. KeySchedule(pass)[N][Identity] \in RC4State  BY <1>1, Scheduled DEF Maps
  <1>3. PICK S : S = KeySchedule(pass)[N][Identity].S  OBVIOUS
  <1>4. S \in [Byte -> Byte]  BY <1>2, <1>3 DEF RC4State
  <1>5. [Identity EXCEPT !.S = S] \in RC4State  BY <1>1, <1>4 DEF RC4State
  <1>6. PICK s \in RC4State : s = Calls(n)[n][[Identity EXCEPT !.S = S]]
    BY <1>5, Called DEF Maps
  <1>7. s.S \in [Byte -> Byte] /\ s.S[s.i] \in Byte /\ s.S[s.j] \in Byte  BY DEF RC4State
  <1>8. (s.S[s.i] + s.S[s.j]) % N \in Byte
    <2>1. PICK a \in Byte, b \in Byte : a = s.S[s.i] /\ b = s.S[s.j]  BY <1>7
    <2>2. a + b \in Int  BY ByteIsInt
    <2> QED  BY <2>1, <2>2, ByteIsInt
  <1> QED  BY <1>3, <1>6, <1>7, <1>8 DEF KeyStream

LEMMA Rc4Crypts ==
    ASSUME NEW buf \in Seq(Byte), NEW pass \in Seq(Byte)
    PROVE  /\ Rc4Crypt(buf, pass) \in Seq(Byte)
           /\ Len(Rc4Crypt(buf, pass)) = Len(buf)
           /\ Rc4Crypt(Rc4Crypt(buf, pass), pass) = buf
  <1>1. CASE pass = <<>>  BY <1>1 DEF Rc4Crypt
  <1>2. CASE pass # <<>>
    <2> DEFINE enc == Rc4Crypt(buf, pass)
    <2>1. \A i \in 1 .. Len(buf) : buf[i] \in Byte /\ KeyStream(pass, i) \in Byte
      BY <1>2, ElementOfSeq, LenProperties, KeyStreamIsByte
    <2>2. enc = [i \in 1 .. Len(buf) |-> XorByte(buf[i], KeyStream(pass, i))]
      BY <1>2 DEF Rc4Crypt
    <2>3. \A i \in 1 .. Len(buf) :
            enc[i] \in Byte /\ XorByte(enc[i], KeyStream(pass, i)) = buf[i]
      BY <2>1, <2>2, CipherAssumption
    <2> HIDE DEF enc
    <2>4. Len(buf) \in Nat  BY LenProperties
    <2>5. enc \in Seq(Byte) /\ Len(enc) = Len(buf)  BY <2>2, <2>3, <2>4, BufferIsSeq
    <2>6. Rc4Crypt(enc, pass) = [i \in 1 .. Len(enc) |-> XorByte(enc[i], KeyStream(pass, i))]
      BY <1>2 DEF Rc4Crypt
    <2>7. Rc4Crypt(enc, pass) = [i \in 1 .. Len(buf) |-> buf[i]]  BY <2>3, <2>5, <2>6
    <2>8. buf = [i \in 1 .. Len(buf) |-> buf[i]]  BY LenProperties
    <2> QED  BY <2>5, <2>7, <2>8 DEF enc
  <1> QED  BY <1>1, <1>2

\* What crypto_encrypt() makes of a buffer has its length, and crypto_decrypt()
\* with the same algorithm and key makes the buffer of it again.
THEOREM RoundTrip ==
    ASSUME NEW buf \in Seq(Byte), NEW cipher \in Types, NEW pass \in Seq(Byte)
    PROVE  /\ crypto_encrypt(buf, cipher, pass) \in Seq(Byte)
           /\ Len(crypto_encrypt(buf, cipher, pass)) = Len(buf)
           /\ crypto_decrypt(crypto_encrypt(buf, cipher, pass), cipher, pass) = buf
  <1>1. CASE cipher = "NONE"  BY <1>1 DEF crypto_encrypt, crypto_decrypt
  <1>2. CASE cipher = "XOR"  BY <1>2, XorCrypts DEF crypto_encrypt, crypto_decrypt
  <1>3. CASE cipher = "VIGENERE"  BY <1>3, VigenereCrypts DEF crypto_encrypt, crypto_decrypt
  <1>4. CASE cipher = "RC4"  BY <1>4, Rc4Crypts DEF crypto_encrypt, crypto_decrypt
  <1> QED  BY <1>1, <1>2, <1>3, <1>4 DEF Types

-----------------------------------------------------------------------------
(* Framing                                                                 *)

\* The units of the n-th packet, and where it ends on the wire.
Frame(n) == Serialized(sent[n].from, sent[n].data)
End(n) == IF n = 0 THEN 0 ELSE starts[n] + 2 + Len(sent[n].data)

\* Whatever overlaps: what is left of a packet does not end in its magic, and a
\* writer that locks has the mutex until the packet is written.
CallsInv ==
    /\ Len(starts) = Len(sent)
    /\ \A w \in Writers : out[w] # <<>> => out[w][Len(out[w])].kind # "magic"
    /\ \A w \in Locked : out[w] # <<>> => lock = w

\* The packets follow each other on the wire without a gap, each one unit by
\* unit what was serialized; the writer in the middle of the last has the rest.
WrittenInv ==
    /\ \A v, w \in Writers : out[v] # <<>> /\ out[w] # <<>> => v = w
    /\ \A n \in 1 .. Len(sent) : starts[n] = End(n - 1)
    /\ \A m, n \in 0 .. Len(sent) : m <= n => End(m) <= End(n)
    /\ \A n \in 1 .. Len(sent), k \in Nat \ {0} :
            k <= 2 + Len(sent[n].data) /\ starts[n] + k <= Len(wire)
                => wire[starts[n] + k] = Frame(n)[k]
    /\ Len(wire) <= End(Len(sent))
    /\ Len(sent) > 0 => starts[Len(sent)] <= Len(wire)
    /\ (\A w \in Writers : out[w] = <<>>) => closed \/ Len(wire) = End(Len(sent))
    /\ \A w \in Writers : out[w] # <<>> =>
            /\ Len(sent) > 0
            /\ Len(wire) + Len(out[w]) = End(Len(sent))
            /\ \A k \in 1 .. Len(out[w]) :
                    out[w][k] = Frame(Len(sent))[Len(wire) - starts[Len(sent)] + k]

\* What reader r has got is what stands on the wire behind place o.
At(r, o) ==
    /\ taken = o + Len(got[r])
    /\ \A k \in 1 .. Len(got[r]) : got[r][k] = wire[o + k]

\* The readers have been given a prefix of the packets; at most one of them
\* stands in the next, and nobody else has taken any of it.
ReadInv ==
    /\ Len(received) <= Len(sent)
    /\ \A i \in 1 .. Len(received) : received[i] = sent[i]
    /\ \A q, r \in Readers : InPacket(q) /\ InPacket(r) => q = r
    /\ \A r \in Readers : reader[r] = "header" /\ got[r] # <<>> =>
            Len(got[r]) <= 2 /\ At(r, End(Len(received)))
    /\ \A r \in Readers : reader[r] = "body" =>
            LET n == Len(received)
            IN  /\ n < Len(sent)
                /\ header[r] = Rest(sent[n + 1].from, Len(sent[n + 1].data))
                /\ Len(got[r]) <= Len(sent[n + 1].data)
                /\ At(r, End(n) + 2)
    /\ (\A r \in Readers : ~InPacket(r)) =>
            taken = End(Len(received)) \/ (closed /\ taken = Len(wire))

\* As long as no calls have overlapped ...
Whole == TypeOK /\ CallsInv /\ WrittenInv /\ ReadInv

\* ... and in any case.
IInv == TypeOK /\ CallsInv /\ (~mixed => WrittenInv /\ ReadInv)

-----------------------------------------------------------------------------
(* Sequences                                                               *)

LEMMA ConcatAt ==
    ASSUME NEW S, NEW s \in Seq(S), NEW t \in Seq(S), NEW i \in 1 .. Len(s) + Len(t)
    PROVE  (s \o t)[i] = IF i <= Len(s) THEN s[i] ELSE t[i - Len(s)]
  BY SMT

LEMMA Part ==
    ASSUME NEW S, NEW s \in Seq(S), NEW m \in Int, NEW n \in Int, 1 <= m, n <= Len(s)
    PROVE  /\ SubSeq(s, m, n) \in Seq(S)
           /\ Len(SubSeq(s, m, n)) = IF m <= n THEN n - m + 1 ELSE 0
           /\ \A i \in 1 .. n - m + 1 : SubSeq(s, m, n)[i] = s[m + i - 1]
  <1>1. \A i \in m .. n : s[i] \in S  BY ElementOfSeq
  <1> QED  BY <1>1, SubSeqProperties

LEMMA PartAfter ==
    ASSUME NEW S, NEW s \in Seq(S), NEW n \in Nat, NEW m \in Nat, n <= m, m <= Len(s)
    PROVE  /\ SubSeq(s, n + 1, m) \in Seq(S)
           /\ Len(SubSeq(s, n + 1, m)) = m - n
           /\ \A i \in 1 .. m - n : SubSeq(s, n + 1, m)[i] = s[n + i]
  <1>1. n + 1 \in Int /\ 1 <= n + 1 /\ m \in Int  OBVIOUS
  <1>2. /\ SubSeq(s, n + 1, m) \in Seq(S)
        /\ Len(SubSeq(s, n + 1, m)) = IF n + 1 <= m THEN m - (n + 1) + 1 ELSE 0
        /\ \A i \in 1 .. m - (n + 1) + 1 : SubSeq(s, n + 1, m)[i] = s[(n + 1) + i - 1]
    BY <1>1, Part
  <1>3. (IF n + 1 <= m THEN m - (n + 1) + 1 ELSE 0) = m - n  OBVIOUS
  <1>4. \A i \in 1 .. m - n : i \in 1 .. m - (n + 1) + 1 /\ (n + 1) + i - 1 = n + i
    OBVIOUS
  <1> QED  BY <1>2, <1>3, <1>4

-----------------------------------------------------------------------------
(* What is sent                                                            *)

LEMMA UnitTypes ==
    /\ Magic \in Units
    /\ \A w \in Writers, n \in Nat : Rest(w, n) \in Units
    /\ \A b \in Byte : Unit(b) \in Units
  BY DEF Magic, Rest, Unit, Units

\* What net_send_packet hands to net_send_raw.
LEMMA SerializedIs ==
    ASSUME type \in Types, key \in Keys, NEW w \in Writers, NEW p \in Payload
    PROVE  /\ p \in Seq(Byte) /\ Len(p) \in Nat
           /\ Serialized(w, p) \in Seq(Units)
           /\ Len(Serialized(w, p)) = 2 + Len(p)
           /\ Serialized(w, p)[1] = Magic
           /\ Serialized(w, p)[2] = Rest(w, Len(p))
           /\ \A k \in 1 .. Len(p) :
                  Serialized(w, p)[2 + k] = Unit(crypto_encrypt(p, type, key)[k])
  <1> DEFINE body == crypto_encrypt(p, type, key)
             tail == [i \in 1 .. Len(body) |-> Unit(body[i])]
             head == <<Magic, Rest(w, Len(body))>>
  <1>1. p \in Seq(Byte) /\ Len(p) \in Nat /\ key \in Seq(Byte)
    BY WireAssumption, LenProperties
  <1>2. body \in Seq(Byte) /\ Len(body) = Len(p)  BY <1>1, RoundTrip
  <1> HIDE DEF body
  <1>3. \A i \in 1 .. Len(body) : tail[i] = Unit(body[i]) /\ tail[i] \in Units
    BY <1>2, ElementOfSeq, UnitTypes
  <1>4. tail \in Seq(Units) /\ Len(tail) = Len(p)
    BY <1>1, <1>2, <1>3, BufferIsSeq
  <1>5. head \in Seq(Units) /\ Len(head) = 2 /\ head[1] = Magic /\ head[2] = Rest(w, Len(p))
    BY <1>1, <1>2, UnitTypes
  <1>6. Serialized(w, p) = head \o tail  BY DEF Serialized, body
  <1> HIDE DEF head, tail
  <1>7. /\ Serialized(w, p) \in Seq(Units)
        /\ Len(Serialized(w, p)) = 2 + Len(p)
        /\ \A i \in 1 .. 2 + Len(p) :
               Serialized(w, p)[i] = IF i <= 2 THEN head[i] ELSE tail[i - 2]
    <2>1. head \o tail \in Seq(Units)  BY <1>4, <1>5, ConcatProperties
    <2>2. Len(head \o tail) = Len(head) + Len(tail)  BY <1>4, <1>5, ConcatProperties
    <2>3. \A i \in 1 .. Len(head) + Len(tail) :
             (head \o tail)[i] = IF i <= Len(head) THEN head[i] ELSE tail[i - Len(head)]
      BY <1>4, <1>5, ConcatAt
    <2>4. \A i \in 1 .. 2 + Len(p) :
              (head \o tail)[i] = IF i <= 2 THEN head[i] ELSE tail[i - 2]
      BY <1>1, <1>4, <1>5, <2>3
    <2> QED  BY <1>1, <1>4, <1>5, <1>6, <2>1, <2>2, <2>4
  <1>8. \A k \in 1 .. Len(p) : Serialized(w, p)[2 + k] = tail[k]
    BY <1>1, <1>7
  <1> QED  BY <1>1, <1>2, <1>3, <1>5, <1>7, <1>8 DEF body

\* The configuration does not change under way.
LEMMA SerializedStays ==
    ASSUME UNCHANGED config
    PROVE  \A w, p : Serialized(w, p)' = Serialized(w, p)
  BY DEF config, Serialized

\* The packets sent are packets.
LEMMA SentIs ==
    ASSUME TypeOK, NEW n \in 1 .. Len(sent)
    PROVE  /\ sent[n].from \in Writers /\ sent[n].data \in Payload
           /\ Len(sent[n].data) \in Nat
           /\ Frame(n) \in Seq(Units) /\ Len(Frame(n)) = 2 + Len(sent[n].data)
           /\ Frame(n)[1] = Magic
           /\ Frame(n)[2] = Rest(sent[n].from, Len(sent[n].data))
           /\ \A k \in 1 .. Len(sent[n].data) :
                  Frame(n)[2 + k] = Unit(crypto_encrypt(sent[n].data, type, key)[k])
  <1>1. sent[n] \in [from : Writers, data : Payload]  BY ElementOfSeq DEF TypeOK
  <1>2. sent[n].from \in Writers /\ sent[n].data \in Payload  BY <1>1
  <1> QED  BY <1>2, SerializedIs DEF Frame, TypeOK

-----------------------------------------------------------------------------
(* Whatever overlaps                                                       *)

LEMMA InitIInv ==
    ASSUME Init
    PROVE  IInv
  <1>1. TypeOK
    <2>1. NoHeader \in [kind : {"rest"}, from : Writers, v : Nat]
      <3>1. (CHOOSE w \in Writers : TRUE) \in Writers  BY WireAssumption
      <3> QED  BY <3>1 DEF NoHeader, Rest
    <2>2. /\ type \in Types /\ key \in Keys /\ closed \in BOOLEAN /\ mixed \in BOOLEAN
          /\ lock \in Locked \cup {None}
          /\ starts \in Seq(Nat) /\ wire \in Seq(Units)
          /\ sent \in Seq([from : Writers, data : Payload])
      BY EmptySeq DEF Init
    <2>3. taken \in 0 .. Len(wire) /\ Len(wire) - taken <= Room
      BY WireAssumption DEF Init
    <2>4. /\ out \in [Writers -> Seq(Units)] /\ got \in [Readers -> Seq(Units)]
          /\ reader \in [Readers -> {"header", "body", "failed"}]
      BY EmptySeq DEF Init
    <2>5. header \in [Readers -> [kind : {"rest"}, from : Writers, v : Nat]]
      BY <2>1 DEF Init
    <2>6. received \in Seq([from : Writers, data : Seq(Byte)])
      BY EmptySeq DEF Init
    <2> QED  BY <2>2, <2>3, <2>4, <2>5, <2>6 DEF TypeOK
  <1>2. CallsInv  BY WireAssumption DEF Init, CallsInv
  <1>3. WrittenInv
    <2>1. sent = <<>> /\ wire = <<>> /\ \A w \in Writers : out[w] = <<>>  BY DEF Init
    <2>2. Len(sent) = 0 /\ Len(wire) = 0 /\ End(0) = 0  BY <2>1 DEF End
    <2>3. \A m, n \in 0 .. Len(sent) : m = 0 /\ n = 0  BY <2>2
    <2> QED  BY <2>1, <2>2, <2>3 DEF WrittenInv
  <1>4. ReadInv
    <2>1. received = <<>> /\ taken = 0 /\ sent = <<>>  BY DEF Init
    <2>2. \A r \in Readers : reader[r] = "header" /\ got[r] = <<>>  BY DEF Init
    <2>3. \A r \in Readers : ~InPacket(r)  BY <2>2 DEF InPacket
    <2>4. End(0) = 0  BY DEF End
    <2> QED  BY <2>1, <2>2, <2>3, <2>4 DEF ReadInv
  <1> QED  BY <1>1, <1>2, <1>3, <1>4 DEF IInv

\* What the writers have left of their packets stays well formed.
LEMMA SerializedEnds ==
    ASSUME TypeOK, NEW w \in Writers, NEW p \in Payload
    PROVE  /\ Serialized(w, p) \in Seq(Units) /\ Serialized(w, p) # <<>>
           /\ Serialized(w, p)[Len(Serialized(w, p))].kind # "magic"
  <1>1. PICK l \in Nat : l = Len(p)  BY SerializedIs DEF TypeOK
  <1>2. /\ Serialized(w, p) \in Seq(Units) /\ Len(Serialized(w, p)) = 2 + l
        /\ Serialized(w, p)[2] = Rest(w, l)
        /\ \A k \in 1 .. l : Serialized(w, p)[2 + k] = Unit(crypto_encrypt(p, type, key)[k])
    BY <1>1, SerializedIs DEF TypeOK
  <1>3. Serialized(w, p) # <<>>  BY <1>2, EmptySeq
  <1>4. CASE l = 0
    <2>1. Serialized(w, p)[2 + l] = Rest(w, l)  BY <1>2, <1>4
    <2> QED  BY <1>2, <1>3, <2>1 DEF Rest
  <1>5. CASE l # 0
    <2>1. Serialized(w, p)[2 + l] = Unit(crypto_encrypt(p, type, key)[l])  BY <1>2, <1>5
    <2> QED  BY <1>2, <1>3, <2>1 DEF Unit
  <1> QED  BY <1>4, <1>5

\* send() is asked for no more than is left.
LEMMA ChunkFits ==
    ASSUME TypeOK, CallsInv, NEW w \in Writers, out[w] # <<>>
    PROVE  /\ out[w] \in Seq(Units) /\ Len(out[w]) \in Nat \ {0}
           /\ Chunk(w) <= Len(out[w]) /\ Chunk(w) \in Nat
  <1>1. out[w] \in Seq(Units)  BY DEF TypeOK
  <1>2. PICK m \in Nat \ {0} : m = Len(out[w])  BY <1>1, EmptySeq, LenProperties
  <1>3. out[w][m].kind # "magic"  BY <1>2 DEF CallsInv
  <1>4. Chunk(w) = IF out[w][1].kind = "magic" THEN 2
                   ELSE IF out[w][1].kind = "rest" THEN 1 ELSE m
    BY <1>2 DEF Chunk
  <1>5. CASE out[w][1].kind = "magic"
    <2>1. m # 1 /\ Chunk(w) = 2  BY <1>3, <1>4, <1>5
    <2>2. 2 <= m  BY <2>1
    <2> QED  BY <1>1, <1>2, <2>1, <2>2
  <1>6. CASE out[w][1].kind # "magic"
    <2>1. Chunk(w) = 1 \/ Chunk(w) = m  BY <1>4, <1>6
    <2> QED  BY <1>1, <1>2, <2>1
  <1> QED  BY <1>5, <1>6

\* What one send() does to the wire and to what is left: k of its m units go
\* behind the t that are there.
Wrote(w, k, m, t) ==
    /\ k \in Nat \ {0} /\ k <= m
    /\ out'[w] \in Seq(Units) /\ Len(out'[w]) = m - k
    /\ \A j \in 1 .. m - k : out'[w][j] = out[w][k + j]
    /\ out' \in [Writers -> Seq(Units)]
    /\ \A v \in Writers : v # w => out'[v] = out[v]
    /\ wire' \in Seq(Units) /\ Len(wire') = t + k
    /\ \A j \in 1 .. t : wire'[j] = wire[j]
    /\ \A j \in 1 .. k : wire'[t + j] = out[w][j]

LEMMA WriteIs ==
    ASSUME TypeOK, CallsInv, NEW w \in Writers, NEW k \in 1 .. Room, Write(w, k)
    PROVE  Wrote(w, k, Len(out[w]), Len(wire))
  <1>m. PICK m \in Nat : m = Len(out[w])  BY LenProperties DEF TypeOK
  <1>t. PICK t \in Nat : t = Len(wire)  BY LenProperties DEF TypeOK
  <1>1. /\ out[w] # <<>> /\ k <= Chunk(w)
        /\ wire' = wire \o SubSeq(out[w], 1, k)
        /\ out' = [out EXCEPT ![w] = SubSeq(@, k + 1, Len(@))]
    BY DEF Write
  <1>2. k \in Nat \ {0} /\ k <= m /\ out[w] \in Seq(Units)
    <2>1. out[w] \in Seq(Units) /\ Chunk(w) <= m /\ Chunk(w) \in Nat
      BY <1>1, <1>m, ChunkFits
    <2>2. k \in Nat \ {0}  BY WireAssumption
    <2> QED  BY <1>1, <2>1, <2>2
  <1>4. /\ SubSeq(out[w], 1, k) \in Seq(Units) /\ Len(SubSeq(out[w], 1, k)) = k
        /\ \A j \in 1 .. k : SubSeq(out[w], 1, k)[j] = out[w][j]
    BY <1>2, <1>m, Part
  <1>5. /\ out'[w] = SubSeq(out[w], k + 1, m) /\ out'[w] \in Seq(Units)
        /\ Len(out'[w]) = m - k
        /\ \A j \in 1 .. m - k : out'[w][j] = out[w][k + j]
    <2>1. out'[w] = SubSeq(out[w], k + 1, m)  BY <1>1, <1>m DEF TypeOK
    <2>2. k \in Nat /\ k <= m /\ m <= Len(out[w]) /\ out[w] \in Seq(Units)
      BY <1>2, <1>m
    <2>3. /\ SubSeq(out[w], k + 1, m) \in Seq(Units)
          /\ Len(SubSeq(out[w], k + 1, m)) = m - k
          /\ \A j \in 1 .. m - k : SubSeq(out[w], k + 1, m)[j] = out[w][k + j]
      BY <2>2, PartAfter
    <2> QED  BY <2>1, <2>3
  <1>6. /\ wire' \in Seq(Units) /\ Len(wire') = t + k
        /\ \A j \in 1 .. t : wire'[j] = wire[j]
        /\ \A j \in 1 .. k : wire'[t + j] = out[w][j]
    <2>1. wire \in Seq(Units)  BY DEF TypeOK
    <2>2. wire' \in Seq(Units) /\ Len(wire') = Len(wire) + k
      BY <1>1, <1>4, <2>1, ConcatProperties
    <2>3. \A j \in 1 .. t + k :
              wire'[j] = IF j <= t THEN wire[j] ELSE SubSeq(out[w], 1, k)[j - t]
      BY <1>1, <1>4, <1>t, <2>1, ConcatAt
    <2>4. \A j \in 1 .. k : t + j \in 1 .. t + k /\ ~(t + j <= t) /\ (t + j) - t = j
      BY <1>2
    <2>5. Len(wire') = t + k  BY <1>t, <2>2
    <2>6. ASSUME NEW j \in 1 .. t  PROVE wire'[j] = wire[j]
      <3>1. j \in 1 .. t + k /\ j <= t  BY <1>2
      <3> QED  BY <2>3, <3>1
    <2>7. ASSUME NEW j \in 1 .. k  PROVE wire'[t + j] = out[w][j]
      <3>1. wire'[t + j] = SubSeq(out[w], 1, k)[(t + j) - t]  BY <2>3, <2>4
      <3> QED  BY <1>4, <2>4, <3>1
    <2> QED  BY <2>2, <2>5, <2>6, <2>7
  <1>7. /\ out' \in [Writers -> Seq(Units)]
        /\ \A v \in Writers : v # w => out'[v] = out[v]
    BY <1>1, <1>5 DEF TypeOK
  <1>8. Wrote(w, k, m, t)  BY <1>2, <1>5, <1>6, <1>7 DEF Wrote
  <1> QED  BY <1>m, <1>t, <1>8

LEMMA BeginType ==
    ASSUME TypeOK, CallsInv, NEW w \in Writers, NEW p \in Payload, Begin(w, p)
    PROVE  TypeOK' /\ CallsInv'
  <1> DEFINE packet == [from |-> w, data |-> p]
  <1>1. /\ w \in Locked => lock = None
        /\ lock' = IF w \in Locked THEN w ELSE lock
        /\ sent' = Append(sent, packet)
        /\ starts' = Append(starts, Len(wire))
        /\ out' = [out EXCEPT ![w] = Serialized(w, p)]
        /\ mixed' = (mixed \/ Overlaps(w))
        /\ UNCHANGED <<config, wire, taken, closed, reading>>
    BY DEF Begin
  <1>2. /\ Len(sent) \in Nat /\ Len(wire) \in Nat /\ Len(starts) = Len(sent)
        /\ sent \in Seq([from : Writers, data : Payload]) /\ starts \in Seq(Nat)
    BY DEF TypeOK, CallsInv
  <1>3. /\ Serialized(w, p) \in Seq(Units)
        /\ Serialized(w, p)[Len(Serialized(w, p))].kind # "magic"
    BY SerializedEnds
  <1>4. TypeOK'
    <2>1. packet \in [from : Writers, data : Payload]  OBVIOUS
    <2>2. sent' \in Seq([from : Writers, data : Payload])  BY <1>1, <1>2, <2>1
    <2>3. starts' \in Seq(Nat)  BY <1>1, <1>2
    <2>4. out' \in [Writers -> Seq(Units)]  BY <1>1, <1>3 DEF TypeOK
    <2>5. lock' \in Locked \cup {None}  BY <1>1 DEF TypeOK
    <2>6. mixed' \in BOOLEAN  BY <1>1, Zenon
    <2>7. UNCHANGED <<type, key, wire, taken, closed, reader, got, header, received>>
      BY <1>1 DEF config, reading
    <2> QED  BY <2>2, <2>3, <2>4, <2>5, <2>6, <2>7 DEF TypeOK
  <1>5. CallsInv'
    <2>1. Len(starts') = Len(sent')  BY <1>1, <1>2, AppendProperties
    <2>2. /\ out'[w] = Serialized(w, p)
          /\ \A v \in Writers : v # w => out'[v] = out[v]
      BY <1>1 DEF TypeOK
    <2>3. \A v \in Writers : out'[v] # <<>> => out'[v][Len(out'[v])].kind # "magic"
      BY <1>3, <2>2 DEF CallsInv
    <2>4. ASSUME NEW v \in Locked, out'[v] # <<>>  PROVE lock' = v
      <3>1. CASE v = w  BY <1>1, <2>4, <3>1
      <3>2. CASE v # w
        <4>1. v \in Writers  BY WireAssumption
        <4>2. lock = v /\ v # None  BY <2>2, <2>4, <3>2, <4>1, WireAssumption DEF CallsInv
        <4> QED  BY <1>1, <4>2
      <3> QED  BY <3>1, <3>2
    <2> QED  BY <2>1, <2>3, <2>4 DEF CallsInv
  <1> QED  BY <1>4, <1>5

LEMMA WriteType ==
    ASSUME TypeOK, CallsInv, NEW w \in Writers, NEW k \in 1 .. Room, Write(w, k)
    PROVE  TypeOK' /\ CallsInv'
  <1>1. /\ out[w] # <<>> /\ Len(wire) - taken + k <= Room
        /\ lock' = IF lock = w /\ out'[w] = <<>> THEN None ELSE lock
        /\ UNCHANGED <<config, taken, closed, sent, starts, reading, mixed>>
    BY DEF Write
  <1>m. PICK m \in Nat : m = Len(out[w]) /\ m # 0  BY <1>1, ChunkFits
  <1>t. PICK t \in Nat : t = Len(wire)  BY DEF TypeOK
  <1>w. Wrote(w, k, m, t)  BY <1>m, <1>t, WriteIs
  <1>2. /\ k \in Nat \ {0} /\ k <= m
        /\ out'[w] \in Seq(Units) /\ Len(out'[w]) = m - k
        /\ \A j \in 1 .. m - k : out'[w][j] = out[w][k + j]
        /\ out' \in [Writers -> Seq(Units)]
        /\ \A v \in Writers : v # w => out'[v] = out[v]
        /\ wire' \in Seq(Units) /\ Len(wire') = t + k
    BY <1>w DEF Wrote
  <1>3. TypeOK'
    <2>2. lock' \in Locked \cup {None}  BY <1>1 DEF TypeOK
    <2>3. taken \in 0 .. Len(wire') /\ Len(wire') - taken <= Room
      BY <1>1, <1>2, <1>t, WireAssumption DEF TypeOK
    <2>4. UNCHANGED <<type, key, taken, closed, sent, starts, reader, got, header, received, mixed>>
      BY <1>1 DEF config, reading
    <2> QED  BY <1>2, <2>2, <2>3, <2>4 DEF TypeOK
  <1>4. CallsInv'
    <2>1. \A v \in Writers : v # w => out'[v] = out[v]  BY <1>2
    <2>2. out'[w] # <<>> => out'[w][Len(out'[w])].kind # "magic"
      <3>1. SUFFICES ASSUME out'[w] # <<>> PROVE out'[w][Len(out'[w])].kind # "magic"
        OBVIOUS
      <3>2. Len(out'[w]) # 0  BY <1>2, <3>1, EmptySeq
      <3>a. m - k \in 1 .. m - k /\ k + (m - k) = m  BY <1>2, <3>2
      <3>3. out'[w][m - k] = out[w][m]  BY <1>2, <3>a
      <3>4. out[w][m].kind # "magic"  BY <1>1, <1>m DEF CallsInv
      <3> QED  BY <1>2, <3>3, <3>4
    <2>3. \A v \in Writers : out'[v] # <<>> => out'[v][Len(out'[v])].kind # "magic"
      BY <2>1, <2>2 DEF CallsInv
    <2>4. ASSUME NEW v \in Locked, out'[v] # <<>>  PROVE lock' = v
      <3>1. v \in Writers  BY WireAssumption
      <3>2. out[v] # <<>>  BY <1>1, <2>1, <2>4, <3>1
      <3>3. lock = v  BY <3>2 DEF CallsInv
      <3> QED  BY <1>1, <2>4, <3>3
    <2>5. Len(starts') = Len(sent')  BY <1>1 DEF CallsInv
    <2> QED  BY <2>3, <2>4, <2>5 DEF CallsInv
  <1> QED  BY <1>3, <1>4

LEMMA WriteFailsType ==
    ASSUME TypeOK, CallsInv, NEW w \in Writers, WriteFails(w)
    PROVE  TypeOK' /\ CallsInv'
  <1>1. /\ out' = [out EXCEPT ![w] = <<>>]
        /\ lock' = IF lock = w THEN None ELSE lock
        /\ UNCHANGED <<config, wire, taken, closed, sent, starts, reading, mixed>>
    BY DEF WriteFails
  <1>2. TypeOK'
    <2>1. out' \in [Writers -> Seq(Units)]  BY <1>1, EmptySeq DEF TypeOK
    <2>2. lock' \in Locked \cup {None}  BY <1>1 DEF TypeOK
    <2>3. UNCHANGED <<type, key, wire, taken, closed, sent, starts, reader, got, header, received, mixed>>
      BY <1>1 DEF config, reading
    <2> QED  BY <2>1, <2>2, <2>3 DEF TypeOK
  <1>3. CallsInv'
    <2>1. out'[w] = <<>> /\ \A v \in Writers : v # w => out'[v] = out[v]
      BY <1>1 DEF TypeOK
    <2>2. ASSUME NEW v \in Locked, out'[v] # <<>>  PROVE lock' = v
      <3>1. v \in Writers /\ v # w  BY <2>1, <2>2, WireAssumption
      <3>2. lock = v  BY <2>1, <2>2, <3>1 DEF CallsInv
      <3> QED  BY <1>1, <3>1, <3>2
    <2>3. \A v \in Writers : out'[v] # <<>> => out'[v][Len(out'[v])].kind # "magic"
      BY <2>1 DEF CallsInv
    <2> QED  BY <1>1, <2>2, <2>3 DEF CallsInv
  <1> QED  BY <1>2, <1>3

\* What one recv() gives the reader: k units behind the t taken, to its g.
Got(r, k, g, t) ==
    /\ k \in Nat \ {0}
    /\ got' \in [Readers -> Seq(Units)] /\ Len(got'[r]) = g + k
    /\ \A j \in 1 .. g : got'[r][j] = got[r][j]
    /\ \A j \in 1 .. k : got'[r][g + j] = wire[t + j]
    /\ \A q \in Readers : q # r => got'[q] = got[q]

LEMMA ReadIs ==
    ASSUME TypeOK, NEW r \in Readers, NEW k \in 1 .. Room, Read(r, k)
    PROVE  Got(r, k, Len(got[r]), taken)
  <1>g. PICK g \in Nat : g = Len(got[r])  BY LenProperties DEF TypeOK
  <1>t. PICK t \in Nat : t = taken  BY DEF TypeOK
  <1>k. k \in Nat \ {0} /\ Room \in Nat  BY WireAssumption
  <1>1. /\ t + k <= Len(wire)
        /\ got' = [got EXCEPT ![r] = @ \o SubSeq(wire, t + 1, t + k)]
    BY <1>t DEF Read
  <1>2. wire \in Seq(Units) /\ Len(wire) \in Nat  BY DEF TypeOK
  <1>3. /\ SubSeq(wire, t + 1, t + k) \in Seq(Units)
        /\ Len(SubSeq(wire, t + 1, t + k)) = k
        /\ \A j \in 1 .. k : SubSeq(wire, t + 1, t + k)[j] = wire[t + j]
    <2>1. PICK m \in Nat : m = t + k  BY <1>k
    <2>2. t <= m /\ m - t = k /\ m <= Len(wire)  BY <1>1, <1>k, <2>1
    <2>3. /\ SubSeq(wire, t + 1, m) \in Seq(Units)
          /\ Len(SubSeq(wire, t + 1, m)) = m - t
          /\ \A j \in 1 .. m - t : SubSeq(wire, t + 1, m)[j] = wire[t + j]
      BY <1>2, <2>2, PartAfter
    <2> QED  BY <2>1, <2>2, <2>3
  <1>4. /\ got'[r] \in Seq(Units) /\ Len(got'[r]) = g + k
        /\ \A j \in 1 .. g : got'[r][j] = got[r][j]
        /\ \A j \in 1 .. k : got'[r][g + j] = wire[t + j]
    <2>1. PICK new \in Seq(Units) : new = SubSeq(wire, t + 1, t + k)  BY <1>3
    <2>2. PICK old \in Seq(Units) : old = got[r]  BY DEF TypeOK
    <2>3. got'[r] = old \o new  BY <1>1, <2>1, <2>2 DEF TypeOK
    <2>4. Len(new) = k /\ \A j \in 1 .. k : new[j] = wire[t + j]  BY <1>3, <2>1
    <2>5. Len(old) = g  BY <1>g, <2>2
    <2>6. old \o new \in Seq(Units) /\ Len(old \o new) = g + k
      <3>1. old \o new \in Seq(Units) /\ Len(old \o new) = Len(old) + Len(new)
        BY ConcatProperties
      <3> QED  BY <2>4, <2>5, <3>1
    <2>7. \A j \in 1 .. g + k : (old \o new)[j] = IF j <= g THEN old[j] ELSE new[j - g]
      BY <2>4, <2>5, ConcatAt
    <2>8. \A j \in 1 .. g : j \in 1 .. g + k /\ j <= g  BY <1>k
    <2>9. \A j \in 1 .. k : g + j \in 1 .. g + k /\ ~(g + j <= g) /\ (g + j) - g = j  BY <1>k
    <2>10. \A j \in 1 .. g : got'[r][j] = got[r][j]  BY <2>2, <2>3, <2>7, <2>8
    <2>11. ASSUME NEW j \in 1 .. k  PROVE got'[r][g + j] = wire[t + j]
      <3>1. got'[r][g + j] = new[(g + j) - g]  BY <2>3, <2>7, <2>9
      <3> QED  BY <2>4, <2>9, <3>1
    <2> QED  BY <2>3, <2>6, <2>10, <2>11
  <1>5. /\ got' \in [Readers -> Seq(Units)]
        /\ \A q \in Readers : q # r => got'[q] = got[q]
    BY <1>1, <1>4 DEF TypeOK
  <1>6. Got(r, k, g, t)  BY <1>k, <1>4, <1>5 DEF Got
  <1> QED  BY <1>g, <1>t, <1>6

\* Bytes decrypt to bytes, whatever they are.
LEMMA Decrypts ==
    ASSUME NEW buf \in Seq(Byte), NEW cipher \in Types, NEW pass \in Seq(Byte)
    PROVE  crypto_decrypt(buf, cipher, pass) \in Seq(Byte)
  <1>1. VigenereDecrypt(buf, pass) \in Seq(Byte)
    <2>1. CASE pass = <<>>  BY <2>1 DEF VigenereDecrypt
    <2>2. CASE pass # <<>>
      <3> DEFINE dec == VigenereDecrypt(buf, pass)
      <3>0. \A i \in 1 .. Len(buf) : buf[i] \in Byte /\ KeyByte(pass, i) \in Byte
        BY <2>2, KeyByteIsByte, ElementOfSeq
      <3>1. \A i \in 1 .. Len(buf) : buf[i] \in Int /\ KeyByte(pass, i) \in Int /\ N \in Int
        BY <3>0, ByteIsInt, CipherAssumption
      <3>2. dec = [i \in 1 .. Len(buf) |-> (buf[i] - KeyByte(pass, i) + N) % N]
        BY <2>2 DEF VigenereDecrypt
      <3>3. ASSUME NEW i \in 1 .. Len(buf)  PROVE dec[i] \in Byte
        <4>1. buf[i] - KeyByte(pass, i) + N \in Int  BY <3>1
        <4>2. dec[i] = (buf[i] - KeyByte(pass, i) + N) % N  BY <3>2
        <4> QED  BY <4>1, <4>2, ByteIsInt
      <3> HIDE DEF dec
      <3>4. Len(buf) \in Nat  BY LenProperties
      <3>5. dec \in Seq(Byte)  BY <3>2, <3>3, <3>4, BufferIsSeq
      <3> QED  BY <3>5 DEF dec
    <2> QED  BY <2>1, <2>2
  <1>2. XorCrypt(buf, pass) \in Seq(Byte) /\ Rc4Crypt(buf, pass) \in Seq(Byte)
    BY XorCrypts, Rc4Crypts
  <1> QED  BY <1>1, <1>2 DEF crypto_decrypt, Types

LEMMA ReaderType ==
    ASSUME TypeOK, CallsInv, NEW r \in Readers, Reader(r)
    PROVE  TypeOK' /\ CallsInv'
  <1>1. ASSUME NEW k \in 1 .. Room, Read(r, k)
        PROVE  TypeOK' /\ CallsInv'
    <2>g. PICK g \in Nat : g = Len(got[r])  BY LenProperties DEF TypeOK
    <2>t. PICK t \in Nat : t = taken  BY DEF TypeOK
    <2>1. /\ t + k <= Len(wire) /\ taken' = t + k
          /\ mixed' = (mixed \/ \E q \in Readers \ {r} : InPacket(q))
          /\ UNCHANGED <<config, wire, closed, sending, reader, header, received>>
      BY <1>1, <2>t DEF Read
    <2>2. Got(r, k, g, t)  BY <1>1, <2>g, <2>t, ReadIs
    <2>3. k \in Nat \ {0} /\ got' \in [Readers -> Seq(Units)]  BY <2>2 DEF Got
    <2>4. taken' \in 0 .. Len(wire) /\ Len(wire) - taken' <= Room
      <3>1. Len(wire) - t <= Room /\ Len(wire) \in Nat  BY <2>t DEF TypeOK
      <3> QED  BY <2>1, <2>3, <3>1, WireAssumption
    <2>5. mixed' \in BOOLEAN  BY <2>1, Zenon
    <2>6. UNCHANGED <<type, key, wire, closed, lock, sent, starts, out, reader, header, received>>
      BY <2>1 DEF config, sending
    <2>7. TypeOK'  BY <2>3, <2>4, <2>5, <2>6 DEF TypeOK
    <2>8. CallsInv'  BY <2>6 DEF CallsInv
    <2> QED  BY <2>7, <2>8
  <1>2. ASSUME NEW h \in Headers, CheckHeader(r, h)
        PROVE  TypeOK' /\ CallsInv'
    <2>1. /\ header' = header \/ header' = [header EXCEPT ![r] = h]
          /\ reader' = [reader EXCEPT ![r] = "body"] \/ reader' = [reader EXCEPT ![r] = "failed"]
          /\ got' = got \/ got' = [got EXCEPT ![r] = <<>>]
          /\ UNCHANGED <<config, wire, taken, closed, sending, received, mixed>>
      BY <1>2 DEF CheckHeader
    <2>2. h \in [kind : {"rest"}, from : Writers, v : Nat]
      <3>1. PICK w \in Writers, p \in Payload : h = Rest(w, Len(p))  BY DEF Headers
      <3>2. Len(p) \in Nat  BY WireAssumption, LenProperties
      <3> QED  BY <3>1, <3>2 DEF Rest
    <2>3. header' \in [Readers -> [kind : {"rest"}, from : Writers, v : Nat]]
      BY <2>1, <2>2 DEF TypeOK
    <2>4. reader' \in [Readers -> {"header", "body", "failed"}]  BY <2>1 DEF TypeOK
    <2>5. got' \in [Readers -> Seq(Units)]
      <3>1. got \in [Readers -> Seq(Units)] /\ <<>> \in Seq(Units)  BY EmptySeq DEF TypeOK
      <3>2. [got EXCEPT ![r] = <<>>] \in [Readers -> Seq(Units)]  BY <3>1
      <3> QED  BY <2>1, <3>1, <3>2
    <2>6. UNCHANGED <<type, key, wire, taken, closed, lock, sent, starts, out, received, mixed>>
      BY <2>1 DEF config, sending
    <2>7. TypeOK'  BY <2>3, <2>4, <2>5, <2>6 DEF TypeOK
    <2>8. CallsInv'  BY <2>6 DEF CallsInv
    <2> QED  BY <2>7, <2>8
  <1>3. CASE ReadFails(r)
    <2>1. /\ reader' = [reader EXCEPT ![r] = "failed"]
          /\ UNCHANGED <<type, key, wire, taken, closed, lock, sent, starts, out,
                         got, header, received, mixed>>
      BY <1>3 DEF ReadFails, config, sending
    <2>2. reader' \in [Readers -> {"header", "body", "failed"}]  BY <2>1 DEF TypeOK
    <2>3. TypeOK'  BY <2>1, <2>2 DEF TypeOK
    <2>4. CallsInv'  BY <2>1 DEF CallsInv
    <2> QED  BY <2>3, <2>4
  <1>4. CASE Deliver(r)
    <2> DEFINE body == [i \in 1 .. Len(got[r]) |-> got[r][i].v % N]
               packet == [from |-> header[r].from, data |-> crypto_decrypt(body, type, key)]
    <2>1. /\ received' = Append(received, packet)
          /\ reader' = [reader EXCEPT ![r] = "header"]
          /\ got' = [got EXCEPT ![r] = <<>>]
          /\ UNCHANGED <<type, key, wire, taken, closed, lock, sent, starts, out, header, mixed>>
      BY <1>4 DEF Deliver, config, sending
    <2>2. body \in Seq(Byte)
      <3>1. got[r] \in Seq(Units) /\ Len(got[r]) \in Nat  BY LenProperties DEF TypeOK
      <3>2. ASSUME NEW i \in 1 .. Len(got[r])  PROVE body[i] \in Byte
        <4>1. got[r][i] \in Units  BY <3>1, ElementOfSeq
        <4>2. got[r][i].v \in Int  BY <4>1, ByteIsInt DEF Units, Magic
        <4> QED  BY <4>2, ByteIsInt
      <3>3. body = [i \in 1 .. Len(got[r]) |-> body[i]]  OBVIOUS
      <3> HIDE DEF body
      <3> QED  BY <3>1, <3>2, <3>3, BufferIsSeq
    <2>3. packet \in [from : Writers, data : Seq(Byte)]
      <3>1. type \in Types /\ key \in Seq(Byte) /\ header[r].from \in Writers
        BY WireAssumption DEF TypeOK
      <3> HIDE DEF body
      <3> QED  BY <2>2, <3>1, Decrypts
    <2> HIDE DEF packet
    <2>4. received' \in Seq([from : Writers, data : Seq(Byte)])
      BY <2>1, <2>3, AppendProperties DEF TypeOK
    <2>5. /\ reader' \in [Readers -> {"header", "body", "failed"}]
          /\ got' \in [Readers -> Seq(Units)]
      BY <2>1, EmptySeq DEF TypeOK
    <2>6. TypeOK'  BY <2>1, <2>4, <2>5 DEF TypeOK
    <2>7. CallsInv'  BY <2>1 DEF CallsInv
    <2> QED  BY <2>6, <2>7
  <1> QED  BY <1>1, <1>2, <1>3, <1>4 DEF Reader

LEMMA TypeStep ==
    ASSUME TypeOK, CallsInv, [Next]_vars
    PROVE  TypeOK' /\ CallsInv' /\ (mixed => mixed')
  <1>1. ASSUME NEW w \in Writers, NEW p \in Payload, Begin(w, p)
        PROVE  TypeOK' /\ CallsInv' /\ (mixed => mixed')
    <2>1. mixed => mixed'  BY <1>1 DEF Begin
    <2> QED  BY <1>1, <2>1, BeginType
  <1>2. ASSUME NEW w \in Writers, Writer(w)
        PROVE  TypeOK' /\ CallsInv' /\ (mixed => mixed')
    <2>1. mixed => mixed'  BY <1>2 DEF Writer, Write, WriteFails
    <2> QED  BY <1>2, <2>1, WriteType, WriteFailsType DEF Writer
  <1>3. ASSUME NEW r \in Readers, Reader(r)
        PROVE  TypeOK' /\ CallsInv' /\ (mixed => mixed')
    <2>1. mixed => mixed'  BY <1>3 DEF Reader, Read, CheckHeader, ReadFails, Deliver
    <2> QED  BY <1>3, <2>1, ReaderType
  <1>4. ASSUME Close \/ UNCHANGED vars
        PROVE  TypeOK' /\ CallsInv' /\ (mixed => mixed')
    <2>1. /\ UNCHANGED <<type, key, wire, taken, lock, sent, starts, out, mixed,
                         reader, got, header, received>>
          /\ closed' \in BOOLEAN
      BY <1>4 DEF Close, vars, config, sending, reading, TypeOK
    <2> QED  BY <2>1 DEF TypeOK, CallsInv
  <1> QED  BY <1>1, <1>2, <1>3, <1>4 DEF Next

-----------------------------------------------------------------------------
(* As long as nothing overlaps                                             *)

LEMMA EndIs ==
    ASSUME TypeOK, CallsInv, NEW n \in 0 .. Len(sent)
    PROVE  /\ End(n) \in Nat
           /\ n > 0 => starts[n] \in Nat /\ End(n) = starts[n] + 2 + Len(sent[n].data)
  <1>1. CASE n = 0  BY <1>1 DEF End
  <1>2. CASE n > 0
    <2>1. starts[n] \in Nat  BY <1>2, ElementOfSeq DEF TypeOK, CallsInv
    <2>2. Len(sent[n].data) \in Nat  BY <1>2, SentIs
    <2> QED  BY <1>2, <2>1, <2>2 DEF End
  <1> QED  BY <1>1, <1>2

\* Where the readers stand nothing has changed, if only more was written.
LEMMA ReadInvStays ==
    ASSUME Whole, UNCHANGED <<reading, taken>>,
           Len(sent) <= Len(sent'), Len(sent') \in Nat,
           \A n \in 1 .. Len(sent) : sent'[n] = sent[n] /\ starts'[n] = starts[n],
           Len(wire) <= Len(wire'), Len(wire') \in Nat,
           \A k \in 1 .. Len(wire) : wire'[k] = wire[k],
           closed => closed' /\ wire' = wire
    PROVE  ReadInv'
  <1>n. PICK n \in Nat : n = Len(received)  BY LenProperties DEF Whole, TypeOK
  <1>1. n \in 0 .. Len(sent) /\ UNCHANGED <<reader, got, header, received, taken>>
    BY <1>n DEF Whole, ReadInv, TypeOK, reading
  <1>2. End(n)' = End(n)  BY <1>1 DEF End
  <1>3. \A i \in 1 .. n : received'[i] = sent'[i]  BY <1>n, <1>1 DEF Whole, ReadInv
  <1>4. End(n) \in Nat /\ Len(wire) \in Nat /\ taken \in Nat /\ taken <= Len(wire)
    BY <1>1, EndIs DEF Whole, TypeOK
  <1>a. ASSUME NEW r \in Readers, NEW o \in Nat, At(r, o)  PROVE At(r, o)'
    <2>1. got[r] \in Seq(Units)  BY DEF Whole, TypeOK
    <2>2. PICK g \in Nat : g = Len(got[r])  BY <2>1, LenProperties
    <2>3. taken = o + g /\ \A k \in 1 .. g : got[r][k] = wire[o + k]  BY <1>a, <2>2 DEF At
    <2>4. \A k \in 1 .. g : o + k \in 1 .. Len(wire)  BY <1>4, <2>3
    <2>5. \A k \in 1 .. g : wire'[o + k] = wire[o + k]  BY <2>4
    <2> QED  BY <1>1, <2>2, <2>3, <2>5 DEF At
  <1>5. ASSUME NEW r \in Readers, reader[r] = "header", got[r] # <<>>
        PROVE  Len(got'[r]) <= 2 /\ At(r, End(n))'
    <2>1. Len(got[r]) <= 2 /\ At(r, End(n))  BY <1>5, <1>n DEF Whole, ReadInv
    <2>2. PICK o \in Nat : o = End(n)  BY <1>4
    <2>3. At(r, o)'  BY <1>a, <2>1, <2>2
    <2> QED  BY <1>1, <1>2, <2>1, <2>2, <2>3 DEF At
  <1>6. ASSUME NEW r \in Readers, reader[r] = "body"
        PROVE  /\ n < Len(sent')
               /\ header'[r] = Rest(sent'[n + 1].from, Len(sent'[n + 1].data))
               /\ Len(got'[r]) <= Len(sent'[n + 1].data)
               /\ At(r, End(n) + 2)'
    <2>1. /\ n < Len(sent)
          /\ header[r] = Rest(sent[n + 1].from, Len(sent[n + 1].data))
          /\ Len(got[r]) <= Len(sent[n + 1].data)
          /\ At(r, End(n) + 2)
      BY <1>6, <1>n DEF Whole, ReadInv
    <2>2. PICK o \in Nat : o = End(n) + 2  BY <1>4
    <2>3. At(r, o)'  BY <1>a, <2>1, <2>2
    <2>4. o = End(n)' + 2  BY <1>2, <2>2
    <2>5. sent'[n + 1] = sent[n + 1]
      <3>1. Len(sent) \in Nat  BY DEF Whole, TypeOK
      <3>2. n + 1 \in 1 .. Len(sent)  BY <1>1, <2>1, <3>1
      <3> QED  BY <3>2
    <2>6. n < Len(sent')
      <3>1. Len(sent) \in Nat  BY DEF Whole, TypeOK
      <3> QED  BY <2>1, <3>1
    <2> QED  BY <1>1, <2>1, <2>3, <2>4, <2>5, <2>6 DEF At
  <1>7. \A r \in Readers : InPacket(r)' = InPacket(r)  BY <1>1 DEF InPacket
  <1>8. \A q, r \in Readers : InPacket(q)' /\ InPacket(r)' => q = r
    BY <1>7 DEF Whole, ReadInv
  <1>9. ASSUME \A r \in Readers : ~InPacket(r)'
        PROVE  taken' = End(n)' \/ (closed' /\ taken' = Len(wire'))
    <2>1. taken = End(n) \/ (closed /\ taken = Len(wire))
      BY <1>n, <1>7, <1>9 DEF Whole, ReadInv
    <2> QED  BY <1>1, <1>2, <2>1
  <1>10. n = Len(received') /\ n <= Len(sent')
    <2>1. Len(sent) \in Nat  BY DEF Whole, TypeOK
    <2> QED  BY <1>n, <1>1, <2>1
  <1> QED  BY <1>1, <1>3, <1>5, <1>6, <1>8, <1>9, <1>10 DEF ReadInv

\* Reading, and the end of the connection, leave the writers' side alone.
LEMMA WrittenInvStays ==
    ASSUME Whole, UNCHANGED <<config, wire, sending>>, closed => closed'
    PROVE  WrittenInv'
  <1>1. \A n : Frame(n)' = Frame(n) /\ End(n)' = End(n)
    BY SerializedStays DEF Frame, End, sending
  <1>2. /\ \A v, w \in Writers : out[v] # <<>> /\ out[w] # <<>> => v = w
        /\ \A n \in 1 .. Len(sent) : starts[n] = End(n - 1)
        /\ \A m, n \in 0 .. Len(sent) : m <= n => End(m) <= End(n)
        /\ Len(wire) <= End(Len(sent))
        /\ Len(sent) > 0 => starts[Len(sent)] <= Len(wire)
        /\ (\A w \in Writers : out[w] = <<>>) => closed \/ Len(wire) = End(Len(sent))
    BY DEF Whole, WrittenInv
  <1>3. \A n \in 1 .. Len(sent), k \in Nat \ {0} :
            k <= 2 + Len(sent[n].data) /\ starts[n] + k <= Len(wire)
                => wire[starts[n] + k] = Frame(n)[k]
    BY DEF Whole, WrittenInv
  <1>4. \A w \in Writers : out[w] # <<>> =>
            /\ Len(sent) > 0
            /\ Len(wire) + Len(out[w]) = End(Len(sent))
            /\ \A k \in 1 .. Len(out[w]) :
                    out[w][k] = Frame(Len(sent))[Len(wire) - starts[Len(sent)] + k]
    BY DEF Whole, WrittenInv
  <1>5. UNCHANGED <<wire, sent, starts, lock, out>>  BY DEF sending
  <1> QED  BY <1>1, <1>2, <1>3, <1>4, <1>5 DEF WrittenInv

LEMMA CloseInv ==
    ASSUME Whole, Close
    PROVE  WrittenInv' /\ ReadInv'
  <1>1. WrittenInv'  BY WrittenInvStays DEF Close
  <1>2. ReadInv'
    <2>1. UNCHANGED <<wire, sent, starts, reading, taken>> /\ closed' = TRUE
      BY DEF Close, sending
    <2>2. Len(sent) \in Nat /\ Len(wire) \in Nat  BY DEF Whole, TypeOK
    <2> QED  BY <2>1, <2>2, ReadInvStays
  <1> QED  BY <1>1, <1>2

\* A packet is begun only when all before it are written.
LEMMA BeginAlone ==
    ASSUME Whole, NEW w \in Writers, NEW p \in Payload, Begin(w, p), ~mixed'
    PROVE  \A v \in Writers : out[v] = <<>>
  <1>1. out[w] = <<>> /\ (w \in Locked => lock = None)  BY DEF Begin
  <1>2. ~Overlaps(w)
    <2>1. mixed' = (mixed \/ Overlaps(w))  BY DEF Begin
    <2> QED  BY <2>1, Zenon
  <1>3. ASSUME NEW v \in Writers, v # w, out[v] # <<>>  PROVE FALSE
    <2>1. v \in Locked /\ w \in Locked  BY <1>2, <1>3 DEF Overlaps
    <2>2. lock = v /\ lock = None  BY <1>1, <1>3, <2>1 DEF Whole, CallsInv
    <2> QED  BY <2>2, WireAssumption
  <1> QED  BY <1>1, <1>3

LEMMA BeginInv ==
    ASSUME Whole, NEW w \in Writers, NEW p \in Payload, Begin(w, p), ~mixed'
    PROVE  WrittenInv' /\ ReadInv'
  <1> DEFINE packet == [from |-> w, data |-> p]
  <1>n. PICK n \in Nat : n = Len(sent)  BY DEF Whole, TypeOK
  <1>1. /\ ~closed
        /\ sent' = Append(sent, packet)
        /\ starts' = Append(starts, Len(wire))
        /\ out' = [out EXCEPT ![w] = Serialized(w, p)]
        /\ UNCHANGED <<config, wire, taken, closed, reading>>
    BY DEF Begin
  <1>2. /\ n = Len(sent) /\ Len(wire) \in Nat /\ Len(starts) = n
        /\ sent \in Seq([from : Writers, data : Payload]) /\ starts \in Seq(Nat)
    BY <1>n DEF Whole, TypeOK, CallsInv
  <1>3. /\ Len(p) \in Nat /\ Serialized(w, p) \in Seq(Units)
        /\ Len(Serialized(w, p)) = 2 + Len(p)
    BY SerializedIs DEF Whole, TypeOK
  <1>4. /\ \A v \in Writers : out[v] = <<>>
        /\ out'[w] = Serialized(w, p)
        /\ \A v \in Writers : out'[v] # <<>> => v = w
    <2>1. \A v \in Writers : out[v] = <<>>  BY BeginAlone
    <2> QED  BY <1>1, <2>1 DEF Whole, TypeOK
  <1>5. /\ Len(sent') = n + 1 /\ Len(starts') = n + 1
        /\ \A i \in 1 .. n : sent'[i] = sent[i] /\ starts'[i] = starts[i]
        /\ sent'[n + 1] = packet /\ starts'[n + 1] = Len(wire)
    BY <1>1, <1>2, AppendProperties
  <1>6. /\ \A i \in 1 .. n : Frame(i)' = Frame(i)
        /\ Frame(n + 1)' = Serialized(w, p)
    <2>1. type' = type /\ key' = key  BY <1>1 DEF config
    <2>2. ASSUME NEW i \in 1 .. n PROVE Frame(i)' = Frame(i)
      <3>1. sent'[i] = sent[i]  BY <1>5
      <3> QED  BY <2>1, <3>1 DEF Frame, Serialized
    <2>3. sent'[n + 1].from = w /\ sent'[n + 1].data = p  BY <1>5
    <2>4. Frame(n + 1)' = Serialized(w, p)  BY <2>1, <2>3 DEF Frame, Serialized
    <2> QED  BY <2>2, <2>4
  <1>7. /\ \A i \in 0 .. n : End(i)' = End(i)
        /\ End(n + 1)' = Len(wire) + 2 + Len(p)
    <2>1. n \in Nat /\ n + 1 # 0 /\ (n + 1) \in 1 .. n + 1  BY <1>n
    <2>2. sent'[n + 1].data = p /\ starts'[n + 1] = Len(wire)  BY <1>5
    <2>3. End(n + 1)' = Len(wire) + 2 + Len(p)
      BY <2>1, <2>2 DEF End
    <2>4. ASSUME NEW i \in 0 .. n PROVE End(i)' = End(i)
      <3>1. CASE i = 0  BY <3>1 DEF End
      <3>2. CASE i # 0
        <4>1. i \in 1 .. n  BY <2>1, <3>2
        <4>2. sent'[i] = sent[i] /\ starts'[i] = starts[i]  BY <1>5, <4>1
        <4> QED  BY <4>2 DEF End
      <3> QED  BY <3>1, <3>2
    <2> QED  BY <2>3, <2>4
  <1>8. Len(wire) = End(n)  BY <1>1, <1>2, <1>4 DEF Whole, WrittenInv
  <1>9. WrittenInv'
    <2>1. ASSUME NEW i \in 1 .. n + 1
          PROVE  starts'[i] = End(i - 1)'
      <3>1. i - 1 \in 0 .. n /\ End(i - 1)' = End(i - 1)  BY <1>7
      <3>2. CASE i = n + 1  BY <1>5, <1>8, <3>1, <3>2
      <3>3. CASE i \in 1 .. n  BY <1>2, <1>5, <3>1, <3>3 DEF Whole, WrittenInv
      <3> QED  BY <3>2, <3>3
    <2>2. \A i, j \in 0 .. n + 1 : i <= j => End(i)' <= End(j)'
      <3>1. \A i, j \in 0 .. n : i <= j => End(i) <= End(j)  BY <1>2 DEF Whole, WrittenInv
      <3>2. \A i \in 0 .. n : End(i) \in Nat /\ End(i) <= Len(wire)
        BY <1>2, <1>8, <3>1, EndIs DEF Whole
      <3>3. End(n + 1)' \in Nat /\ Len(wire) <= End(n + 1)'  BY <1>2, <1>3, <1>7
      <3>4. ASSUME NEW i \in 0 .. n + 1, NEW j \in 0 .. n + 1, i <= j
            PROVE  End(i)' <= End(j)'
        <4>1. CASE j \in 0 .. n  BY <1>7, <3>1, <3>4, <4>1
        <4>2. CASE j = n + 1 /\ i \in 0 .. n  BY <1>2, <1>7, <3>2, <3>3, <4>2
        <4>3. CASE j = n + 1 /\ i = n + 1  BY <3>3, <4>3
        <4> QED  BY <4>1, <4>2, <4>3
      <3> QED  BY <3>4
    <2>3. \A i \in 1 .. n + 1, k \in Nat \ {0} :
              k <= 2 + Len(sent'[i].data) /\ starts'[i] + k <= Len(wire')
                  => wire'[starts'[i] + k] = Frame(i)'[k]
      <3>1. \A i \in 1 .. n, k \in Nat \ {0} :
                k <= 2 + Len(sent[i].data) /\ starts[i] + k <= Len(wire)
                    => wire[starts[i] + k] = Frame(i)[k]
        BY <1>2 DEF Whole, WrittenInv
      <3>2. \A k \in Nat \ {0} : ~(Len(wire) + k <= Len(wire))  BY <1>2
      <3> QED  BY <1>1, <1>2, <1>5, <1>6, <3>1, <3>2
    <2>4. /\ Len(out'[w]) = 2 + Len(p)
          /\ \A k \in 1 .. Len(out'[w]) : out'[w][k] = Frame(n + 1)'[Len(wire) - Len(wire) + k]
      <3>2. \A k \in 1 .. 2 + Len(p) : Len(wire) - Len(wire) + k = k  BY <1>2, <1>3
      <3> QED  BY <1>3, <1>4, <1>6, <3>2
    <2>5. \A v \in Writers : out'[v] # <<>> =>
            /\ Len(wire') + Len(out'[v]) = End(n + 1)'
            /\ \A k \in 1 .. Len(out'[v]) :
                   out'[v][k] = Frame(n + 1)'[Len(wire') - starts'[Len(sent')] + k]
      <3>1. /\ Len(wire) + (2 + Len(p)) = Len(wire) + 2 + Len(p)
            /\ starts'[n + 1] = Len(wire) /\ wire' = wire
        BY <1>1, <1>2, <1>3, <1>5
      <3>2. End(n + 1)' = Len(wire) + 2 + Len(p)  BY <1>7
      <3>3. Len(wire') + Len(out'[w]) = End(n + 1)'  BY <2>4, <3>1, <3>2
      <3>4. \A k \in 1 .. Len(out'[w]) :
                out'[w][k] = Frame(n + 1)'[Len(wire') - starts'[Len(sent')] + k]
        BY <1>5, <2>4, <3>1
      <3> QED  BY <1>4, <3>3, <3>4
    <2>6. Len(wire') <= End(n + 1)' /\ starts'[Len(sent')] <= Len(wire')
      BY <1>1, <1>2, <1>3, <1>5, <1>7
    <2>7. Len(sent') = n + 1 /\ Len(sent') > 0  BY <1>5
    <2>8. out'[w] # <<>>  BY <1>4, SerializedEnds DEF Whole
    <2> QED  BY <1>4, <2>1, <2>2, <2>3, <2>5, <2>6, <2>7, <2>8 DEF WrittenInv
  <1>10. ReadInv'
    BY <1>1, <1>2, <1>5, ReadInvStays
  <1> QED  BY <1>9, <1>10

LEMMA WriteInv ==
    ASSUME Whole, NEW w \in Writers, NEW k \in 1 .. Room, Write(w, k)
    PROVE  WrittenInv' /\ ReadInv'
  <1>0. /\ out[w] # <<>> /\ ~closed
        /\ UNCHANGED <<config, taken, closed, sent, starts, reading>>
    BY DEF Write
  <1>n. PICK n \in Nat : n = Len(sent)  BY DEF Whole, TypeOK
  <1>m. PICK m \in Nat : m = Len(out[w]) /\ m # 0  BY <1>0, ChunkFits DEF Whole
  <1>t. PICK t \in Nat : t = Len(wire)  BY DEF Whole, TypeOK
  <1>1. Wrote(w, k, m, t)  BY <1>m, <1>t, WriteIs DEF Whole
  <1>a. n > 0 /\ n \in 1 .. Len(sent) /\ n \in 0 .. Len(sent)
    <2>1. n > 0  BY <1>0, <1>n DEF Whole, WrittenInv
    <2> QED  BY <1>n, <2>1
  <1>l. PICK l \in Nat : l = Len(sent[n].data)  BY <1>a, SentIs DEF Whole
  <1>2. /\ k \in Nat \ {0} /\ k <= m
        /\ starts[n] \in Nat /\ End(n) = starts[n] + 2 + l /\ starts[n] <= t
    <2>1. starts[n] \in Nat /\ End(n) = starts[n] + 2 + l
      BY <1>a, <1>l, EndIs DEF Whole
    <2>2. starts[n] <= t  BY <1>n, <1>t, <1>a DEF Whole, WrittenInv
    <2> QED  BY <1>1, <2>1, <2>2 DEF Wrote
  <1>3. /\ t + m = starts[n] + 2 + l
        /\ \A j \in 1 .. m : out[w][j] = Frame(n)[t - starts[n] + j]
    <2>1. Len(wire) + Len(out[w]) = End(n)  BY <1>0, <1>n DEF Whole, WrittenInv
    <2>2. \A j \in 1 .. m : out[w][j] = Frame(n)[t - starts[n] + j]
      BY <1>0, <1>n, <1>m, <1>t DEF Whole, WrittenInv
    <2> QED  BY <1>m, <1>t, <1>2, <2>1, <2>2
  <1>4. \A v \in Writers : out'[v] # <<>> => v = w
    <2>1. \A v \in Writers : v # w => out[v] = <<>> /\ out'[v] = out[v]
      BY <1>0, <1>1 DEF Whole, WrittenInv, Wrote
    <2> QED  BY <2>1
  <1>5. /\ Len(out'[w]) = m - k
        /\ \A j \in 1 .. m - k : out'[w][j] = out[w][k + j]
    BY <1>1 DEF Wrote
  <1>6. /\ Len(wire') = t + k
        /\ \A j \in 1 .. t : wire'[j] = wire[j]
        /\ \A j \in 1 .. k : wire'[t + j] = out[w][j]
    BY <1>1 DEF Wrote
  <1>9. \A i : Frame(i)' = Frame(i) /\ End(i)' = End(i)
    BY <1>0, SerializedStays DEF Frame, End
  <1>10. WrittenInv'
    <2>1. /\ \A i \in 1 .. n : starts'[i] = End(i - 1)'
          /\ \A i, j \in 0 .. n : i <= j => End(i)' <= End(j)'
      BY <1>0, <1>9, <1>n DEF Whole, WrittenInv
    <2>2. /\ Len(wire') <= End(n)' /\ starts'[n] <= Len(wire')
          /\ Len(wire') + (m - k) = End(n)'
      <3>1. End(n)' = t + m  BY <1>2, <1>3, <1>9
      <3>2. starts'[n] = starts[n] /\ Len(wire') = t + k  BY <1>0, <1>6
      <3>3. t + k <= t + m /\ starts[n] <= t + k /\ t + k + (m - k) = t + m  BY <1>2
      <3> QED  BY <3>1, <3>2, <3>3
    <2>3. ASSUME NEW i \in 1 .. n, NEW j \in Nat \ {0},
                 j <= 2 + Len(sent'[i].data), starts'[i] + j <= Len(wire')
          PROVE  wire'[starts'[i] + j] = Frame(i)'[j]
      <3>1. starts[i] \in Nat
        BY <1>n, ElementOfSeq DEF Whole, TypeOK, CallsInv
      <3>2. CASE starts[i] + j <= t
        <4>1. starts[i] + j \in 1 .. t  BY <3>1, <3>2
        <4>2. wire[starts[i] + j] = Frame(i)[j]
          BY <1>0, <1>n, <1>t, <2>3, <3>2 DEF Whole, WrittenInv
        <4> QED  BY <1>0, <1>6, <1>9, <4>1, <4>2
      <3>3. CASE ~(starts[i] + j <= t)
        <4>1. i = n
          <5> SUFFICES ASSUME i # n PROVE FALSE
            OBVIOUS
          <5>1. i \in 0 .. n - 1 /\ n - 1 \in 0 .. n /\ i \in 0 .. Len(sent)  BY <1>n, <1>a
          <5>2. End(i) <= End(n - 1) /\ starts[n] = End(n - 1)
            BY <1>n, <1>a, <5>1 DEF Whole, WrittenInv
          <5>3. End(i) = starts[i] + 2 + Len(sent[i].data)  BY <5>1, EndIs DEF Whole
          <5>4. PICK e \in Nat : e = Len(sent[i].data)  BY <1>n, SentIs DEF Whole
          <5>5. starts[i] + j <= End(i)
            <6>1. j <= 2 + e /\ End(i) = starts[i] + 2 + e  BY <1>0, <2>3, <5>3, <5>4
            <6> QED  BY <3>1, <6>1
          <5>6. End(i) <= starts[n] /\ End(i) \in Nat  BY <5>1, <5>2, EndIs DEF Whole
          <5> QED  BY <1>2, <3>1, <3>3, <5>5, <5>6
        <4>2. PICK x \in 1 .. k : starts[n] + j = t + x
          <5>1. starts[n] + j <= t + k /\ ~(starts[n] + j <= t)
            BY <1>0, <1>6, <2>3, <3>3, <4>1
          <5>2. PICK s \in Nat : s = starts[n] + j  BY <1>2
          <5>3. s <= t + k /\ t < s  BY <5>1, <5>2
          <5>4. s - t \in 1 .. k  BY <5>3
          <5>5. s = t + (s - t)  OBVIOUS
          <5> QED  BY <5>2, <5>4, <5>5
        <4>3. wire'[starts[n] + j] = out[w][x]  BY <1>6, <4>2
        <4>4. x \in 1 .. m /\ t - starts[n] + x = j
          <5>1. PICK s \in Nat : s = starts[n]  BY <1>2
          <5>2. s + j = t + x /\ x \in Int  BY <4>2, <5>1
          <5>3. t - s + x = j  BY <5>2
          <5>4. x \in 1 .. m  BY <1>2
          <5> QED  BY <5>1, <5>3, <5>4
        <4>5. out[w][x] = Frame(n)[j]  BY <1>3, <4>4
        <4> QED  BY <1>0, <1>9, <4>1, <4>3, <4>5
      <3> QED  BY <3>2, <3>3
    <2>4. \A j \in 1 .. m - k : out'[w][j] = Frame(n)'[Len(wire') - starts'[n] + j]
      <3>1. \A j \in 1 .. m - k : k + j \in 1 .. m
                                 /\ t - starts[n] + (k + j) = (t + k) - starts[n] + j
        BY <1>2
      <3>2. starts'[n] = starts[n] /\ Len(wire') = t + k  BY <1>0, <1>6
      <3>3. \A j \in 1 .. m - k : out'[w][j] = Frame(n)[t - starts[n] + (k + j)]
        BY <1>3, <1>5, <3>1
      <3>4. \A j \in 1 .. m - k : out'[w][j] = Frame(n)[(t + k) - starts[n] + j]
        BY <3>1, <3>3
      <3> QED  BY <1>9, <3>2, <3>4
    <2>5. out'[w] = <<>> => Len(wire') = End(n)'
      <3>1. out'[w] = <<>> => m - k = 0
        <4>1. Len(<<>>) = 0  BY EmptySeq
        <4> QED  BY <1>5, <4>1
      <3>2. m - k = 0 => Len(wire') = End(n)'  BY <1>2, <1>6, <2>2
      <3> QED  BY <3>1, <3>2
    <2>6. Len(sent') = n /\ n > 0  BY <1>0, <1>n, <1>a
    <2> QED  BY <1>4, <1>5, <2>1, <2>2, <2>3, <2>4, <2>5, <2>6 DEF WrittenInv
  <1>11. ReadInv'
    <2>1. t <= t + k /\ t + k \in Nat  BY <1>2
    <2> QED  BY <1>0, <1>6, <1>n, <1>t, <2>1, ReadInvStays
  <1> QED  BY <1>10, <1>11

LEMMA WriteFailsInv ==
    ASSUME Whole, NEW w \in Writers, WriteFails(w)
    PROVE  WrittenInv' /\ ReadInv'
  <1>1. /\ closed /\ closed' /\ out[w] # <<>>
        /\ out' = [out EXCEPT ![w] = <<>>]
        /\ UNCHANGED <<config, wire, taken, closed, sent, starts, reading>>
    BY DEF WriteFails
  <1>2. \A v \in Writers : out'[v] = <<>>
    BY <1>1 DEF Whole, WrittenInv, TypeOK
  <1>3. WrittenInv'
    <2>1. \A i : Frame(i)' = Frame(i) /\ End(i)' = End(i)
      BY <1>1, SerializedStays DEF Frame, End
    <2>2. /\ \A n \in 1 .. Len(sent) : starts[n] = End(n - 1)
          /\ \A m, n \in 0 .. Len(sent) : m <= n => End(m) <= End(n)
          /\ Len(wire) <= End(Len(sent))
          /\ Len(sent) > 0 => starts[Len(sent)] <= Len(wire)
      BY DEF Whole, WrittenInv
    <2>3. \A n \in 1 .. Len(sent), k \in Nat \ {0} :
              k <= 2 + Len(sent[n].data) /\ starts[n] + k <= Len(wire)
                  => wire[starts[n] + k] = Frame(n)[k]
      BY DEF Whole, WrittenInv
    <2> QED  BY <1>1, <1>2, <2>1, <2>2, <2>3 DEF WrittenInv
  <1>4. ReadInv'
    <2>1. Len(sent) \in Nat /\ Len(wire) \in Nat  BY DEF Whole, TypeOK
    <2> QED  BY <1>1, <2>1, ReadInvStays
  <1> QED  BY <1>3, <1>4

-----------------------------------------------------------------------------
(* The readers                                                             *)

\* What the readers' position is made of.
LEMMA Position ==
    ASSUME Whole, NEW n \in Nat, n = Len(received)
    PROVE  /\ n \in 0 .. Len(sent) /\ Len(sent) \in Nat
           /\ Len(wire) \in Nat /\ taken \in Nat /\ taken <= Len(wire)
           /\ End(n) \in Nat /\ End(Len(sent)) \in Nat /\ Len(wire) <= End(Len(sent))
           /\ End(n) <= End(Len(sent))
           /\ n < Len(sent) => /\ n + 1 \in 1 .. Len(sent)
                               /\ starts[n + 1] = End(n)
                               /\ Len(sent[n + 1].data) \in Nat
           /\ received \in Seq([from : Writers, data : Seq(Byte)])
  <1>2. Len(sent) \in Nat /\ Len(wire) \in Nat /\ taken \in Nat /\ taken <= Len(wire)
    BY DEF Whole, TypeOK
  <1>3. n \in 0 .. Len(sent)  BY <1>2 DEF Whole, ReadInv
  <1>4. received \in Seq([from : Writers, data : Seq(Byte)])  BY DEF Whole, TypeOK
  <1>5. Len(sent) \in 0 .. Len(sent)  BY <1>2
  <1>6. End(n) \in Nat /\ End(Len(sent)) \in Nat  BY <1>3, <1>5, EndIs DEF Whole
  <1>7. Len(wire) <= End(Len(sent)) /\ End(n) <= End(Len(sent))
    BY <1>3, <1>5 DEF Whole, WrittenInv
  <1>8. ASSUME n < Len(sent)
        PROVE  /\ n + 1 \in 1 .. Len(sent)
               /\ starts[n + 1] = End(n)
               /\ Len(sent[n + 1].data) \in Nat
    <2>1. n + 1 \in 1 .. Len(sent) /\ (n + 1) - 1 = n  BY <1>2, <1>8
    <2>2. starts[n + 1] = End(n)  BY <2>1 DEF Whole, WrittenInv
    <2> QED  BY <2>1, <2>2, SentIs DEF Whole
  <1> QED  BY <1>2, <1>3, <1>4, <1>6, <1>7, <1>8

\* A reader that reads does so alone, and where the last packet ended.
LEMMA ReadAlone ==
    ASSUME Whole, NEW r \in Readers, NEW k \in 1 .. Room, Read(r, k), ~mixed',
           NEW n \in Nat, n = Len(received)
    PROVE  /\ \A q \in Readers : q # r => ~InPacket(q)
           /\ reader[r] = "header" => Len(got[r]) <= 2 /\ At(r, End(n))
  <1>1. \A q \in Readers : q # r => ~InPacket(q)
    <2>1. mixed' = (mixed \/ \E q \in Readers \ {r} : InPacket(q))  BY DEF Read
    <2>2. ~(\E q \in Readers \ {r} : InPacket(q))  BY <2>1, Zenon
    <2> QED  BY <2>2
  <1>2. ASSUME reader[r] = "header"  PROVE Len(got[r]) <= 2 /\ At(r, End(n))
    <2>1. CASE got[r] # <<>>  BY <1>2, <2>1 DEF Whole, ReadInv
    <2>2. CASE got[r] = <<>>
      <3>1. \A q \in Readers : ~InPacket(q)  BY <1>1, <1>2, <2>2 DEF InPacket
      <3>2. taken = End(n) \/ taken = Len(wire)  BY <3>1 DEF Whole, ReadInv
      <3>3. taken # Len(wire)
        <4>1. taken + k <= Len(wire) /\ k \in Nat \ {0} /\ taken \in Nat /\ Len(wire) \in Nat
          BY WireAssumption DEF Read, Whole, TypeOK
        <4> QED  BY <4>1
      <3>4. Len(got[r]) = 0  BY <2>2, EmptySeq
      <3>5. End(n) \in Nat  BY Position
      <3> QED  BY <3>2, <3>3, <3>4, <3>5 DEF At
    <2> QED  BY <2>1, <2>2
  <1> QED  BY <1>1, <1>2

LEMMA ReadStepInv ==
    ASSUME Whole, NEW r \in Readers, NEW k \in 1 .. Room, Read(r, k), ~mixed'
    PROVE  WrittenInv' /\ ReadInv'
  <1>n. PICK n \in Nat : n = Len(received)  BY LenProperties DEF Whole, TypeOK
  <1>g. PICK g \in Nat : g = Len(got[r])  BY LenProperties DEF Whole, TypeOK
  <1>t. PICK t \in Nat : t = taken  BY DEF Whole, TypeOK
  <1>1. /\ reader[r] \in {"header", "body"} /\ g + k <= Wanted(r)
        /\ taken' = t + k
        /\ UNCHANGED <<config, wire, closed, sending, reader, header, received>>
    BY <1>g, <1>t DEF Read
  <1>2. /\ k \in Nat \ {0}
        /\ got' \in [Readers -> Seq(Units)] /\ Len(got'[r]) = g + k
        /\ \A j \in 1 .. g : got'[r][j] = got[r][j]
        /\ \A j \in 1 .. k : got'[r][g + j] = wire[t + j]
        /\ \A q \in Readers : q # r => got'[q] = got[q]
    <2>1. Got(r, k, g, t)  BY <1>g, <1>t, ReadIs DEF Whole
    <2> QED  BY <2>1 DEF Got
  <1>3. WrittenInv'  BY <1>1, WrittenInvStays
  <1>4. /\ \A q \in Readers : q # r => ~InPacket(q)
        /\ reader[r] = "header" => Len(got[r]) <= 2 /\ At(r, End(n))
    BY <1>n, ReadAlone
  <1>5. ReadInv'
    <2>1. /\ n \in 0 .. Len(sent) /\ End(n) \in Nat
          /\ n < Len(sent) => Len(sent[n + 1].data) \in Nat
      BY <1>n, Position
    <2>2. UNCHANGED <<wire, sent, starts, reader, header, received>> /\ End(n)' = End(n)
      BY <1>1 DEF sending, End
    <2>3. ASSUME NEW o \in Nat, At(r, o)
          PROVE  At(r, o)'
      <3>0. t = o + g /\ \A j \in 1 .. g : got[r][j] = wire[o + j]
        BY <1>g, <1>t, <2>3 DEF At
      <3>1. taken' = o + (g + k)  BY <1>1, <1>2, <3>0
      <3>2. ASSUME NEW j \in 1 .. g + k  PROVE got'[r][j] = wire[o + j]
        <4>1. CASE j \in 1 .. g  BY <1>2, <3>0, <4>1
        <4>2. CASE j \notin 1 .. g
          <5>1. j - g \in 1 .. k /\ g + (j - g) = j /\ t + (j - g) = o + j
            BY <1>2, <3>0, <4>2
          <5>2. got'[r][g + (j - g)] = wire[t + (j - g)]  BY <1>2, <5>1
          <5> QED  BY <5>1, <5>2
        <4> QED  BY <4>1, <4>2
      <3> QED  BY <1>2, <2>2, <3>1, <3>2 DEF At
    <2>4. ASSUME reader[r] = "header"
          PROVE  Len(got'[r]) <= 2 /\ At(r, End(n))'
      <3>1. g + k <= 2  BY <1>1, <2>4 DEF Wanted
      <3>2. PICK o \in Nat : o = End(n)  BY <2>1
      <3>3. At(r, o)'  BY <1>4, <2>3, <2>4, <3>2
      <3> QED  BY <1>2, <2>2, <3>1, <3>2, <3>3 DEF At
    <2>5. ASSUME reader[r] = "body"
          PROVE  /\ n < Len(sent')
                 /\ header'[r] = Rest(sent'[n + 1].from, Len(sent'[n + 1].data))
                 /\ Len(got'[r]) <= Len(sent'[n + 1].data)
                 /\ At(r, End(n) + 2)'
      <3>1. /\ n < Len(sent)
            /\ header[r] = Rest(sent[n + 1].from, Len(sent[n + 1].data))
            /\ At(r, End(n) + 2)
        BY <1>n, <2>5 DEF Whole, ReadInv
      <3>2. header[r].v = Len(sent[n + 1].data)  BY <3>1 DEF Rest
      <3>3. g + k <= header[r].v  BY <1>1, <2>5 DEF Wanted
      <3>4. PICK o \in Nat : o = End(n) + 2  BY <2>1
      <3>5. At(r, o)'  BY <2>3, <3>1, <3>4
      <3>6. o = End(n)' + 2  BY <2>2, <3>4
      <3> QED  BY <1>2, <2>2, <3>1, <3>2, <3>3, <3>5, <3>6 DEF At
    <2>6. \A i \in 1 .. n : received[i] = sent[i]  BY <1>n DEF Whole, ReadInv
    <2>7. n <= Len(sent) /\ n = Len(received')  BY <1>n, <2>1, <2>2
    <2>8. \A q \in Readers : q # r => ~InPacket(q)' /\ reader[q] # "body" /\ got'[q] = <<>>
      BY <1>2, <1>4, <2>2 DEF InPacket
    <2>9. InPacket(r)'
      <3>1. Len(got'[r]) # 0 /\ Len(<<>>) = 0  BY <1>2, EmptySeq
      <3>2. got'[r] # <<>>  BY <3>1
      <3> QED  BY <3>2 DEF InPacket
    <2> QED  BY <2>2, <2>4, <2>5, <2>6, <2>7, <2>8, <2>9 DEF ReadInv
  <1> QED  BY <1>3, <1>5

LEMMA FailInv ==
    ASSUME Whole, NEW r \in Readers, ReadFails(r)
    PROVE  WrittenInv' /\ ReadInv'
  <1>1. /\ reader' = [reader EXCEPT ![r] = "failed"]
        /\ closed /\ taken = Len(wire)
        /\ UNCHANGED <<config, wire, taken, closed, sending, got, header, received>>
    BY DEF ReadFails
  <1>2. WrittenInv'  BY <1>1, WrittenInvStays
  <1>3. ReadInv'
    <2>1. /\ \A q \in Readers : reader'[q] = reader[q] \/ reader'[q] = "failed"
          /\ UNCHANGED <<sent, starts, wire, taken, got, header, received, closed>>
      BY <1>1 DEF Whole, TypeOK, sending
    <2>2. \A q \in Readers : InPacket(q)' => InPacket(q)  BY <2>1 DEF InPacket
    <2>3. \A n : End(n)' = End(n)  BY <2>1 DEF End
    <2>5. /\ Len(received) <= Len(sent)
          /\ \A i \in 1 .. Len(received) : received[i] = sent[i]
          /\ \A q, p \in Readers : InPacket(q) /\ InPacket(p) => q = p
      BY DEF Whole, ReadInv
    <2>6. \A q \in Readers : reader[q] = "header" /\ got[q] # <<>> =>
            Len(got[q]) <= 2 /\ At(q, End(Len(received)))
      BY DEF Whole, ReadInv
    <2>7. \A q \in Readers : reader[q] = "body" =>
            LET n == Len(received)
            IN  /\ n < Len(sent)
                /\ header[q] = Rest(sent[n + 1].from, Len(sent[n + 1].data))
                /\ Len(got[q]) <= Len(sent[n + 1].data)
                /\ At(q, End(n) + 2)
      BY DEF Whole, ReadInv
    <2> QED  BY <1>1, <2>1, <2>2, <2>3, <2>5, <2>6, <2>7 DEF ReadInv, At
  <1> QED  BY <1>2, <1>3

\* A complete header is the next packet's, and its magic right.
LEMMA HeaderIs ==
    ASSUME Whole, NEW r \in Readers, NEW n \in Nat, n = Len(received),
           reader[r] = "header", Len(got[r]) = 2
    PROVE  /\ n < Len(sent)
           /\ got[r][1] = Magic
           /\ got[r][2] = Rest(sent[n + 1].from, Len(sent[n + 1].data))
           /\ taken = End(n) + 2
           /\ InPacket(r) /\ \A q \in Readers : q # r => ~InPacket(q)
  <1>0. got[r] # <<>> /\ InPacket(r)
    <2>1. Len(<<>>) = 0  BY EmptySeq
    <2>2. got[r] # <<>>  BY <2>1
    <2> QED  BY <2>2 DEF InPacket
  <1>1. /\ n \in 0 .. Len(sent) /\ Len(sent) \in Nat
        /\ Len(wire) \in Nat /\ taken \in Nat /\ taken <= Len(wire)
        /\ End(n) \in Nat /\ End(Len(sent)) \in Nat /\ Len(wire) <= End(Len(sent))
        /\ n < Len(sent) => /\ n + 1 \in 1 .. Len(sent)
                            /\ starts[n + 1] = End(n)
                            /\ Len(sent[n + 1].data) \in Nat
    BY Position
  <1>2. /\ taken = End(n) + 2
        /\ got[r][1] = wire[End(n) + 1] /\ got[r][2] = wire[End(n) + 2]
    <2>1. 1 \in 1 .. Len(got[r]) /\ 2 \in 1 .. Len(got[r])  OBVIOUS
    <2>2. /\ taken = End(n) + Len(got[r])
          /\ \A k \in 1 .. Len(got[r]) : got[r][k] = wire[End(n) + k]
      BY <1>0 DEF Whole, ReadInv, At
    <2> QED  BY <2>1, <2>2
  <1>3. n < Len(sent)
    <2>1. n # Len(sent)  BY <1>1, <1>2
    <2> QED  BY <1>1, <2>1
  <1>4. \A k \in 1 .. 2 : wire[End(n) + k] = Frame(n + 1)[k]
    <2>1. \A k \in 1 .. 2 : /\ k \in Nat \ {0}
                            /\ k <= 2 + Len(sent[n + 1].data)
                            /\ starts[n + 1] + k <= Len(wire)
      <3>1. PICK a, b, c : a = starts[n + 1] /\ b = Len(sent[n + 1].data) /\ c = Len(wire)
        OBVIOUS
      <3>2. a \in Nat /\ b \in Nat /\ c \in Nat /\ a + 2 <= c
        BY <1>1, <1>2, <1>3, <3>1
      <3>3. \A k \in 1 .. 2 : k \in Nat \ {0} /\ k <= 2 + b /\ a + k <= c  BY <3>2
      <3> QED  BY <3>1, <3>3
    <2>2. \A k \in 1 .. 2 : wire[starts[n + 1] + k] = Frame(n + 1)[k]
      BY <1>1, <1>3, <2>1 DEF Whole, WrittenInv
    <2> QED  BY <1>1, <1>3, <2>2
  <1>5. /\ Frame(n + 1)[1] = Magic
        /\ Frame(n + 1)[2] = Rest(sent[n + 1].from, Len(sent[n + 1].data))
    BY <1>1, <1>3, SentIs DEF Whole
  <1>6. \A q \in Readers : q # r => ~InPacket(q)  BY <1>0 DEF Whole, ReadInv
  <1> QED  BY <1>0, <1>2, <1>3, <1>4, <1>5, <1>6

LEMMA CheckHeaderInv ==
    ASSUME Whole, NEW r \in Readers, NEW h \in Headers, CheckHeader(r, h)
    PROVE  WrittenInv' /\ ReadInv'
  <1>n. PICK n \in Nat : n = Len(received)  BY LenProperties DEF Whole, TypeOK
  <1>0. reader[r] = "header" /\ Len(got[r]) = 2  BY DEF CheckHeader
  <1>h. /\ n < Len(sent) /\ got[r][1] = Magic
        /\ got[r][2] = Rest(sent[n + 1].from, Len(sent[n + 1].data))
        /\ taken = End(n) + 2
        /\ InPacket(r) /\ \A q \in Readers : q # r => ~InPacket(q)
    BY <1>n, <1>0, HeaderIs
  <1>1. /\ got[r][2].kind = "rest" => h = got[r][2]
        /\ header' = [header EXCEPT ![r] = h]
        /\ reader' = [reader EXCEPT ![r] = "body"]
        /\ got' = [got EXCEPT ![r] = <<>>]
        /\ UNCHANGED <<config, wire, taken, closed, sending, received>>
    BY <1>h DEF CheckHeader, Magic
  <1>2. /\ n < Len(sent)
        /\ h = Rest(sent[n + 1].from, Len(sent[n + 1].data))
    BY <1>1, <1>h DEF Rest
  <1>3. /\ n \in 0 .. Len(sent) /\ Len(sent) \in Nat /\ End(n) \in Nat
        /\ n + 1 \in 1 .. Len(sent) /\ Len(sent[n + 1].data) \in Nat
    BY <1>n, <1>2, Position
  <1>5. WrittenInv'  BY <1>1, WrittenInvStays
  <1>6. ReadInv'
    <2>1. /\ reader'[r] = "body" /\ header'[r] = h /\ got'[r] = <<>>
          /\ \A q \in Readers : q # r => reader'[q] = reader[q] /\ got'[q] = got[q]
      BY <1>1 DEF Whole, TypeOK
    <2>2. Len(got'[r]) = 0  BY <2>1, EmptySeq
    <2>4. UNCHANGED <<wire, sent, starts, taken, received>> /\ End(n)' = End(n)
      BY <1>1 DEF sending, End
    <2>5. /\ \A i \in 1 .. n : received[i] = sent[i]
          /\ n <= Len(sent)
      BY <1>n, <1>3 DEF Whole, ReadInv
    <2>6. At(r, End(n) + 2)'
      <3>1. End(n) + 2 \in Nat  BY <1>3
      <3> QED  BY <1>h, <2>2, <2>4, <3>1 DEF At
    <2>7. \A q \in Readers : q # r => ~InPacket(q)' /\ reader'[q] # "body" /\ got'[q] = <<>>
      BY <1>h, <2>1 DEF InPacket
    <2>8. InPacket(r)'  BY <2>1 DEF InPacket
    <2> QED  BY <1>n, <1>2, <1>3, <2>1, <2>2, <2>4, <2>5, <2>6, <2>7, <2>8 DEF ReadInv
  <1> QED  BY <1>5, <1>6

\* A complete payload decrypts to the next packet's.
LEMMA BodyIs ==
    ASSUME Whole, NEW r \in Readers, NEW n \in Nat, n = Len(received), Deliver(r)
    PROVE  /\ n < Len(sent)
           /\ taken = End(n + 1)
           /\ received' = Append(received, sent[n + 1])
  <1>n. n \in 0 .. Len(sent) /\ Len(sent) \in Nat /\ End(n) \in Nat
    BY Position
  <1>1. /\ n < Len(sent)
        /\ header[r] = Rest(sent[n + 1].from, Len(sent[n + 1].data))
        /\ taken = End(n) + 2 + Len(got[r])
        /\ \A k \in 1 .. Len(got[r]) : got[r][k] = wire[End(n) + 2 + k]
    BY <1>n DEF Whole, ReadInv, Deliver, At
  <1>2. /\ n + 1 \in 1 .. Len(sent) /\ n + 1 \in 0 .. Len(sent) /\ n + 1 > 0
        /\ starts[n + 1] = End(n)
    <2>1. n + 1 \in 1 .. Len(sent) /\ starts[n + 1] = End(n)  BY <1>1, Position
    <2> QED  BY <1>n, <2>1
  <1>l. PICK l \in Nat : l = Len(sent[n + 1].data)  BY <1>1, Position
  <1>3. Len(got[r]) = l  BY <1>1, <1>l DEF Deliver, Wanted, Rest
  <1>4. End(n + 1) = End(n) + 2 + l  BY <1>2, <1>l, EndIs DEF Whole
  <1>5. taken = End(n + 1)  BY <1>1, <1>3, <1>4
  <1> DEFINE enc == crypto_encrypt(sent[n + 1].data, type, key)
             body == [i \in 1 .. Len(got[r]) |-> got[r][i].v % N]
  <1>6. /\ sent[n + 1].from \in Writers /\ sent[n + 1].data \in Payload
        /\ sent[n + 1].data \in Seq(Byte) /\ key \in Seq(Byte)
        /\ sent[n + 1] = [from |-> sent[n + 1].from, data |-> sent[n + 1].data]
    <2>1. sent[n + 1] \in [from : Writers, data : Payload]
      BY <1>2, ElementOfSeq DEF Whole, TypeOK
    <2> QED  BY <2>1, WireAssumption DEF Whole, TypeOK
  <1>7. /\ enc \in Seq(Byte) /\ Len(enc) = l
        /\ crypto_decrypt(enc, type, key) = sent[n + 1].data
    <2>1. type \in Types  BY DEF Whole, TypeOK
    <2> QED  BY <1>l, <1>6, <2>1, RoundTrip
  <1> HIDE DEF enc
  <1>8. ASSUME NEW i \in 1 .. l  PROVE got[r][i].v % N = enc[i]
    <2>1. got[r][i] = wire[starts[n + 1] + (2 + i)]
      <3>1. End(n) + 2 + i = End(n) + (2 + i)  BY <1>n
      <3> QED  BY <1>1, <1>2, <1>3, <3>1
    <2>2. 2 + i \in Nat \ {0} /\ 2 + i <= 2 + l /\ starts[n + 1] + (2 + i) <= Len(wire)
      <3>1. taken <= Len(wire) /\ Len(wire) \in Nat /\ taken = End(n) + 2 + l
        BY <1>4, <1>5, Position
      <3> QED  BY <1>n, <1>2, <3>1
    <2>3. got[r][i] = Frame(n + 1)[2 + i]
      BY <1>2, <1>l, <2>1, <2>2 DEF Whole, WrittenInv
    <2>4. Frame(n + 1)[2 + i] = Unit(enc[i])  BY <1>2, <1>l, SentIs DEF Whole, enc
    <2>5. enc[i] \in Byte  BY <1>7, ElementOfSeq
    <2>6. enc[i] % N = enc[i]  BY <2>5, CipherAssumption, ModAdd DEF Byte
    <2> QED  BY <2>3, <2>4, <2>6 DEF Unit
  <1>9. body = enc
    <2>1. body = [i \in 1 .. l |-> enc[i]]  BY <1>3, <1>8
    <2>2. enc = [i \in 1 .. l |-> enc[i]]  BY <1>7, LenProperties
    <2> QED  BY <2>1, <2>2
  <1>10. received' = Append(received,
             [from |-> header[r].from, data |-> crypto_decrypt(body, type, key)])
    BY DEF Deliver
  <1>11. header[r].from = sent[n + 1].from  BY <1>1 DEF Rest
  <1> HIDE DEF body
  <1>12. [from |-> header[r].from, data |-> crypto_decrypt(body, type, key)] = sent[n + 1]
    BY <1>6, <1>7, <1>9, <1>11
  <1> QED  BY <1>1, <1>5, <1>10, <1>12

LEMMA DeliverInv ==
    ASSUME Whole, NEW r \in Readers, Deliver(r)
    PROVE  WrittenInv' /\ ReadInv'
  <1>n. PICK n \in Nat : n = Len(received)  BY LenProperties DEF Whole, TypeOK
  <1>1. /\ n < Len(sent) /\ taken = End(n + 1)
        /\ received' = Append(received, sent[n + 1])
    BY <1>n, BodyIs
  <1>2. /\ reader[r] = "body"
        /\ reader' = [reader EXCEPT ![r] = "header"]
        /\ got' = [got EXCEPT ![r] = <<>>]
        /\ UNCHANGED <<config, wire, taken, closed, sending, header>>
    BY DEF Deliver
  <1>3. /\ n \in 0 .. Len(sent) /\ Len(sent) \in Nat
        /\ n + 1 \in 1 .. Len(sent)
        /\ received \in Seq([from : Writers, data : Seq(Byte)])
    BY <1>n, <1>1, Position
  <1>4. sent[n + 1] \in [from : Writers, data : Seq(Byte)]
    <2>1. sent[n + 1] \in [from : Writers, data : Payload]
      BY <1>3, ElementOfSeq DEF Whole, TypeOK
    <2> QED  BY <2>1, WireAssumption
  <1>5. /\ Len(received') = n + 1
        /\ \A i \in 1 .. n : received'[i] = received[i]
        /\ received'[n + 1] = sent[n + 1]
    BY <1>n, <1>1, <1>3, <1>4, AppendProperties
  <1>7. WrittenInv'  BY <1>2, WrittenInvStays
  <1>8. ReadInv'
    <2>1. /\ reader'[r] = "header" /\ got'[r] = <<>>
          /\ \A q \in Readers : q # r => reader'[q] = reader[q] /\ got'[q] = got[q]
      BY <1>2 DEF Whole, TypeOK
    <2>2. \A q \in Readers : q # r => ~InPacket(q)
      BY <1>2 DEF Whole, ReadInv, InPacket
    <2>3. \A q \in Readers : ~InPacket(q)' /\ got'[q] = <<>> /\ reader'[q] # "body"
      BY <2>1, <2>2 DEF InPacket
    <2>4. UNCHANGED <<wire, sent, starts, taken>> /\ End(n + 1)' = End(n + 1)
      BY <1>2 DEF sending, End
    <2>5. \A i \in 1 .. n + 1 : received'[i] = sent[i]
      <3>1. \A i \in 1 .. n : received[i] = sent[i]  BY <1>n DEF Whole, ReadInv
      <3> QED  BY <1>5, <3>1
    <2>6. Len(received') = n + 1 /\ n + 1 <= Len(sent')  BY <1>3, <1>5, <2>4
    <2>7. taken' = End(n + 1)'  BY <1>1, <2>4
    <2> QED  BY <2>3, <2>4, <2>5, <2>6, <2>7 DEF ReadInv
  <1> QED  BY <1>7, <1>8

LEMMA StepIInv ==
    ASSUME IInv, [Next]_vars
    PROVE  IInv'
  <1>1. TypeOK' /\ CallsInv' /\ (mixed => mixed')  BY TypeStep DEF IInv
  <1>2. SUFFICES ASSUME ~mixed' PROVE WrittenInv' /\ ReadInv'
    BY <1>1 DEF IInv
  <1>3. Whole
    <2>1. ~mixed  BY <1>1, <1>2
    <2> QED  BY <2>1 DEF IInv, Whole
  <1>4. ASSUME NEW w \in Writers, NEW p \in Payload, Begin(w, p)
        PROVE  WrittenInv' /\ ReadInv'
    BY <1>2, <1>3, <1>4, BeginInv
  <1>5. ASSUME NEW w \in Writers, Writer(w)  PROVE WrittenInv' /\ ReadInv'
    BY <1>3, <1>5, WriteInv, WriteFailsInv DEF Writer
  <1>6. ASSUME NEW r \in Readers, Reader(r)  PROVE WrittenInv' /\ ReadInv'
    BY <1>2, <1>3, <1>6, ReadStepInv, CheckHeaderInv, FailInv, DeliverInv DEF Reader
  <1>7. CASE Close  BY <1>3, <1>7, CloseInv
  <1>8. CASE UNCHANGED vars
    <2>1. UNCHANGED <<config, wire, sending, closed, reading, taken>>
      BY <1>8 DEF vars, config, sending, reading
    <2>2. WrittenInv'  BY <1>3, <2>1, WrittenInvStays
    <2>3. Len(sent) \in Nat /\ Len(wire) \in Nat  BY <1>3 DEF Whole, TypeOK
    <2>4. ReadInv'  BY <1>3, <2>1, <2>3, ReadInvStays DEF sending
    <2> QED  BY <2>2, <2>4
  <1> QED  BY <1>4, <1>5, <1>6, <1>7, <1>8 DEF Next

-----------------------------------------------------------------------------
(* The theorems                                                            *)

LEMMA Invariance == Spec => []IInv
  <1>1. Init => IInv  BY InitIInv
  <1>2. IInv /\ [Next]_vars => IInv'  BY StepIInv
  <1> QED  BY <1>1, <1>2, PTL DEF Spec

\* Units, buffers and program counters keep their types, however calls overlap
\* and garble the stream.
THEOREM TypeCorrect == Spec => []TypeOK
  <1>1. IInv => TypeOK  BY DEF IInv
  <1> QED  BY <1>1, Invariance, PTL

\* Packets are received as they were sent, decrypted, once and in order, as
\* long as no calls overlap that no mutex keeps apart.
THEOREM PacketsIntact == Spec => []Intact
  <1>1. IInv => Intact  BY DEF IInv, ReadInv, Intact
  <1> QED  BY <1>1, Invariance, PTL

\* The queue and the packets delivered, as ChannelOf takes them.
Queue == SubSeq(sent, Len(received) + 1, Len(sent))
Packets == [from : Writers, data : Payload]

LEMMA QueueIs ==
    ASSUME Whole
    PROVE  \A n \in Nat : n = Len(received) =>
              /\ sent \in Seq(Packets)
              /\ n \in 0 .. Len(sent) /\ Len(sent) \in Nat
              /\ Queue = SubSeq(sent, n + 1, Len(sent))
              /\ Queue \in Seq(Packets)
              /\ Len(Queue) = Len(sent) - n
              /\ \A i \in 1 .. Len(sent) - n : Queue[i] = sent[n + i]
  <1> TAKE n \in Nat
  <1>n. HAVE n = Len(received)
  <1>1. sent \in Seq(Packets) /\ Len(sent) \in Nat
    BY DEF Whole, TypeOK, Packets
  <1>2. n \in 0 .. Len(sent)  BY <1>n, <1>1 DEF Whole, ReadInv
  <1>3. PICK m \in Nat : m = Len(sent)  BY <1>1
  <1>4. n <= m /\ m <= Len(sent)  BY <1>2, <1>3
  <1>5. /\ SubSeq(sent, n + 1, m) \in Seq(Packets)
        /\ Len(SubSeq(sent, n + 1, m)) = m - n
        /\ \A i \in 1 .. m - n : SubSeq(sent, n + 1, m)[i] = sent[n + i]
    BY <1>1, <1>4, PartAfter
  <1>6. Queue = SubSeq(sent, n + 1, m)  BY <1>n, <1>3 DEF Queue
  <1> QED  BY <1>1, <1>2, <1>3, <1>5, <1>6

LEMMA BeginSends ==
    ASSUME Whole, NEW w \in Writers, NEW p \in Payload, Begin(w, p)
    PROVE  /\ ~closed /\ UNCHANGED closed
           /\ Queue' = Append(Queue, [from |-> w, data |-> p])
           /\ UNCHANGED received
  <1> DEFINE packet == [from |-> w, data |-> p]
  <1>n. PICK n \in Nat : n = Len(received)  BY LenProperties DEF Whole, TypeOK
  <1>1. /\ ~closed /\ sent' = Append(sent, packet) /\ UNCHANGED <<closed, received>>
    BY DEF Begin, reading
  <1>2. /\ sent \in Seq(Packets)
        /\ n \in 0 .. Len(sent) /\ Len(sent) \in Nat
        /\ Queue = SubSeq(sent, n + 1, Len(sent))
    BY <1>n, QueueIs
  <1>3. PICK m \in Nat : m = Len(sent)  BY <1>2
  <1>4. packet \in Packets  BY DEF Packets
  <1>5. /\ sent' \in Seq(Packets)
        /\ Len(sent') = m + 1
        /\ \A i \in 1 .. m : sent'[i] = sent[i]
        /\ sent'[m + 1] = packet
    BY <1>1, <1>2, <1>3, <1>4, AppendProperties
  <1>6. Queue' = SubSeq(sent', n + 1, m + 1)  BY <1>n, <1>1, <1>5 DEF Queue
  <1>7. SubSeq(sent', n + 1, m + 1) = SubSeq(sent', n + 1, m) \o <<packet>>
    <2>1. n + 1 \in 1 .. Len(sent') /\ m + 1 \in n + 1 .. Len(sent') /\ (m + 1) - 1 = m
      BY <1>2, <1>3, <1>5
    <2> QED  BY <1>5, <2>1, SubSeqRecursiveSecond
  <1>8. SubSeq(sent', n + 1, m) = SubSeq(sent, n + 1, m)
    <2>1. n <= m /\ m <= Len(sent) /\ m <= Len(sent')  BY <1>2, <1>3, <1>5
    <2> DEFINE old == SubSeq(sent, n + 1, m)
               new == SubSeq(sent', n + 1, m)
    <2>2. /\ old \in Seq(Packets) /\ Len(old) = m - n
          /\ \A i \in 1 .. m - n : old[i] = sent[n + i]
      BY <1>2, <2>1, PartAfter
    <2>3. /\ new \in Seq(Packets) /\ Len(new) = m - n
          /\ \A i \in 1 .. m - n : new[i] = sent'[n + i]
      BY <1>5, <2>1, PartAfter
    <2> HIDE DEF old, new
    <2>4. \A i \in 1 .. m - n : n + i \in 1 .. m  OBVIOUS
    <2>5. \A i \in 1 .. m - n : new[i] = old[i]
      BY <1>5, <2>2, <2>3, <2>4
    <2>6. new = old  BY <2>2, <2>3, <2>5, SeqEqual
    <2> QED  BY <2>6 DEF old, new
  <1>9. SubSeq(sent, n + 1, m) \o <<packet>> = Append(SubSeq(sent, n + 1, m), packet)
    <2>1. SubSeq(sent, n + 1, m) \in Seq(Packets)
      BY <1>n, <1>2, <1>3, QueueIs
    <2> QED  BY <1>4, <2>1, AppendIsConcat
  <1> QED  BY <1>1, <1>2, <1>3, <1>6, <1>7, <1>8, <1>9

LEMMA DeliverDelivers ==
    ASSUME Whole, NEW r \in Readers, Deliver(r)
    PROVE  /\ Queue # <<>>
           /\ received' = Append(received, Head(Queue))
           /\ Queue' = Tail(Queue)
           /\ UNCHANGED <<closed, mixed>>
  <1>n. PICK n \in Nat : n = Len(received)  BY LenProperties DEF Whole, TypeOK
  <1>1. /\ n < Len(sent)
        /\ received' = Append(received, sent[n + 1])
        /\ UNCHANGED <<sent, closed, mixed>>
    BY <1>n, BodyIs DEF Deliver, sending
  <1>2. received \in Seq([from : Writers, data : Seq(Byte)])
    BY <1>n, Position
  <1>3. /\ sent \in Seq(Packets)
        /\ n \in 0 .. Len(sent) /\ Len(sent) \in Nat
        /\ Queue = SubSeq(sent, n + 1, Len(sent))
    BY <1>n, QueueIs
  <1>4. n + 1 \in 1 .. Len(sent) /\ Len(sent) \in n + 1 .. Len(sent)  BY <1>1, <1>3
  <1>5. /\ Head(Queue) = sent[n + 1]
        /\ Tail(Queue) = SubSeq(sent, n + 1 + 1, Len(sent))
    BY <1>3, <1>4, HeadTailOfSubSeq
  <1>6. Queue # <<>>
    <2>1. Len(Queue) = Len(sent) - n  BY <1>n, QueueIs
    <2>2. Len(<<>>) = 0  BY EmptySeq
    <2>3. PICK m \in Nat : m = Len(sent) /\ n < m  BY <1>1, <1>3
    <2>4. Len(Queue) = m - n /\ m - n # 0  BY <2>1, <2>3
    <2> QED  BY <2>2, <2>4
  <1>8. Len(received') = n + 1
    <2>1. sent[n + 1] \in [from : Writers, data : Seq(Byte)]
      <3>1. sent[n + 1] \in Packets
        BY <1>3, <1>4, ElementOfSeq
      <3> QED  BY <3>1, WireAssumption DEF Packets
    <2> QED  BY <1>n, <1>1, <1>2, <2>1, AppendProperties
  <1>9. Queue' = SubSeq(sent, n + 1 + 1, Len(sent))
    BY <1>1, <1>8 DEF Queue
  <1> QED  BY <1>1, <1>5, <1>6, <1>9

\* Every step of the two functions is a step of the channel, or none of its; a
\* step that lets calls overlap breaks it, and every step is one of a broken one.
LEMMA ChannelStep ==
    ASSUME IInv, [Next]_vars
    PROVE  [ChannelOf!Next]_<<Queue, received, ~closed, mixed>>
  <1>c. closed => closed'
    BY DEF Next, Begin, Writer, Write, WriteFails, Reader, Read, CheckHeader, ReadFails,
           Deliver, Close, vars
  <1>b. mixed \in BOOLEAN /\ mixed' \in BOOLEAN /\ (mixed => mixed')
    BY TypeStep DEF IInv, TypeOK
  <1>1. CASE mixed' = TRUE
    <2>1. ChannelOf!Break  BY <1>1, <1>c DEF ChannelOf!Break
    <2> QED  BY <2>1 DEF ChannelOf!Next
  <1>2. CASE mixed' # TRUE
    <2>0. mixed = FALSE /\ mixed' = FALSE /\ Whole  BY <1>b, <1>2 DEF IInv, Whole
    <2>1. ASSUME NEW w \in Writers, NEW p \in Payload, Begin(w, p)
          PROVE  ChannelOf!Next
      <3> DEFINE packet == [from |-> w, data |-> p]
      <3>1. /\ ~closed /\ UNCHANGED closed
            /\ Queue' = Append(Queue, packet)
            /\ UNCHANGED received
        BY <2>0, <2>1, BeginSends
      <3>2. ChannelOf!Send(packet)  BY <2>0, <3>1 DEF ChannelOf!Send, Queue
      <3>3. packet \in Packets  BY DEF Packets
      <3> QED  BY <3>2, <3>3 DEF ChannelOf!Next, Packets
    <2>2. ASSUME NEW r \in Readers, Deliver(r)
          PROVE  ChannelOf!Next
      <3>1. /\ Queue # <<>>
            /\ received' = Append(received, Head(Queue))
            /\ Queue' = Tail(Queue)
            /\ UNCHANGED <<closed, mixed>>
        BY <2>0, <2>2, DeliverDelivers
      <3>2. ChannelOf!Deliver  BY <3>1 DEF ChannelOf!Deliver, Queue
      <3> QED  BY <3>2 DEF ChannelOf!Next
    <2>3. CASE Close
      <3>1. ChannelOf!Close  BY <2>3 DEF Close, sending, reading, ChannelOf!Close
      <3> QED  BY <3>1 DEF ChannelOf!Next
    <2>4. ASSUME UNCHANGED <<sent, received, closed>>
          PROVE  UNCHANGED <<Queue, received, ~closed, mixed>>
      BY <2>0, <2>4 DEF Queue
    <2>5. ASSUME NEW w \in Writers, Writer(w)
          PROVE  UNCHANGED <<sent, received, closed>>
      BY <2>5 DEF Writer, Write, WriteFails, reading
    <2>6. ASSUME NEW r \in Readers, Reader(r), ~Deliver(r)
          PROVE  UNCHANGED <<sent, received, closed>>
      BY <2>6 DEF Reader, Read, ReadFails, CheckHeader, sending
    <2>7. CASE UNCHANGED vars  BY <2>4, <2>7 DEF vars
    <2> QED  BY <2>1, <2>2, <2>3, <2>4, <2>5, <2>6, <2>7 DEF Next
  <1> QED  BY <1>1, <1>2

\* Whoever sends and receives, and whoever locks: the two functions implement
\* Channel.
THEOREM Implements == Spec => ImplementsChannel
  <1>1. Init => ChannelOf!Init
    BY DEF Init, ChannelOf!Init
  <1>2. IInv /\ [Next]_vars => [ChannelOf!Next]_<<Queue, received, ~closed, mixed>>
    BY ChannelStep
  <1>3. Spec => []IInv  BY Invariance
  <1> QED  BY <1>1, <1>2, <1>3, PTL DEF Spec, ImplementsChannel, ChannelOf!Spec, ChannelOf!vars, Queue
=============================================================================
