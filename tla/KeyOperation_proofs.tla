------------------------ MODULE KeyOperation_proofs ------------------------
(***************************************************************************)
(* Proofs about KeyOperation, for keys of any size, salts and data of any  *)
(* length and any width of the machine's words.                            *)
(***************************************************************************)
EXTENDS KeyOperation, TLAPS

-----------------------------------------------------------------------------
\* Unsigned arithmetic.

\* A remainder is no larger than the number, whatever the word.
LEMMA RemainderIsSmaller ==
    ASSUME NEW a \in Nat, NEW w \in Nat, w > 0
    PROVE  a % w \in Nat /\ a % w <= a /\ a % w < w
<1>1. CASE a < w
  <2>1. a % w = a
    BY <1>1
  <2> QED
    BY <2>1, <1>1
<1>2. CASE a >= w
  <2>1. a % w \in 0..(w - 1)
    BY Z3
  <2> QED
    BY <1>2, <2>1
<1> QED
  BY <1>1, <1>2

\* The length of RSA_PSS's encoded message, in arithmetic that wraps at a key of no
\* bits, is at most the (modBits - 1 + 7) / 8 bytes that it stands for.
LEMMA EmLengthIsBounded ==
    ASSUME Parameters, keyBits \in KeyBits
    PROVE  EmLength \in Nat /\ EmLength <= (keyBits + 6) \div 8
<1> DEFINE less == (keyBits + Word - 1) % Word
           more == (less + 7) % Word
<1>1. keyBits \in Nat /\ Word \in Nat /\ Word > 1024 /\ keyBits < Word
  BY DEF Parameters
<1>2. less \in Nat /\ less < Word
  BY <1>1, RemainderIsSmaller
<1>3. CASE keyBits = 0
  <2>1. less = Word - 1
    BY <1>1, <1>3
  <2>2. more = 6
    <3>1. less + 7 = Word + 6
      BY <1>1, <2>1
    <3>2. (Word + 6) % Word = 6
      BY <1>1
    <3> QED
      BY <3>1, <3>2
  <2> QED
    BY <1>3, <2>2 DEF EmLength
<1>4. CASE keyBits > 0
  <2>1. less = keyBits - 1
    BY <1>1, <1>4
  <2>2. more \in Nat /\ more <= keyBits + 6
    <3>1. less + 7 = keyBits + 6 /\ less + 7 \in Nat
      BY <1>1, <1>4, <2>1
    <3> HIDE DEF less
    <3> QED
      BY <1>1, <3>1, RemainderIsSmaller
  <2>3. EmLength = more \div 8
    BY DEF EmLength
  <2> HIDE DEF more
  <2> QED
    BY <1>1, <2>2, <2>3
<1> QED
  BY <1>1, <1>3, <1>4

-----------------------------------------------------------------------------
\* The state of the module and of the wire.

LEMMA LengthsAreNumbers ==
    /\ \A h \in Hash : HashLength[h] \in Nat /\ DigestInfoLength[h] \in Nat
    /\ \A r : r.hash \in Hash /\ r.salt \in Nat \cup {None} => Salt(r) \in Nat
BY DEF Hash, HashLength, DigestInfoLength, Salt

\* A hash that sign_perform may name is one, and has as many bytes as the digest.
LEMMA HashesAreHashes ==
    ASSUME Parameters, sign \in Signature, sign.local => sign.hash \in Hash, NEW n \in Nat,
           NEW h \in HashesFor(n)
    PROVE  /\ h \in Hash
           /\ ~sign.local /\ sign.family # "RSA_PKCS1_V1_5" => HashLength[h] = n
BY DEF HashesFor, Signature, Family

LEMMA SignRequestIsRequest ==
    ASSUME sign \in Signature, NEW n \in Nat, NEW h \in Hash
    PROVE  SignRequest(h, n) \in Request
BY LengthsAreNumbers DEF SignRequest, Signature, Request, Family

\* A signature under way that C_SignInit may have left.
SignFits ==
    sign # None =>
        /\ TypeFits(sign)
        /\ sign.local => sign.hash \in Hash
        /\ sign.family = "RSA_PSS" => sign.salt \in 0..(Word - 1)

IInv == TypeOK /\ SignFits /\ RequestsAreWellFormed /\ OneRequestPerSign

LEMMA InitIsGood == ASSUME Parameters, Init PROVE IInv
BY DEF Init, IInv, TypeOK, SignFits, RequestsAreWellFormed, OneRequestPerSign, Parameters

LEMMA SignInitIsGood ==
    ASSUME Parameters, IInv, NEW f \in Family, NEW h \in Hash \cup {None},
           NEW p \in PssParameters, SignInit(f, h, p)
    PROVE  IInv'
<1> DEFINE new == [family |-> f, local |-> h # None,
                   hash |-> IF f = "RSA_PSS" THEN p.hash ELSE h,
                   salt |-> IF f = "RSA_PSS" THEN p.salt ELSE None, len |-> 0]
<1>1. /\ sign' = new /\ sent' = 0
      /\ keyType' = keyType /\ keyBits' = keyBits /\ decrypt' = decrypt
      /\ wire' = wire /\ spent' = spent
  BY DEF SignInit
<1>2. p.hash \in Hash /\ p.salt \in Nat
  BY DEF PssParameters, Parameters
<1>3. new \in Signature
  BY <1>2 DEF Signature
<1>4. TypeOK'
  BY <1>1, <1>3 DEF IInv, TypeOK
<1>5. f = "RSA_PSS" => p.salt \in 0..(Word - 1)
  BY <1>2 DEF SignInit, SetupAccepts, Parameters
<1>6. new.local => new.hash \in Hash
  BY <1>2
<1>7. TypeFits(new)
  BY DEF SignInit, SetupAccepts, TypeFits
<1>8. SignFits'
  BY <1>1, <1>5, <1>6, <1>7 DEF SignFits, TypeFits
<1> QED
  BY <1>1, <1>4, <1>8 DEF IInv, RequestsAreWellFormed, OneRequestPerSign, TypeFits, SizeFits,
     ExpectedInput

\* sign_finish: one request goes out, or none, and the operation ends.
LEMMA SignFinishIsGood ==
    ASSUME Parameters, IInv, sign # None, NEW n \in Nat, SignFinish(n),
           UNCHANGED <<keyType, keyBits, decrypt>>
    PROVE  IInv'
<1>1. sign \in Signature /\ sign' = None /\ sent = 0
  BY DEF IInv, TypeOK, OneRequestPerSign, SignFinish
<1>2. SignFits'
  BY <1>1 DEF SignFits
<1>3. CASE UNCHANGED <<wire, sent, spent>>
  BY <1>1, <1>2, <1>3 DEF IInv, TypeOK, RequestsAreWellFormed, OneRequestPerSign, TypeFits,
     SizeFits, ExpectedInput
<1>4. ASSUME NEW h \in HashesFor(n), Send(SignRequest(h, n)) PROVE IInv'
  <2> DEFINE r == SignRequest(h, n)
  <2>1. h \in Hash /\ (~sign.local /\ sign.family # "RSA_PKCS1_V1_5" => HashLength[h] = n)
    BY <1>1, HashesAreHashes DEF IInv, SignFits
  <2>2. r \in Request
    BY <1>1, <2>1, SignRequestIsRequest
  <2>3. wire' = r /\ sent' = 1
    BY <1>1, <1>4 DEF Send
  <2>4. spent' \in 0..Budget
    BY <1>4 DEF Send, Charged, IInv, TypeOK, Parameters
  <2>5. TypeOK'
    BY <1>1, <2>2, <2>3, <2>4 DEF IInv, TypeOK
  <2>6. r.family = sign.family /\ r.hash = h /\ r.size = HashLength[h] /\ r.salt = sign.salt
    BY <2>1 DEF SignRequest
  <2>7. r.family # "RSA_OAEP"
    BY <1>1, <2>6 DEF Signature, Family
  <2>8. r.family = "RSA_PSS" => r.mgf = r.hash
    BY DEF SignRequest
  <2> HIDE DEF r
  <2>9. RequestsAreWellFormed'
    BY <1>1, <2>3, <2>6, <2>7, <2>8
       DEF IInv, SignFits, RequestsAreWellFormed, TypeFits, SizeFits, ExpectedInput
  <2> QED
    BY <1>1, <1>2, <2>3, <2>5, <2>9 DEF IInv, OneRequestPerSign
<1> QED
  BY <1>3, <1>4 DEF SignFinish

LEMMA DecryptIsGood ==
    ASSUME Parameters, IInv, NEW n \in Nat, Decrypt(n)
    PROVE  IInv'
<1> DEFINE r == [op |-> "decrypt", family |-> "RSA_OAEP", hash |-> decrypt, mgf |-> decrypt,
                 salt |-> None, size |-> n]
<1>1. /\ decrypt \in Hash
      /\ wire' = r /\ sent' = sent
      /\ keyType' = keyType /\ keyBits' = keyBits /\ sign' = sign
  BY DEF Decrypt, IInv, TypeOK
<1>2. r \in Request
  BY <1>1 DEF Request
<1>3. spent' \in 0..Budget /\ decrypt' \in Hash \cup {None}
  BY <1>1 DEF Decrypt, Charged, IInv, TypeOK, Parameters
<1>4. TypeOK'
  BY <1>1, <1>2, <1>3 DEF IInv, TypeOK
<1>5. wire'.op = "decrypt"
  BY <1>1
<1> QED
  BY <1>1, <1>4, <1>5 DEF IInv, SignFits, RequestsAreWellFormed, OneRequestPerSign, TypeFits

LEMMA StepIsGood ==
    ASSUME Parameters, IInv, [Next]_vars
    PROVE  IInv'
<1> USE DEF IInv
<1>1. ASSUME NEW f \in Family, NEW h \in Hash \cup {None}, NEW p \in PssParameters,
             SignInit(f, h, p)
      PROVE  IInv'
  BY <1>1, SignInitIsGood
<1>2. ASSUME NEW n \in Chunks, SignUpdate(n) PROVE IInv'
  <2>1. n \in Nat /\ sign \in Signature
    BY <1>2 DEF Parameters, SignUpdate, TypeOK
  <2>2. CASE sign' = None
    BY <1>2, <2>2 DEF SignUpdate, TypeOK, SignFits, RequestsAreWellFormed, OneRequestPerSign,
       TypeFits, SizeFits, ExpectedInput
  <2>3. CASE sign' = [sign EXCEPT !.len = Fed(n)]
    <3>1. Fed(n) \in Nat
      BY <2>1 DEF Fed, Signature
    <3>2. /\ sign' \in Signature /\ sign'.family = sign.family /\ sign'.local = sign.local
          /\ sign'.hash = sign.hash /\ sign'.salt = sign.salt
      BY <2>1, <2>3, <3>1 DEF Signature
    <3>3. SignFits'
      BY <1>2, <3>2 DEF SignUpdate, SignFits, TypeFits
    <3> QED
      BY <1>2, <3>2, <3>3 DEF SignUpdate, TypeOK, RequestsAreWellFormed, OneRequestPerSign,
         TypeFits, SizeFits, ExpectedInput
  <2> QED
    BY <1>2, <2>2, <2>3 DEF SignUpdate
<1>3. ASSUME NEW n \in Chunks, Sign(n) PROVE IInv'
  <2>1. n \in Nat /\ sign \in Signature
    BY <1>3 DEF Parameters, Sign, TypeOK
  <2>2. Fed(n) \in Nat
    BY <2>1 DEF Fed, Signature
  <2>3. CASE Fits(n)
    BY <1>3, <2>2, <2>3, SignFinishIsGood DEF Sign
  <2>4. CASE ~Fits(n)
    BY <1>3, <2>4 DEF Sign, TypeOK, SignFits, RequestsAreWellFormed, OneRequestPerSign,
       TypeFits, SizeFits, ExpectedInput
  <2> QED
    BY <2>3, <2>4
<1>4. CASE SignFinal
  <2>1. sign.len \in Nat
    BY <1>4 DEF SignFinal, TypeOK, Signature
  <2> QED
    BY <1>4, <2>1, SignFinishIsGood DEF SignFinal
<1>5. ASSUME NEW h \in Hash, NEW mgf \in Hash, DecryptInit(h, mgf) PROVE IInv'
  BY <1>5 DEF DecryptInit, TypeOK, SignFits, RequestsAreWellFormed, OneRequestPerSign,
     TypeFits, SizeFits, ExpectedInput
<1>6. ASSUME NEW n \in Nat, Decrypt(n) PROVE IInv'
  BY <1>6, DecryptIsGood
<1>7. CASE UNCHANGED vars
  BY <1>7 DEF vars, TypeOK, SignFits, RequestsAreWellFormed, OneRequestPerSign, TypeFits,
     SizeFits, ExpectedInput
<1> QED
  BY <1>1, <1>2, <1>3, <1>4, <1>5, <1>6, <1>7 DEF Next

-----------------------------------------------------------------------------
\* Every request that the PKCS#11 module sends for a signature (portal_client_sign
\* in sign_perform) is one that the broker's parser takes but for the key's size.
THEOREM RequestsAreAlwaysWellFormed == ASSUME Parameters PROVE Spec => []RequestsAreWellFormed
<1>1. Init => IInv
  BY InitIsGood
<1>2. IInv /\ [Next]_vars => IInv'
  BY StepIsGood
<1>3. IInv => RequestsAreWellFormed
  BY DEF IInv
<1> QED
  BY <1>1, <1>2, <1>3, PTL DEF Spec

\* After C_SignInit, C_Sign and C_SignFinal ask the portal for one signature.
THEOREM SignsOnce == ASSUME Parameters PROVE Spec => []OneRequestPerSign
<1>1. Init => IInv
  BY InitIsGood
<1>2. IInv /\ [Next]_vars => IInv'
  BY StepIsGood
<1>3. IInv => OneRequestPerSign
  BY DEF IInv
<1> QED
  BY <1>1, <1>2, <1>3, PTL DEF Spec

\* The length tests of certificate_mechanism_parse are sound: what they accept the
\* key's modulus can hold, for any salt and any width of the unsigned arithmetic.
THEOREM AcceptedAlwaysFits == ASSUME Parameters PROVE Spec => []AcceptedFitsModulus
<1>1. Init => IInv
  BY InitIsGood
<1>2. IInv /\ [Next]_vars => IInv'
  BY StepIsGood
<1>3. IInv => AcceptedFitsModulus
  <2> SUFFICES ASSUME IInv, wire # None, Accepted(wire) PROVE AcceptedFitsModulus
    BY DEF AcceptedFitsModulus
  <2>1. wire \in Request /\ keyBits \in KeyBits /\ keyBits \in Nat
    BY DEF IInv, TypeOK, Parameters
  <2>2. KeyFits(wire)
    BY DEF Accepted
  <2>3. /\ HashLength[wire.hash] \in Nat /\ DigestInfoLength[wire.hash] \in Nat
        /\ Salt(wire) \in Nat
    BY <2>1, LengthsAreNumbers DEF Request
  <2>4. keyBits \div 8 <= ModulusBytes
    BY <2>1 DEF ModulusBytes
  <2>5. EmLength \in Nat /\ EmLength <= (keyBits - 1 + 7) \div 8
    <3>1. keyBits - 1 + 7 = keyBits + 6
      BY <2>1
    <3> QED
      BY <2>1, <3>1, EmLengthIsBounded
  <2>6. ModulusBytes \in Nat /\ keyBits \div 8 \in Nat /\ (keyBits - 1 + 7) \div 8 \in Nat
    BY <2>1 DEF ModulusBytes
  <2>7. CASE wire.family = "RSA_PKCS1_V1_5"
    BY <2>2, <2>3, <2>4, <2>6, <2>7 DEF KeyFits, AcceptedFitsModulus
  <2>8. CASE wire.family = "RSA_PSS"
    BY <2>2, <2>3, <2>5, <2>6, <2>8 DEF KeyFits, AcceptedFitsModulus
  <2>9. CASE wire.family = "RSA_OAEP"
    BY <2>2, <2>3, <2>4, <2>6, <2>9 DEF KeyFits, AcceptedFitsModulus
  <2>10. CASE wire.family = "ECDSA"
    BY <2>10 DEF AcceptedFitsModulus
  <2> QED
    BY <2>1, <2>7, <2>8, <2>9, <2>10 DEF Request, Family
<1> QED
  BY <1>1, <1>2, <1>3, PTL DEF Spec

-----------------------------------------------------------------------------
\* DER lengths.

\* A number is made of its low byte and of the rest; one byte is its own low byte.
LEMMA BytesOfNumber ==
    ASSUME NEW n \in Int
    PROVE  n \div 256 \in Int /\ n % 256 \in 0..255 /\ n = 256 * (n \div 256) + (n % 256)
<1>1. n \div 256 \in Int
  OBVIOUS
<1>2. n % 256 \in 0..255
  OBVIOUS
<1>3. n = 256 * (n \div 256) + (n % 256)
  OBVIOUS
<1> QED
  BY <1>1, <1>2, <1>3

LEMMA LowByte == ASSUME NEW k \in 0..255 PROVE k % 256 = k
OBVIOUS

\* The reader undoes each of the three forms.
LEMMA ShortFormReads == ASSUME NEW n \in 0..127 PROVE ReadDerLength(<<n>>) = n
<1>1. <<n>>[1] = n
  OBVIOUS
<1> QED
  BY <1>1 DEF ReadDerLength

LEMMA OneByteReads == ASSUME NEW n \in 128..255 PROVE ReadDerLength(<<129, n>>) = n
<1> DEFINE b == <<129, n>>
<1>1. b[1] = 129 /\ b[2] = n /\ Len(b) = 2
  OBVIOUS
<1> HIDE DEF b
<1>2. ReadDerLength(b) = n
  BY <1>1 DEF ReadDerLength
<1> QED
  BY <1>2 DEF b

LEMMA TwoBytesRead ==
    ASSUME NEW k \in 1..255, NEW m \in 0..255
    PROVE  ReadDerLength(<<130, k, m>>) = 256 * k + m
<1> DEFINE b == <<130, k, m>>
<1>1. b[1] = 130 /\ b[2] = k /\ b[3] = m /\ Len(b) = 3
  OBVIOUS
<1> HIDE DEF b
<1>2. ReadDerLength(b) = 256 * k + m
  BY <1>1 DEF ReadDerLength
<1> QED
  BY <1>2 DEF b

\* Every length below 2^16 is written by certificate_ecdsa_raw_to_der in the minimal
\* form, the only one that a reader such as portal_der_read takes, and reads back.
THEOREM DerLengthsReadBack ==
    ASSUME NEW n \in Nat, n < 256 * 256
    PROVE  ReadDerLength(DerLength(n)) = n
<1>1. CASE n < 128
  <2>1. DerLength(n) = <<n>>
    BY <1>1, Zenon DEF DerLength
  <2>2. n \in 0..127
    BY <1>1
  <2> QED
    BY <2>1, <2>2, ShortFormReads, Zenon
<1>2. CASE ~(n < 128) /\ n <= 255
  <2>1. DerLength(n) = <<129, n>>
    BY <1>2, Zenon DEF DerLength
  <2>2. n \in 128..255
    BY <1>2
  <2> QED
    BY <2>1, <2>2, OneByteReads, Zenon
<1>3. CASE ~(n < 128) /\ ~(n <= 255)
  <2> DEFINE k == n \div 256
             m == n % 256
  <2>1. DerLength(n) = <<130, k % 256, m>>
    BY <1>3, Zenon DEF DerLength
  <2>2. k \in Int /\ m \in 0..255 /\ n = 256 * k + m
    <3>1. n \in Int
      OBVIOUS
    <3> QED
      BY <3>1, BytesOfNumber, Zenon
  <2> HIDE DEF k, m
  <2>3. k \in 1..255
    <3>1. 256 * k <= n /\ n < 256 * k + 256 /\ n < 65536 /\ n >= 256
      BY <1>3, <2>2, SMT
    <3> QED
      BY <2>2, <3>1, SMT
  <2>4. k % 256 = k
    <3>1. k \in 0..255
      BY <2>3
    <3> QED
      BY <3>1, LowByte, Zenon
  <2>5. ReadDerLength(<<130, k, m>>) = 256 * k + m
    BY <2>2, <2>3, TwoBytesRead, Zenon
  <2> QED
    BY <2>1, <2>2, <2>4, <2>5, Zenon
<1> QED
  BY <1>1, <1>2, <1>3

\* append_der_integer writes the length in one byte: right for the halves of any
\* signature of at most 252 bytes, so for every curve that a card supports.
THEOREM IntegersAreShort ==
    ASSUME NEW half \in 1..126, NEW zeros \in 0..(half - 1), NEW high \in BOOLEAN
    PROVE  DerLength(IntegerLength(half, zeros, high)) = <<IntegerLength(half, zeros, high)>>
<1> DEFINE n == IntegerLength(half, zeros, high)
<1>1. n < 128
  BY DEF IntegerLength
<1> HIDE DEF n
<1> QED
  BY <1>1, Zenon DEF DerLength, n
=============================================================================
