---------------------------- MODULE KeyOperation ----------------------------
(***************************************************************************)
(* One key, used through one PKCS#11 session: what C_SignInit,             *)
(* C_SignUpdate, C_Sign, C_SignFinal, C_DecryptInit and C_Decrypt          *)
(* (module/module.c, with the tables of module/mechanism.c) make of an     *)
(* application's calls, and what the broker at the other end of the portal *)
(* (broker/mechanism.c) makes of the requests that they send.              *)
(*                                                                         *)
(* Bytes are lengths.  A buffer as long as a DigestInfo may be one or not. *)
(* Calls that are refused and change nothing are left out; so are the      *)
(* grant's end (module ModuleGrant), labels, and the token itself, which   *)
(* may refuse what it is asked.                                            *)
(***************************************************************************)
EXTENDS Integers, Sequences

CONSTANTS
    KeyBits,    \* sizes of keys, in bits
    Word,       \* 2^32, the number of values of guint and guint32
    Salts,      \* salt lengths an application gives (CK_ULONG)
    Chunks,     \* lengths of the data an application feeds
    Budget,     \* CERTIFICATE_MAX_DECRYPTS_PER_GRANT
    None

Hash == {"SHA1", "SHA224", "SHA256", "SHA384", "SHA512"}
Family == {"RSA_PKCS1_V1_5", "RSA_PSS", "ECDSA"}

HashLength == [SHA1 |-> 20, SHA224 |-> 28, SHA256 |-> 32, SHA384 |-> 48, SHA512 |-> 64]
DigestInfoLength == [SHA1 |-> 15, SHA224 |-> 19, SHA256 |-> 19, SHA384 |-> 19, SHA512 |-> 19]
PreHashedLimit == 512

Parameters ==
    /\ KeyBits \subseteq Nat /\ Salts \subseteq Nat /\ Chunks \subseteq Nat /\ Budget \in Nat
    /\ Word \in Nat /\ Word > 1024 /\ \A b \in KeyBits : b < Word
    /\ None \notin Nat \cup Hash

VARIABLES
    keyType, keyBits,   \* the granted key
    sign,       \* the session's signature, None when sign_active is false
    decrypt,    \* the hash of its decryption, None when decrypt_active is false
    wire,       \* the last request sent to the portal
    sent,       \* requests sent since the last C_SignInit
    spent       \* session->decrypt_count in the broker

vars == <<keyType, keyBits, sign, decrypt, wire, sent, spent>>

\* A signature under way.  hash is sign_hash; of a local mechanism, the module
\* hashes the data itself and len stays 0, of others len is sign_buffer's.
Signature == [family : Family, local : BOOLEAN, hash : Hash \cup {None},
              salt : Nat \cup {None}, len : Nat]

\* What reaches the broker: mgf is the hash of MGF1, size the length of data.
Request == [op : {"sign", "decrypt"}, family : Family \cup {"RSA_OAEP"}, hash : Hash,
            mgf : Hash \cup {None}, salt : Nat \cup {None}, size : Nat]

TypeOK ==
    /\ keyType \in {"RSA", "EC"} /\ keyBits \in KeyBits
    /\ sign \in Signature \cup {None}
    /\ decrypt \in Hash \cup {None}
    /\ wire \in Request \cup {None}
    /\ sent \in Nat /\ spent \in 0..Budget

Init ==
    /\ keyType \in {"RSA", "EC"} /\ keyBits \in KeyBits
    /\ sign = None /\ decrypt = None /\ wire = None
    /\ sent = 0 /\ spent = 0

-----------------------------------------------------------------------------
\* The broker.

\* The length of a modulus, an encoded message or a ciphertext of the key
\* (RFC 8017), which the code nowhere computes for OAEP.
ModulusBytes == (keyBits + 7) \div 8

\* em_length of RSA_PSS: the sum is one of guint.
EmLength == ((((keyBits + Word - 1) % Word) + 7) % Word) \div 8

\* certificate_mechanism_parse, the tests against the key.
TypeFits(r) == (r.family = "ECDSA") = (keyType = "EC")

MgfFits(r) == r.family = "RSA_OAEP" => r.mgf \in {None, r.hash}

Salt(r) == IF r.salt = None THEN HashLength[r.hash] ELSE r.salt

KeyFits(r) ==
    CASE r.family = "RSA_PKCS1_V1_5" ->
           keyBits \div 8 >= DigestInfoLength[r.hash] + HashLength[r.hash] + 11
      [] r.family = "RSA_PSS" -> EmLength >= HashLength[r.hash] + Salt(r) + 2
      [] r.family = "RSA_OAEP" -> keyBits \div 8 >= 2 * HashLength[r.hash] + 2
      [] OTHER -> TRUE

\* certificate_mechanism_prepare: the length the mechanism expects.
ExpectedInput(r) == IF r.family = "RSA_OAEP" THEN keyBits \div 8 ELSE HashLength[r.hash]
SizeFits(r) == r.size = ExpectedInput(r)

Accepted(r) == TypeFits(r) /\ MgfFits(r) /\ KeyFits(r) /\ SizeFits(r)

\* certificate_broker_decrypt charges each accepted attempt to the grant.
Charged(r) == r.op = "decrypt" /\ Accepted(r) /\ spent < Budget

Send(r) ==
    /\ wire' = r /\ sent' = sent + 1
    /\ spent' = IF Charged(r) THEN spent + 1 ELSE spent

-----------------------------------------------------------------------------
\* Signatures in the module.

\* sign_setup.  h is the hash in the mechanism's name, None if it has none, and p
\* the parameters of PSS; the other mechanisms take none.
SetupAccepts(f, h, p) ==
    /\ (f = "ECDSA") = (keyType = "EC")
    /\ f = "RSA_PSS" => p.hash \in Hash /\ h \in {None, p.hash} /\ p.mgf = p.hash /\ p.salt < Word

SignInit(f, h, p) ==
    /\ sign = None
    /\ SetupAccepts(f, h, p)
    /\ sign' = [family |-> f, local |-> h # None,
                hash |-> IF f = "RSA_PSS" THEN p.hash ELSE h,
                salt |-> IF f = "RSA_PSS" THEN p.salt ELSE None, len |-> 0]
    /\ sent' = 0
    /\ UNCHANGED <<keyType, keyBits, decrypt, wire, spent>>

\* sign_feed: the buffer takes at most PRE_HASHED_LIMIT bytes.
Fits(n) == sign.local \/ sign.len + n <= PreHashedLimit
Fed(n) == IF sign.local THEN 0 ELSE sign.len + n

SignUpdate(n) ==
    /\ sign # None
    /\ sign' = IF Fits(n) THEN [sign EXCEPT !.len = Fed(n)] ELSE None
    /\ UNCHANGED <<keyType, keyBits, decrypt, wire, sent, spent>>

\* sign_perform: the hashes that the request for n buffered bytes may name.
\* portal_digestinfo_parse takes a DigestInfo with NULL or absent parameters.
HashesFor(n) ==
    IF sign.local THEN {sign.hash}
    ELSE CASE sign.family = "RSA_PKCS1_V1_5" ->
                {h \in Hash : n - HashLength[h] \in {DigestInfoLength[h], DigestInfoLength[h] - 2}}
           [] sign.family = "ECDSA" -> {h \in Hash : HashLength[h] = n}
           [] OTHER -> {h \in Hash : h = sign.hash /\ HashLength[h] = n}

SignRequest(h, n) ==
    [op |-> "sign", family |-> sign.family, hash |-> h,
     mgf |-> IF sign.family = "RSA_PSS" THEN h ELSE None, salt |-> sign.salt,
     size |-> IF ~sign.local /\ sign.family # "RSA_PKCS1_V1_5" THEN n ELSE HashLength[h]]

\* sign_finish with a buffer that is long enough: whatever the answer, the
\* operation ends.  (A size query or a short buffer leaves everything as it is.)
SignFinish(n) ==
    \/ \E h \in HashesFor(n) : Send(SignRequest(h, n)) /\ sign' = None
    \/ /\ ~sign.local /\ (HashesFor(n) = {} \/ sign.family = "RSA_PKCS1_V1_5")
       /\ sign' = None
       /\ UNCHANGED <<wire, sent, spent>>

SignFinal ==
    /\ sign # None
    /\ SignFinish(sign.len)
    /\ UNCHANGED <<keyType, keyBits, decrypt>>

\* C_Sign.
Sign(n) ==
    /\ sign # None
    /\ IF Fits(n) THEN SignFinish(Fed(n)) ELSE sign' = None /\ UNCHANGED <<wire, sent, spent>>
    /\ UNCHANGED <<keyType, keyBits, decrypt>>

-----------------------------------------------------------------------------
\* Decryptions in the module; a token with an EC key does not offer RSA_OAEP.
DecryptInit(h, mgf) ==
    /\ decrypt = None
    /\ keyType = "RSA" /\ h \in Hash /\ mgf = h
    /\ decrypt' = h
    /\ UNCHANGED <<keyType, keyBits, sign, wire, sent, spent>>

\* C_Decrypt: a plaintext too long for the caller's buffer is dropped, and the
\* operation stays for another request.
Decrypt(n) ==
    LET r == [op |-> "decrypt", family |-> "RSA_OAEP", hash |-> decrypt, mgf |-> decrypt,
              salt |-> None, size |-> n]
    IN /\ decrypt # None
       /\ wire' = r /\ UNCHANGED sent
       /\ spent' = IF Charged(r) THEN spent + 1 ELSE spent
       /\ decrypt' \in (IF Charged(r) THEN {decrypt, None} ELSE {None})
       /\ UNCHANGED <<keyType, keyBits, sign>>

PssParameters == [hash : Hash, mgf : Hash, salt : Salts]

Next ==
    \/ \E f \in Family, h \in Hash \cup {None}, p \in PssParameters : SignInit(f, h, p)
    \/ \E n \in Chunks : SignUpdate(n) \/ Sign(n)
    \/ SignFinal
    \/ \E h \in Hash, mgf \in Hash : DecryptInit(h, mgf)
    \/ \E n \in {ModulusBytes - 1, ModulusBytes, ModulusBytes + 1} \cap Nat : Decrypt(n)

Spec == Init /\ [][Next]_vars

-----------------------------------------------------------------------------
\* DER lengths: the broker writes an ECDSA signature as a SEQUENCE of INTEGERs.

\* append_der_integer: the length of an integer of half bytes with leading zeros,
\* of which one byte stays, and a zero added before a set high bit.  The code
\* writes it in one byte.
IntegerLength(half, zeros, high) == half - zeros + (IF high THEN 1 ELSE 0)

\* certificate_ecdsa_raw_to_der: the length of the SEQUENCE.
DerLength(n) ==
    IF n < 128 THEN <<n>>
    ELSE IF n <= 255 THEN <<129, n>>
    ELSE <<130, (n \div 256) % 256, n % 256>>

\* portal_der_read, the module's reader, for lengths of up to two bytes after the first.
ReadDerLength(b) ==
    IF b[1] < 128 THEN b[1]
    ELSE IF Len(b) # b[1] - 127 \/ b[2] = 0 THEN None
    ELSE LET n == IF Len(b) = 2 THEN b[2] ELSE 256 * b[2] + b[3]
         IN IF n < 128 THEN None ELSE n

-----------------------------------------------------------------------------
\* What must hold.

\* The module and the broker agree: a signature request names the key's kind of
\* mechanism, has as many bytes as its hash, and of PSS it masks with that hash
\* and its salt's length survives the wire's uint32.  Only the size of the key can
\* make the broker refuse it.
RequestsAreWellFormed ==
    wire # None /\ wire.op = "sign" =>
        /\ TypeFits(wire) /\ SizeFits(wire)
        /\ wire.family = "RSA_PSS" => wire.mgf = wire.hash /\ wire.salt \in 0..(Word - 1)

\* What the broker accepts can be encoded (RFC 8017, 9.2, 9.1.1 and 7.1.1): the
\* length tests, in unsigned arithmetic that wraps, never let a request pass that
\* is too long for the modulus.
AcceptedFitsModulus ==
    wire # None /\ Accepted(wire) =>
        CASE wire.family = "RSA_PKCS1_V1_5" ->
               DigestInfoLength[wire.hash] + HashLength[wire.hash] + 11 <= ModulusBytes
          [] wire.family = "RSA_PSS" ->
               HashLength[wire.hash] + Salt(wire) + 2 <= (keyBits - 1 + 7) \div 8
          [] wire.family = "RSA_OAEP" -> 2 * HashLength[wire.hash] + 2 <= ModulusBytes
          [] OTHER -> TRUE

\* C_SignInit pays for one request: whatever the application calls after it, the
\* user is asked for one signature.
OneRequestPerSign == sent <= 1 /\ (sign # None => sent = 0)

\* docs/SECURITY.md:60: "OAEP ciphertext is exactly one modulus long".
OaepTakesOneModulus ==
    wire # None /\ wire.op = "decrypt" /\ KeyFits(wire) =>
        (SizeFits(wire) <=> wire.size = ModulusBytes)
=============================================================================
