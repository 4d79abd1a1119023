--------------------------- MODULE MCKeyOperation ---------------------------
\* Instances of KeyOperation: keys with and without a whole number of bytes.
EXTENDS KeyOperation

Sizes == {256, 2047, 2048}
\* The short forms, the lengths of hashes and of DigestInfos, the TLS 1.0 digest.
Data == {0, 20, 33, 36, 51, 64, 512}
Lengths == {0, 32, 94, 95, 222, 65536}
=============================================================================
