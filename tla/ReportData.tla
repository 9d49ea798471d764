----------------------------- MODULE ReportData -----------------------------
(***************************************************************************)
(* The report data that binds evidence to a provenance and a nonce: how    *)
(* `kettle attest` lays it out (src/commands/attest.rs), what the          *)
(* attestation library hands back, and how `kettle verify` compares it     *)
(* (src/commands/verify.rs).  Byte strings are sequences of bytes.         *)
(***************************************************************************)
EXTENDS Naturals, Sequences

CONSTANTS
    Byte,       \* the values of a byte (0..255 in the code)
    SumLen,     \* length of the provenance checksum (32 in the code)
    NonceLen    \* NONCE_LEN (16 in the code)

ASSUME ReportDataAssumption ==
    /\ Byte \subseteq Nat /\ 0 \in Byte
    /\ SumLen \in Nat \ {0}
    /\ NonceLen \in Nat \ {0}

Checksum == [1..SumLen -> Byte]
NonceBytes == [1..NonceLen -> Byte]

(* A nonce as it is typed: the bytes its hex digits spell, and whether the   *)
(* digits are plain, grouped by dashes as `uuidgen` prints them, or not hex. *)
NonceString == [bytes : Seq(Byte), form : {"plain", "dashed", "not_hex"}]

Zeros(n) == [i \in 1..n |-> 0]

\* copy_from_slice of the bytes there are into a zeroed array of n bytes.
ZeroExtend(d, n) == [i \in 1..n |-> IF i <= Len(d) THEN d[i] ELSE 0]

-----------------------------------------------------------------------------
(* attest *)

\* decode_nonce strips dashes: it accepts what uuidgen prints.
decode_nonce_ok(nonce) == nonce.form # "not_hex" /\ Len(nonce.bytes) = NonceLen

\* The nonce slot stays zero when no nonce is given.
NonceSlot(nonces) == IF nonces = <<>> THEN Zeros(NonceLen) ELSE nonces[1].bytes

\* The bytes the hardware signs; nonces holds the nonce or is empty.
report_data(checksum, nonces) == checksum \o NonceSlot(nonces)

-----------------------------------------------------------------------------
(* The attestation library *)

\* Every byte of d after the first k is null.
NullAfter(d, k) == \A i \in (k + 1)..Len(d) : d[i] = 0

\* strip_trailing_nulls: what becomes of the report data in signed_data.
strip_trailing_nulls(d) ==
    SubSeq(d, 1, CHOOSE k \in 0..Len(d) :
                    NullAfter(d, k) /\ (k > 0 => d[k] # 0))

-----------------------------------------------------------------------------
(* verify *)

\* The signed checksum is extended by the nulls the library stripped.
compare_checksum(signed_data, expected) == ZeroExtend(signed_data, SumLen) = expected

\* Fault: a signed nonce that lost trailing zeros is not extended.
VerifyNonceUnpadded(signed_data, nonce) ==
    /\ nonce.form = "plain"
    /\ Len(nonce.bytes) = NonceLen
    /\ Len(signed_data) >= SumLen
    /\ SubSeq(signed_data, SumLen + 1, Len(signed_data)) = nonce.bytes

\* hex::decode refuses dashes; split_at_checked refuses signed data that ends
\* before the nonce slot begins.
verify_nonce(signed_data, nonce) ==
    LET signed_nonce == SubSeq(signed_data, SumLen + 1, Len(signed_data))
    IN  /\ nonce.form = "plain"
        /\ Len(nonce.bytes) = NonceLen
        /\ Len(signed_data) >= SumLen
        /\ Len(signed_nonce) <= NonceLen
        /\ ZeroExtend(signed_nonce, NonceLen) = nonce.bytes
=============================================================================
