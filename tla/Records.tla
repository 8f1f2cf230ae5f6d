------------------------------ MODULE Records ------------------------------
(***************************************************************************)
(* The routines that make, seal and open the records which the tool keeps  *)
(* in files: the certificates of a keypair, the encrypted certificate, and *)
(* the header of a backup file.                                            *)
(*                                                                         *)
(* A record is a sequence of bytes <<field, value, index>>.  Keys, MACs    *)
(* and ciphertext are terms: two of them are equal only when they are made *)
(* of the same parts.  The libraries may fail at any call.                 *)
(*                                                                         *)
(* Between the sealing of a certificate and its opening the file may be    *)
(* cut, lengthened, spliced with another file or changed in any one byte,  *)
(* and the passphrase may be another one.                                  *)
(***************************************************************************)
EXTENDS EndorseRoutines

CONSTANTS
  Passphrases,
  Certs,        \* certificates, as sequences of bytes
  Rounds,
  KEY_SIZE,     \* suite->stream_cipher_opts.key_size
  IV_SIZE,      \* suite->stream_cipher_opts.IV_size
  MAC_SIZE,     \* suite->mac_opts.mac_size
  Other,        \* another certificate that was sealed
  NONE

ASSUME RecordsAssumption == {KEY_SIZE, IV_SIZE, MAC_SIZE} \subseteq Nat \ {0}

(* A certificate is a sequence, of whatever bytes. *)
ASSUME CertsAssumption ==
  \A c \in Certs \cup {Other.cert} : c \in Seq({c[i] : i \in DOMAIN c})

VARIABLES
  written,      \* the bytes (or fields) that are in the record so far
  digested,     \* the bytes that the MAC has been given
  stored,       \* the file
  original,     \* what was sealed: its bytes, passphrase and certificate
  refused       \* history: it was a check that failed, not a library

recordVars == <<ladderVars, written, digested, stored, original, refused>>

-----------------------------------------------------------------------------
(* Bytes and terms. *)

Bytes(field, value, n) == [i \in 1 .. n |-> <<field, value, i>>]

Field(bytes, first, size) ==
  IF 1 <= first /\ first + size - 1 <= Len(bytes) THEN SubSeq(bytes, first, first + size - 1) ELSE <<>>

DerivedKey(passphrase, salt, rounds) == <<"key", passphrase, salt, rounds>>

Mac(key, bytes, n) == Bytes("mac", <<key, bytes>>, n)

Encrypt(key, iv, plain) == [i \in DOMAIN plain |-> <<"ciphertext", <<key, iv, plain[i]>>, i>>]

(* What comes out of bytes that were not encrypted this way is noise. *)
Decrypt(key, iv, bytes) ==
  [i \in DOMAIN bytes |->
     IF /\ bytes[i][1] = "ciphertext"
        /\ bytes[i][2][1] = key /\ bytes[i][2][2] = iv /\ bytes[i][3] = i
     THEN bytes[i][2][3] ELSE <<"noise", 0, i>>]

-----------------------------------------------------------------------------
(* Calls. *)

Digest(bytes, fails) == [Do(fails) EXCEPT !.digests = bytes]

Write(bytes) == [Do("done") EXCEPT !.outcomes = {"ok"}, !.writes = bytes]

WriteMac(key, size) == [Do("done") EXCEPT !.outcomes = {"ok"}, !.mac = <<key, size>>]

Read(first, size, call) == [call EXCEPT !.reads = @ \cup {<<first, size>>}]

-----------------------------------------------------------------------------
(* Mutant: success falls through into the cleanup of the mac. *)
CipherMacInitFallsThrough ==
  Table("crypt_cipher_mac_init_from_password",
        <<Acquire({"derived_key"}, "done"),
          Acquire({"key_derivation"}, "derived_key"),
          Do("key_derivation"),
          Acquire({"mac"}, "key_derivation"),
          Acquire({"cipher"}, "mac")>>,
        <<"mac", "key_derivation", "derived_key">>,
        "mac", {"mac", "cipher"})

(* crypt_cipher_mac_init_from_password. *)
CipherMacInit ==
  Table("crypt_cipher_mac_init_from_password",
        <<Acquire({"derived_key"}, "done"),
          Acquire({"key_derivation"}, "derived_key"),
          Do("key_derivation"),
          Acquire({"mac"}, "key_derivation"),
          Acquire({"cipher"}, "mac")>>,
        <<"mac", "key_derivation", "derived_key">>,
        "key_derivation", {"mac", "cipher"})

-----------------------------------------------------------------------------
(* certificate_encrypt. *)

Magic == Bytes("magic", "ENC", 3)
RoundsBytes(rounds, n) == Bytes("rounds", rounds, n)
Salt == Bytes("salt", "fresh", KEY_SIZE)
IV == Bytes("iv", "fresh", IV_SIZE)

(* Mutant: the MAC is not counted. *)
CertMinSizeWithoutMac == 3 + 4 + KEY_SIZE + IV_SIZE

(* 3 bytes of magic and 4 of the rounds. *)
CertMinSize == 3 + 4 + KEY_SIZE + IV_SIZE + MAC_SIZE

(* Mutant: without a PRNG the buffer of the MAC is forgotten. *)
EncryptSetUpForgets == <<
  Acquire({"salt"}, "done"),
  Acquire({"iv"}, "salt"),
  Acquire({"mac_buffer"}, "iv"),
  Acquire({"prng"}, "iv"),
  Do("prng"), Do("prng"),
  Acquire({"cipher", "mac"}, "prng"),
  Malloc("encrypted_cert", "cipher"),
  Acquire({"encrypted_cert_data"}, "encrypted_cert")>>

EncryptSetUp == <<
  Acquire({"salt"}, "done"),
  Acquire({"iv"}, "salt"),
  Acquire({"mac_buffer"}, "iv"),
  Acquire({"prng"}, "mac_buffer"),
  Do("prng"), Do("prng"),
  Acquire({"cipher", "mac"}, "prng"),
  Malloc("encrypted_cert", "cipher"),
  Acquire({"encrypted_cert_data"}, "encrypted_cert")>>

EncryptRecord(cert, passphrase, rounds) ==
  LET fails == "encrypted_cert_data"
      key == DerivedKey(passphrase, Salt, RoundsBytes(rounds, 4))
      ciphertext == Encrypt(key, IV, cert)
  IN <<Write(Magic), Digest(Magic, fails),
       Write(RoundsBytes(rounds, 4)), Digest(RoundsBytes(rounds, 4), fails),
       Write(Salt), Digest(Salt, fails),
       [Do(fails) EXCEPT !.writes = IV],
       [Do(fails) EXCEPT !.writes = ciphertext],
       Digest(IV \o ciphertext, fails),
       Do(fails), WriteMac(key, MAC_SIZE)>>

CertificateEncrypt(cert, passphrase, rounds) ==
  [Table("certificate_encrypt",
         EncryptSetUp \o EncryptRecord(cert, passphrase, rounds),
         <<"encrypted_cert_data", "encrypted_cert", "cipher", "mac", "prng", "mac_buffer",
           "iv", "salt">>,
         "cipher", {"encrypted_cert", "encrypted_cert_data"})
   EXCEPT !.size = CertMinSize + Len(cert),
          !.input = [cert |-> cert, passphrase |-> passphrase]]

-----------------------------------------------------------------------------
(* certificate_decrypt.  The sizes of the parts are known beforehand, the  *)
(* ciphertext is what remains.                                             *)

DecryptHeader(file) == <<
  Acquire({"mac_buffer"}, "done"),
  Acquire({"salt"}, "mac_buffer"),
  Check(Len(file) >= CertMinSize, "salt"),
  Read(1, 3, Check(Field(file, 1, 3) = Magic, "salt")),
  Read(4, 4, Read(8, KEY_SIZE, Acquire({"cipher", "mac"}, "salt"))),
  Malloc("cert", "cipher")>>

(* What the MAC of the file is about. *)
Authenticated(file) == Field(file, 1, Len(file) - MAC_SIZE)

(* Mutant: nobody compares. *)
MacIgnored(file, key) == TRUE

MacMatches(file, key) ==
  Field(file, Len(file) - MAC_SIZE + 1, MAC_SIZE) = Mac(key, Authenticated(file), MAC_SIZE)

DecryptRecord(file, passphrase) ==
  LET n == Len(file)
      key == DerivedKey(passphrase, Field(file, 8, KEY_SIZE), Field(file, 4, 4))
      iv == Field(file, 8 + KEY_SIZE, IV_SIZE)
      start == 8 + KEY_SIZE + IV_SIZE
      fails == "cert_data"
  IN <<Read(start, n - CertMinSize, Acquire({"cert_data"}, "cert")),
       Read(1, n - MAC_SIZE, Digest(Authenticated(file), fails)),
       Do(fails),
       Read(n - MAC_SIZE + 1, MAC_SIZE, Check(MacMatches(file, key), fails)),
       Read(8 + KEY_SIZE, IV_SIZE, Do(fails)),
       Read(start, n - CertMinSize,
            [Do(fails) EXCEPT !.writes = Decrypt(key, iv, Field(file, start, n - CertMinSize))])>>

CertificateDecrypt(file, passphrase) ==
  [Table("certificate_decrypt",
         DecryptHeader(file) \o DecryptRecord(file, passphrase),
         <<"cert_data", "cert", "cipher", "mac", "salt", "mac_buffer">>,
         "cipher", {"cert", "cert_data"})
   EXCEPT !.size = Len(file) - CertMinSize, !.input = [passphrase |-> passphrase]]

-----------------------------------------------------------------------------
(* backup_file_encryption_header_write. *)

(* In units of eight bytes. *)
SALT_SIZE == 4
HEADER_IV_SIZE == 2
LONG_KEY_SIZE == 4
BLOCK_SIZE == 2
HEADER_MAC_SIZE == 4

(* BACKUP_FILE_SIZE_FILE_ENC_HEADER: magic, version, size, rounds, salt,   *)
(* key with its iv, mac.                                                   *)
HeaderSize == 1 + 1 + 1 + 1 + SALT_SIZE + (HEADER_IV_SIZE + LONG_KEY_SIZE) + HEADER_MAC_SIZE

HeaderSetUp(valid) == <<
  Check(valid, "done"),
  Acquire({"prng"}, "done"),
  Acquire({"iv"}, "prng"),
  Acquire({"salt"}, "iv"),
  Acquire({"lt_key"}, "salt"),
  Acquire({"st_key"}, "lt_key"),
  Acquire({"encrypted_key"}, "st_key"),
  Acquire({"record"}, "encrypted_key"),
  Acquire({"mac_buffer"}, "record"),
  Do("mac_buffer"), Do("mac_buffer"), Do("mac_buffer")>>

HeaderKeys == <<
  Acquire({"key"}, "mac_buffer"),
  Do("key"),
  Acquire({"block"}, "key"),
  Do("block"), Do("block"),
  Acquire({"mac"}, "block")>>

(* The short-term key is encrypted in two blocks, the iv of the second     *)
(* being the first.                                                        *)
HeaderRecord(passphrase, rounds) ==
  LET salt == Bytes("salt", "fresh", SALT_SIZE)
      iv == Bytes("iv", "fresh", HEADER_IV_SIZE)
      st_key == Bytes("st_key", "fresh", LONG_KEY_SIZE)
      lt_key == DerivedKey(passphrase, salt, RoundsBytes(rounds, 1))
      first == Encrypt(lt_key, iv, SubSeq(st_key, 1, BLOCK_SIZE))
      second == Encrypt(lt_key, first, SubSeq(st_key, BLOCK_SIZE + 1, 2 * BLOCK_SIZE))
      record == Bytes("magic", "ENCVCBAK", 1) \o Bytes("version", "0x10000000", 1)
                  \o Bytes("size", HeaderSize, 1) \o RoundsBytes(rounds, 1)
                  \o salt \o iv \o first \o second
  IN <<Write(record), Digest(Field(record, 1, HeaderSize - HEADER_MAC_SIZE), "mac"),
       Do("mac"), WriteMac(st_key, HEADER_MAC_SIZE)>>

(* Mutant: nobody looks at wrote_size. *)
HeaderFileUnchecked == <<[Do("mac") EXCEPT !.stores = TRUE]>>

(* file_write, which may write less, and the test of wrote_size. *)
HeaderFile == <<[Do("mac") EXCEPT !.stores = TRUE], [Do("mac") EXCEPT !.check = TRUE]>>

HeaderWrite(valid, passphrase, rounds) ==
  [Table("backup_file_encryption_header_write",
         HeaderSetUp(valid) \o HeaderKeys \o HeaderRecord(passphrase, rounds) \o HeaderFile,
         <<"mac", "block", "key", "mac_buffer", "record", "encrypted_key", "st_key",
           "lt_key", "salt", "iv", "prng">>,
         "mac", {})
   EXCEPT !.size = HeaderSize, !.input = [passphrase |-> passphrase]]

-----------------------------------------------------------------------------
(* keypair_certificate_create and pubkey_certificate_create.  The builder  *)
(* takes one field at a time.                                              *)

KeypairSetUp == <<
  Acquire({"prng"}, "done"),
  Acquire({"uuid"}, "prng"),
  Do("uuid"),
  Acquire({"agreement"}, "uuid"),
  Acquire({"agreement_privkey"}, "agreement"),
  Acquire({"agreement_pubkey"}, "agreement_privkey"),
  Do("agreement_pubkey"),
  Acquire({"signature"}, "agreement_pubkey"),
  Acquire({"signature_privkey"}, "signature"),
  Acquire({"signature_pubkey"}, "signature_privkey"),
  Do("signature_pubkey")>>

Add(field, value) == [Do("builder") EXCEPT !.writes = <<<<field, value, 1>>>>]

KeypairFields == <<
  Acquire({"builder"}, "signature_pubkey"),
  Add("version", "0x00010000"),
  Add("type", "private"),
  Add("suite", "VELO_V1"),
  Add("artifact_id", "uuid"),
  Add("public_encryption_key", "agreement"),
  Add("private_encryption_key", "agreement"),
  Add("public_signing_key", "signature"),
  Add("private_signing_key", "signature"),
  Acquire({"cert"}, "builder")>>

KeypairCertificateCreate ==
  [Table("keypair_certificate_create",
         KeypairSetUp \o KeypairFields,
         <<"builder", "signature_pubkey", "signature_privkey", "signature",
           "agreement_pubkey", "agreement_privkey", "agreement", "uuid", "prng">>,
         "builder", {"cert"})
   EXCEPT !.size = 8]

PubkeyCertificateCreate ==
  [Table("pubkey_certificate_create",
         <<Acquire({"builder"}, "done"),
           Add("version", "0x00010000"),
           Add("type", "public"),
           Add("suite", "VELO_V1"),
           Add("artifact_id", "uuid"),
           Add("public_encryption_key", "agreement"),
           Add("public_signing_key", "signature"),
           Acquire({"cert"}, "builder")>>,
         <<"builder">>, "builder", {"cert"})
   EXCEPT !.size = 6]

-----------------------------------------------------------------------------
(* What a file that holds an encrypted certificate looks like, from the    *)
(* comments of certificate_encrypt; only for the other file.               *)
Sealed(salt, iv, c) ==
  LET rounds == RoundsBytes(c.rounds, 4)
      key == DerivedKey(c.passphrase, salt, rounds)
      front == Magic \o rounds \o salt \o iv \o Encrypt(key, iv, c.cert)
  IN  front \o Mac(key, front, MAC_SIZE)

OtherFile ==
  [cert |-> Other.cert, passphrase |-> Other.passphrase,
   bytes |-> Sealed(Bytes("salt", "other", KEY_SIZE), Bytes("iv", "other", IV_SIZE), Other)]

Damaged(bytes) ==
       {SubSeq(bytes, 1, n) : n \in 0 .. Len(bytes)}
  \cup {Append(bytes, <<"noise", 0, 0>>)}
  \cup {[bytes EXCEPT ![i] = <<"noise", 0, 0>>] : i \in DOMAIN bytes}
  \cup {SubSeq(bytes, 1, i) \o SubSeq(OtherFile.bytes, i + 1, Len(OtherFile.bytes)) : i \in 1 .. Len(bytes)}

-----------------------------------------------------------------------------
Routines ==
       EndorseTables
  \cup {CipherMacInit, KeypairCertificateCreate, PubkeyCertificateCreate}
  \cup {HeaderWrite(valid, p, r) : valid \in BOOLEAN, p \in Passphrases, r \in Rounds}
  \cup {CertificateEncrypt(c, p, r) : c \in Certs, p \in Passphrases, r \in Rounds}

RecordsInit ==
  /\ LadderInit(Routines)
  /\ written = <<>> /\ digested = <<>> /\ stored = <<>>
  /\ original = NONE
  /\ refused = FALSE

(* The test after file_write looks at what was written. *)
ChecksWritten == Call.check /\ Call.outcomes = {"ok", "error"}

RunCall ==
  /\ Succeed
  /\ ChecksWritten => stored = written
  /\ written' = written \o Call.writes
                  \o (IF Call.mac = <<>> THEN <<>> ELSE Mac(Call.mac[1], digested, Call.mac[2]))
  /\ digested' = digested \o Call.digests
  /\ \/ ~Call.stores /\ UNCHANGED stored
     \/ Call.stores /\ \E n \in 0 .. Len(written) : stored' = SubSeq(written, 1, n)
  /\ UNCHANGED <<original, refused>>

FailCall ==
  /\ Fail
  /\ ChecksWritten => stored # written
  /\ refused' = (refused \/ Call.check)
  /\ UNCHANGED <<written, digested, stored, original>>

CleanUp == (Done \/ PassOver \/ Release \/ Return \/ Crash) /\ UNCHANGED <<written, digested, stored, original, refused>>

(* Somebody reads the file, as it is now, and gives a passphrase. *)
ReadBack ==
  /\ Succeeded /\ body.name = "certificate_encrypt"
  /\ original' = [bytes |-> written, passphrase |-> body.input.passphrase, cert |-> body.input.cert]
  /\ stored' \in Damaged(written)
  /\ \E p \in Passphrases : Enter(CertificateDecrypt(stored', p))
  /\ written' = <<>> /\ digested' = <<>>
  /\ UNCHANGED refused

Finished ==
  /\ pc \in {"returned", "crashed"} /\ ~(Succeeded /\ body.name = "certificate_encrypt")
  /\ UNCHANGED recordVars

RecordsNext == RunCall \/ FailCall \/ CleanUp \/ ReadBack \/ Finished

RecordsSpec == RecordsInit /\ [][RecordsNext]_recordVars

-----------------------------------------------------------------------------
(* The tables are what the labels of the code are meant to be, and the     *)
(* places and marks are in range.                                          *)
RecordsTypeOK ==
  /\ Disciplined(body)
  /\ pc \in {"calls", "releases", "returned", "crashed"}
  /\ at \in 1 .. (IF pc \in {"calls", "crashed"} THEN Len(body.calls) ELSE Last(body)) + 1
  /\ retval \in {"success", "error"} /\ unnoticed \in BOOLEAN /\ refused \in BOOLEAN
  /\ held \subseteq Acquired(body, Len(body.calls))

(* What the routines compute with sizes: no call reads outside the file    *)
(* that is opened, nothing is written past the end of the record that was  *)
(* allocated, and a routine that succeeds has filled it.                   *)
SizesAgree ==
  /\ pc = "calls" /\ at <= Len(body.calls) =>
       \A r \in Call.reads : 0 <= r[2] /\ r[1] + r[2] - 1 <= Len(stored)
  /\ body.size >= 0 => Len(written) <= body.size
  /\ Succeeded => Len(written) = body.size

(* An encrypted certificate opens just when its file is one that was       *)
(* sealed, byte for byte, and the passphrase is the one it was sealed      *)
(* with; what comes out is the certificate that was sealed, and anything   *)
(* else is refused by a check, before any of it is decrypted.              *)
OpensWhatWasSealed ==
  body.name = "certificate_decrypt" =>
    LET meant == {s \in {original, OtherFile} :
                    s.bytes = stored /\ s.passphrase = body.input.passphrase}
    IN  /\ Succeeded => \E s \in meant : written = s.cert
        /\ refused => meant = {}
        /\ written # <<>> => meant # {} /\ digested = Field(stored, 1, Len(stored) - MAC_SIZE)

(* The header of a backup is in the file when the routine succeeds, all of *)
(* it; whoever has the passphrase finds in it what is needed to get at the *)
(* short-term key, and the MAC under that key is about all that precedes.  *)
HeaderOpens ==
  body.name = "backup_file_encryption_header_write" /\ Succeeded =>
    LET lt_key == DerivedKey(body.input.passphrase, Field(stored, 5, 4), Field(stored, 4, 1))
        first == Field(stored, 11, 2)
        st_key == Decrypt(lt_key, Field(stored, 9, 2), first)
                    \o Decrypt(lt_key, first, Field(stored, 13, 2))
    IN  /\ Len(stored) = 18
        /\ \A i \in DOMAIN st_key : st_key[i][1] = "st_key"
        /\ Field(stored, 15, 4) = Mac(st_key, Field(stored, 1, 14), 4)
=============================================================================
