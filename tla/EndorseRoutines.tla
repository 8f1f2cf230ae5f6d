-------------------------- MODULE EndorseRoutines ---------------------------
(***************************************************************************)
(* The routines of the endorse command that hold resources while they call *)
(* others: files' names, opened files, buffers, parsers and builders,      *)
(* entries of trees.                                                       *)
(*                                                                         *)
(* A parameter stands for what the routine finds: an option that is given  *)
(* or not, the mode of a file, an entry that exists, a certificate.        *)
(***************************************************************************)
EXTENDS Ladder

Cascading(resources, table) == [table EXCEPT !.cascades = resources]
Saving(resources, table) == [table EXCEPT !.saves = resources]

(* A call that may also be cut short, which is noticed and not an error. *)
MayBeShort(fails) == May("unnoticed", Do(fails))

-----------------------------------------------------------------------------
(* certfile_create. *)
CertfileCreate ==
  Cascading({"certfile"},
    Table("certfile_create",
          <<Acquire({"certfile"}, "done"), Acquire({"filename"}, "certfile")>>,
          <<"certfile">>, "done", {"certfile", "filename"}))

(* The files of -k, -i and -E: the option is there, file_stat, certfile.   *)
(* A key file that its owner cannot read is no error.                      *)
GetKeyFile(given, mode) ==
  Table("endorse_get_key_file",
        <<Check(given, "done"), Do("done"), Check(mode # "shared", "done"),
          [Do("done") EXCEPT !.outcomes = {IF mode = "unreadable" THEN "unnoticed" ELSE "ok"}],
          Acquire({"key_file"}, "done")>>,
        <<>>, "done", {"key_file"})

GetInputFile(given) ==
  Table("endorse_get_input_file",
        <<Check(given, "done"), Do("done"), Acquire({"input_file"}, "done")>>,
        <<>>, "done", {"input_file"})

GetConfigFile(given) ==
  Table("endorse_get_endorse_config_file",
        <<Check(given, "done"), Do("done"), Acquire({"endorse_config_file"}, "done")>>,
        <<>>, "done", {"endorse_config_file"})

GetPubkeyFile ==
  Table("endorse_get_pubkey_file",
        <<Do("done"), Acquire({"key_file"}, "done")>>, <<>>, "done", {"key_file"})

(* endorse_get_output_filename: the result of strdup is nobody's concern,  *)
(* nor whether the file of -o exists; the file that it makes up must not.  *)
GetOutputFilename(given) ==
  Table("endorse_get_output_filename",
        IF given THEN <<Malloc("output_filename", "done")>>
        ELSE <<Acquire({"output_filename"}, "done"), Do("output_filename")>>,
        <<"output_filename">>, "done", {"output_filename"})

-----------------------------------------------------------------------------
(* Reading.  A certificate is read into a buffer that is kept only when    *)
(* all went well, the closing of the file included.                        *)
ReadCert(name, decrypt) ==
  Cascading({"fd"}, Saving({"cert"},
    Table(name,
          <<Acquire({"cert"}, "done"), Acquire({"fd"}, "cert"), MayBeShort("fd")>> \o decrypt,
          <<"fd", "cert">>, "fd", {"cert"})))

(* The decrypted certificate takes the place of the encrypted one. *)
ReadKeyCertificate(encrypted) ==
  ReadCert("endorse_read_key_certificate", IF encrypted THEN <<Do("fd")>> ELSE <<>>)

ReadInputCertificate == ReadCert("endorse_read_input_certificate", <<>>)

ReadConfigFile == ReadCert("endorse_read_endorse_config_file", <<>>)

(* endorse_read_password_and_decrypt_certfile.  certificate_decrypt may    *)
(* return success and no certificate.                                      *)
DecryptCertfile ==
  Table("endorse_read_password_and_decrypt_certfile",
        <<Acquire({"password"}, "done"), May("crash", Acquire({"decrypted_cert"}, "password"))>>,
        <<"password">>, "password", {"decrypted_cert"})

(* endorse_get_pubkey_id. *)
GetPubkeyId(size_is_right) ==
  Cascading({"fd"},
    Table("endorse_get_pubkey_id",
          <<Acquire({"file_buffer"}, "done"), Acquire({"fd"}, "file_buffer"), MayBeShort("fd"),
            Acquire({"parser_opts"}, "fd"), Acquire({"parser"}, "parser_opts"),
            Do("parser"), Check(size_is_right, "parser")>>,
          <<"parser", "parser_opts", "fd", "file_buffer">>, "parser", {}))

-----------------------------------------------------------------------------
(* Entries. *)

(* endorse_uuid_dictionary_add.  Without memory for its copy the key is    *)
(* NULL; the insertion compares it with the keys that are there.           *)
DictionaryAdd(copied, empty) ==
  LET entry == IF copied THEN {"entry", "key"} ELSE {"entry"}
      insert == Do(IF copied THEN "key" ELSE "entry")
  IN  Cascading({"entry"},
        Table("endorse_uuid_dictionary_add",
              <<Acquire({"entry"}, "done"),
                [Acquire(entry \ {"entry"}, "done") EXCEPT !.outcomes = {"ok"}],
                IF copied \/ empty THEN insert ELSE May("crash", insert)>>,
              <<"key", "entry">>, "done", entry))

(* endorse_working_set_add_verb_capability: nothing is to be done for a    *)
(* capability that is in the set.                                          *)
AddVerbCapability(exists) ==
  Cascading({"entry"},
    Table("endorse_working_set_add_verb_capability",
          IF exists THEN <<>> ELSE <<Acquire({"entry"}, "done"), Do("entry")>>,
          <<"entry">>, "done", IF exists THEN {} ELSE {"entry"}))

-----------------------------------------------------------------------------
(* The output. *)

(* endorse_get_endorser_details. *)
GetEndorserDetails(id_size_is_right, key_size_is_right) ==
  Table("endorse_get_endorser_details",
        <<Acquire({"parser_options"}, "done"), Acquire({"parser"}, "parser_options"),
          Do("parser"), Check(id_size_is_right, "parser"),
          Do("parser"), Check(key_size_is_right, "parser"),
          Acquire({"private_key"}, "parser")>>,
        <<"parser", "parser_options">>, "parser", {"private_key"})

(* endorse_emit_public_certificate_fields: each field is copied as it is;  *)
(* whatever keeps the parser from finding the next one is the end.         *)
EmitPublicFields(fields) ==
  LET Emit(f) == <<[Do("parser") EXCEPT !.writes = <<f>>]>> \o
                 (IF f[1] = "artifact_id" THEN <<Check(f[2] # "bad_size", "parser")>> ELSE <<>>)
      emits[n \in 0 .. Len(fields)] ==
        IF n = 0 THEN <<>> ELSE emits[n - 1] \o Emit(fields[n])
  IN  [Table("endorse_emit_public_certificate_fields",
             <<Acquire({"parser_options"}, "done"), Acquire({"parser"}, "parser_options"),
               Do("parser")>> \o emits[Len(fields)],
             <<"parser", "parser_options">>, "parser", {})
       EXCEPT !.size = Len(fields)]

(* The size that is given to the builder: the input certificate, a field   *)
(* for each entry of the working set, the signer's id and the signature.   *)
OutputCertSize(fields, set) == Len(fields) + set + 2

(* endorse_build_output_file: the file is opened once the certificate is   *)
(* complete.                                                               *)
BuildOutputFile(fields, set) ==
  LET Emit(new) == [Do("builder") EXCEPT !.writes = new]
  IN  [Table("endorse_build_output_file",
             <<Acquire({"private_key"}, "done"), Acquire({"builder_opts"}, "private_key"),
               Acquire({"builder"}, "builder_opts"),
               Emit(fields), Emit([i \in 1 .. set |-> <<"endorsement", i>>]),
               Emit(<< <<"signer", "id">>, <<"signature", "bytes">> >>),
               Acquire({"fd"}, "builder"), MayBeShort("fd")>>,
             <<"fd", "builder", "builder_opts", "private_key">>, "fd", {})
       EXCEPT !.size = OutputCertSize(fields, set)]

FileTables ==
       {CertfileCreate, GetPubkeyFile}
  \cup {GetKeyFile(given, mode) : given \in BOOLEAN, mode \in {"right", "shared", "unreadable"}}
  \cup {GetInputFile(given) : given \in BOOLEAN}
  \cup {GetConfigFile(given) : given \in BOOLEAN}
  \cup {GetOutputFilename(given) : given \in BOOLEAN}

ReadingTables ==
       {ReadInputCertificate, ReadConfigFile, DecryptCertfile}
  \cup {ReadKeyCertificate(encrypted) : encrypted \in BOOLEAN}
  \cup {GetPubkeyId(right) : right \in BOOLEAN}

EntryTables ==
       {DictionaryAdd(copied, empty) : copied \in BOOLEAN, empty \in BOOLEAN}
  \cup {AddVerbCapability(exists) : exists \in BOOLEAN}

OutputTables ==
       {GetEndorserDetails(id, key) : id \in BOOLEAN, key \in BOOLEAN}
  \cup {EmitPublicFields(<<<<"version", "1.0">>, <<"artifact_id", id>>>>) : id \in {"id", "bad_size"}}
  \cup {EmitPublicFields(<<<<"version", "1.0">>>>)}
  \cup {BuildOutputFile(<<<<"version", "1.0">>>>, set) : set \in 0 .. 2}

EndorseTables == FileTables \cup ReadingTables \cup EntryTables \cup OutputTables
=============================================================================
