------------------------------- MODULE Pubkey -------------------------------
(***************************************************************************)
(* pubkey_command_func, run by any number of processes at once: stat the   *)
(* output file and the key file, read as many bytes of the key file as     *)
(* stat said it has, decrypt them if need be, and write the public         *)
(* certificate to an output file opened exclusively.                       *)
(***************************************************************************)
EXTENDS Files

CONSTANT Pubkeys   \* the processes that run pubkey

ASSUME PubkeysAssumption == Pubkeys \subseteq Procs

VARIABLES
  pub_pc,          \* the next call of each process
  key_filename,
  pub_filename,    \* output_filename: the -o option, or the key's with .pub
  file_size,       \* fst_size of the key file
  key_file,        \* the file behind the open descriptor
  work_cert,       \* the bytes read, then decrypted
  pub_retval,
  pub_stderr

pubVars == <<pub_pc, key_filename, pub_filename, file_size, key_file, work_cert,
             pub_retval, pub_stderr>>

PubCalls == {"stat output", "stat key", "open key", "read", "decrypt", "extract",
             "open", "write"}
PubMessages == {"won't clobber", "missing", "bad bits", "unreadable", "no key",
                "read error", "no decrypt", "no fields", "no file", "write error",
                "truncated"}
PubStatus == {"SUCCESS", "WOULD_CLOBBER", "NO_ENTRY", "FILE_ERROR", "EXISTS", "OTHER_ERROR"}

PubkeyTypeOK ==
  /\ pub_pc \in [Pubkeys -> PubCalls \cup {"done", "crashed"}]
  /\ key_filename \in [Pubkeys -> Names]
  /\ pub_filename \in [Pubkeys -> Names]
  /\ file_size \in [Pubkeys -> 0 .. WHOLE]
  /\ key_file \in [Pubkeys -> FileIds \cup {NONE}]
  /\ work_cert \in [Pubkeys -> Contents]
  /\ pub_retval \in [Pubkeys -> PubStatus]
  /\ pub_stderr \in [Pubkeys -> SUBSET PubMessages]

PubkeyInit ==
  /\ pub_pc = [p \in Pubkeys |-> "stat output"]
  /\ key_filename \in [Pubkeys -> Names]
  /\ pub_filename \in [Pubkeys -> Names]
  /\ file_size = [p \in Pubkeys |-> 0]
  /\ key_file = [p \in Pubkeys |-> NONE]
  /\ work_cert = [p \in Pubkeys |-> Empty]
  /\ pub_retval = [p \in Pubkeys |-> "SUCCESS"]
  /\ pub_stderr = [p \in Pubkeys |-> {}]

PubStep(p, at, next, retval, messages) ==
  /\ pub_pc[p] = at
  /\ pub_pc' = [pub_pc EXCEPT ![p] = next]
  /\ pub_retval' = [pub_retval EXCEPT ![p] = retval]
  /\ pub_stderr' = [pub_stderr EXCEPT ![p] = @ \cup messages]
  /\ UNCHANGED <<key_filename, pub_filename>>

PubStatOutput(p) ==
  /\ \E result \in StatResults(pub_filename[p]) :
       IF result = "NO_ENTRY"
       THEN PubStep(p, "stat output", "stat key", result, {})
       ELSE PubStep(p, "stat output", "done", "WOULD_CLOBBER", {"won't clobber"})
  /\ UNCHANGED <<file_size, key_file, work_cert, fileVars>>

(* A key file with other permissions than the owner's is refused, with the *)
(* status of the successful file_stat.                                     *)
PubStatKey(p) ==
  /\ \E result \in StatResults(key_filename[p]) :
       LET f == directory[key_filename[p]]
       IN  IF result # "SUCCESS"
           THEN /\ PubStep(p, "stat key", "done", result, {"missing"})
                /\ UNCHANGED file_size
           ELSE /\ file_size' = [file_size EXCEPT ![p] = contents[f].size]
                /\ CASE mode[f] = "shared" ->
                          PubStep(p, "stat key", "done", result, {"bad bits"})
                     [] mode[f] = "unreadable" ->
                          PubStep(p, "stat key", "done", result, {"unreadable"})
                     [] mode[f] = "owner" ->
                          \/ PubStep(p, "stat key", "open key", result, {})
                          \/ PubStep(p, "stat key", "done", "OTHER_ERROR", {})
  /\ UNCHANGED <<key_file, work_cert, fileVars>>

PubOpenKey(p) ==
  /\ \E result \in OpenReadResults(key_filename[p]) :
       IF result = "SUCCESS"
       THEN /\ PubStep(p, "open key", "read", result, {})
            /\ key_file' = [key_file EXCEPT ![p] = directory[key_filename[p]]]
       ELSE /\ PubStep(p, "open key", "done", result, {"no key"})
            /\ UNCHANGED key_file
  /\ UNCHANGED <<file_size, work_cert, fileVars>>

(* file_read, which returns success for a short read too. *)
PubRead(p) ==
  /\ pub_pc[p] = "read"
  /\ \/ \E n \in ReadSizes(key_file[p], file_size[p]) :
          LET c == Prefix(contents[key_file[p]], n)
          IN  IF n = file_size[p]
              THEN /\ work_cert' = [work_cert EXCEPT ![p] = c]
                   /\ PubStep(p, "read", IF c.kind = "encrypted" THEN "decrypt" ELSE "extract",
                              "SUCCESS", {})
              ELSE /\ PubStep(p, "read", "done", "SUCCESS", {"read error"})
                   /\ UNCHANGED work_cert
     \/ /\ PubStep(p, "read", "done", "FILE_ERROR", {"read error"})
        /\ UNCHANGED work_cert
  /\ UNCHANGED <<file_size, key_file, fileVars>>

(* readpassword and certificate_decrypt, which accepts only a whole        *)
(* certificate and the right passphrase.  When malloc fails it returns     *)
(* VCTOOL_STATUS_SUCCESS and leaves decrypted_cert NULL, which is then     *)
(* read.                                                                   *)
PubDecrypt(p) ==
  /\ \/ /\ work_cert[p].size = WHOLE
        /\ work_cert' = [work_cert EXCEPT ![p].kind = "plain"]
        /\ PubStep(p, "decrypt", "extract", "SUCCESS", {})
     \/ /\ PubStep(p, "decrypt", "crashed", "SUCCESS", {})
        /\ UNCHANGED work_cert
     \/ /\ \E messages \in {{}, {"no decrypt"}} :
             PubStep(p, "decrypt", "done", "OTHER_ERROR", messages)
        /\ UNCHANGED work_cert
  /\ UNCHANGED <<file_size, key_file, fileVars>>

(* pubkey_extract_public_fields_from_private_cert and                      *)
(* pubkey_certificate_create: the fields are in a private and in a public  *)
(* certificate alike, and may be in the part of one that was read.         *)
PubExtract(p) ==
  /\ \/ /\ work_cert[p].kind \in {"plain", "public"}
        /\ PubStep(p, "extract", "open", "SUCCESS", {})
     \/ PubStep(p, "extract", "done", "OTHER_ERROR", {"no fields"})
  /\ UNCHANGED <<file_size, key_file, work_cert, fileVars>>

PubOpen(p) ==
  /\ \E result \in {"SUCCESS", "EXISTS", "FILE_ERROR"} :
       /\ OpenNew(p, pub_filename[p], result)
       /\ IF result = "SUCCESS" THEN PubStep(p, "open", "write", result, {})
                                ELSE PubStep(p, "open", "done", result, {"no file"})
  /\ UNCHANGED <<file_size, key_file, work_cert>>

PubWrite(p) ==
  /\ \E result \in {"SUCCESS", "FILE_ERROR"}, wrote \in 0 .. WHOLE :
       /\ Write(p, "public", work_cert[p].of, result, wrote)
       /\ PubStep(p, "write", "done", result,
                  IF result # "SUCCESS" THEN {"write error"}
                  ELSE IF wrote # WHOLE THEN {"truncated"} ELSE {})
  /\ UNCHANGED <<file_size, key_file, work_cert>>

PubkeyNext(p) ==
  \/ PubStatOutput(p) \/ PubStatKey(p) \/ PubOpenKey(p) \/ PubRead(p)
  \/ PubDecrypt(p) \/ PubExtract(p) \/ PubOpen(p) \/ PubWrite(p)

-----------------------------------------------------------------------------
(* A pubkey that returns success and prints no error has written a whole   *)
(* public certificate, of a key pair that keygen or another program made.  *)
PubkeySilentSuccess ==
  \A p \in Pubkeys :
    pub_pc[p] = "done" /\ pub_retval[p] = "SUCCESS" /\ pub_stderr[p] = {} =>
      /\ contents[p].kind = "public" /\ contents[p].size = WHOLE
      /\ contents[p].of \in FileIds \ Pubkeys
=============================================================================
