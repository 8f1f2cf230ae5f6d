------------------------------- MODULE Keygen -------------------------------
(***************************************************************************)
(* keygen_command_func, run by any number of processes at once: stat the   *)
(* output file, ask for a passphrase, create and encrypt a key pair, open  *)
(* the output file exclusively and write it.  (What certificate_encrypt    *)
(* does inside is in Records.)                                             *)
(*                                                                         *)
(* A step is one call that can fail.  retval is what the function returns, *)
(* including where it returns the status of an earlier call.               *)
(***************************************************************************)
EXTENDS Files

CONSTANT Keygens   \* the processes that run keygen

ASSUME KeygensAssumption == Keygens \subseteq Procs

VARIABLES
  gen_pc,           \* the next call of each process
  output_filename,
  non_interactive,
  passphrase,       \* "unread", "blank" or "secret"
  encrypted_cert,   \* whether there is one
  gen_retval,
  gen_stderr        \* the messages printed on stderr

genVars == <<gen_pc, output_filename, non_interactive, passphrase, encrypted_cert,
             gen_retval, gen_stderr>>

GenCalls == {"stat", "passphrase", "verify", "create", "encrypt", "open", "write"}
GenMessages == {"won't clobber", "no match", "no key", "no file", "write error", "truncated"}
GenStatus == {"SUCCESS", "NO_ENTRY", "WOULD_CLOBBER", "FILE_ERROR", "EXISTS", "OTHER_ERROR"}

KeygenTypeOK ==
  /\ gen_pc \in [Keygens -> GenCalls \cup {"done"}]
  /\ output_filename \in [Keygens -> Names]
  /\ non_interactive \in [Keygens -> BOOLEAN]
  /\ passphrase \in [Keygens -> {"unread", "blank", "secret"}]
  /\ \A p \in Keygens :
       /\ gen_pc[p] \in {"verify", "encrypt"} => passphrase[p] = "secret"
       /\ gen_pc[p] \in {"create", "open", "write"} => passphrase[p] # "unread"
  /\ encrypted_cert \in [Keygens -> BOOLEAN]
  /\ gen_retval \in [Keygens -> GenStatus]
  /\ gen_stderr \in [Keygens -> SUBSET GenMessages]

KeygenInit ==
  /\ gen_pc = [p \in Keygens |-> "stat"]
  /\ output_filename \in [Keygens -> Names]
  /\ non_interactive \in [Keygens -> BOOLEAN]
  /\ passphrase = [p \in Keygens |-> "unread"]
  /\ encrypted_cert = [p \in Keygens |-> FALSE]
  /\ gen_retval = [p \in Keygens |-> "SUCCESS"]
  /\ gen_stderr = [p \in Keygens |-> {}]

(* The call made at pc, after which process p goes on with the call at     *)
(* next, or returns (next is "done"), with retval set and messages printed.*)
GenStep(p, at, next, retval, messages) ==
  /\ gen_pc[p] = at
  /\ gen_pc' = [gen_pc EXCEPT ![p] = next]
  /\ gen_retval' = [gen_retval EXCEPT ![p] = retval]
  /\ gen_stderr' = [gen_stderr EXCEPT ![p] = @ \cup messages]
  /\ UNCHANGED <<output_filename, non_interactive>>

GenStatOutput(p) ==
  /\ \E result \in StatResults(output_filename[p]) :
       IF result = "NO_ENTRY"
       THEN GenStep(p, "stat", "passphrase", result, {})
       ELSE GenStep(p, "stat", "done", "WOULD_CLOBBER", {"won't clobber"})
  /\ UNCHANGED <<passphrase, encrypted_cert, fileVars>>

(* blankpassword, or readpassword. *)
GenPassphrase(p) ==
  /\ \/ /\ ~non_interactive[p]
        /\ passphrase' = [passphrase EXCEPT ![p] = "secret"]
        /\ GenStep(p, "passphrase", "verify", "SUCCESS", {})
     \/ /\ passphrase' = [passphrase EXCEPT ![p] = "blank"]
        /\ GenStep(p, "passphrase", "create", "SUCCESS", {})
     \/ /\ GenStep(p, "passphrase", "done", "OTHER_ERROR", {})
        /\ UNCHANGED passphrase
  /\ UNCHANGED <<encrypted_cert, fileVars>>

(* readpassword once more.  When the two differ the function returns the   *)
(* status of this readpassword, which is VCTOOL_STATUS_SUCCESS.            *)
GenVerify(p) ==
  /\ \/ GenStep(p, "verify", "create", "SUCCESS", {})
     \/ GenStep(p, "verify", "done", "SUCCESS", {"no match"})
     \/ GenStep(p, "verify", "done", "OTHER_ERROR", {})
  /\ UNCHANGED <<passphrase, encrypted_cert, fileVars>>

(* Mutant: a blank passphrase encrypts the certificate too. *)
GenCreateEncryptsAll(p) ==
  /\ \/ GenStep(p, "create", "encrypt", "SUCCESS", {})
     \/ GenStep(p, "create", "done", "OTHER_ERROR", {"no key"})
  /\ UNCHANGED <<passphrase, encrypted_cert, fileVars>>

(* keypair_certificate_create; a blank passphrase skips the encryption. *)
GenCreate(p) ==
  /\ \/ GenStep(p, "create", IF passphrase[p] = "blank" THEN "open" ELSE "encrypt",
                "SUCCESS", {})
     \/ GenStep(p, "create", "done", "OTHER_ERROR", {"no key"})
  /\ UNCHANGED <<passphrase, encrypted_cert, fileVars>>

(* certificate_encrypt.  When malloc of the encrypted certificate fails    *)
(* it returns the status of the call before, VCTOOL_STATUS_SUCCESS, and    *)
(* sets nothing.                                                           *)
GenEncrypt(p) ==
  /\ \/ /\ GenStep(p, "encrypt", "open", "SUCCESS", {})
        /\ \E allocated \in BOOLEAN :
             encrypted_cert' = [encrypted_cert EXCEPT ![p] = allocated]
     \/ /\ GenStep(p, "encrypt", "done", "OTHER_ERROR", {})
        /\ UNCHANGED encrypted_cert
  /\ UNCHANGED <<passphrase, fileVars>>

GenOpen(p) ==
  /\ \E result \in {"SUCCESS", "EXISTS", "FILE_ERROR"} :
       /\ OpenNew(p, output_filename[p], result)
       /\ IF result = "SUCCESS" THEN GenStep(p, "open", "write", result, {})
                                ELSE GenStep(p, "open", "done", result, {"no file"})
  /\ UNCHANGED <<passphrase, encrypted_cert>>

(* Which certificate to write. *)
WriteCert(p) == IF encrypted_cert[p] THEN "encrypted" ELSE "plain"

(* Mutant: what was written is not compared with the certificate's size. *)
GenWriteUnchecked(p) ==
  /\ \E result \in {"SUCCESS", "FILE_ERROR"}, wrote \in 0 .. WHOLE :
       /\ Write(p, WriteCert(p), p, result, wrote)
       /\ GenStep(p, "write", "done", result, IF result # "SUCCESS" THEN {"write error"} ELSE {})
  /\ UNCHANGED <<passphrase, encrypted_cert>>

(* A short write prints a message and returns file_write's own status.     *)
GenWrite(p) ==
  /\ \E result \in {"SUCCESS", "FILE_ERROR"}, wrote \in 0 .. WHOLE :
       /\ Write(p, WriteCert(p), p, result, wrote)
       /\ GenStep(p, "write", "done", result,
                  IF result # "SUCCESS" THEN {"write error"}
                  ELSE IF wrote # WHOLE THEN {"truncated"} ELSE {})
  /\ UNCHANGED <<passphrase, encrypted_cert>>

KeygenNext(p) ==
  \/ GenStatOutput(p) \/ GenPassphrase(p) \/ GenVerify(p) \/ GenCreate(p)
  \/ GenEncrypt(p) \/ GenOpen(p) \/ GenWrite(p)

-----------------------------------------------------------------------------
(* certificate_encrypt found no memory for the encrypted certificate. *)
NothingEncrypted(p) ==
  gen_pc[p] \in {"open", "write", "done"} /\ passphrase[p] = "secret" /\ ~encrypted_cert[p]

(* A keygen that returns success and prints no error has written its whole *)
(* key pair, and encrypted if a passphrase was given: unless               *)
(* certificate_encrypt found no memory.                                    *)
KeygenSilentSuccess ==
  \A p \in Keygens :
    gen_pc[p] = "done" /\ gen_retval[p] = "SUCCESS" /\ gen_stderr[p] = {} =>
      /\ contents[p].of = p /\ contents[p].size = WHOLE
      /\ contents[p].kind = IF passphrase[p] = "blank" \/ NothingEncrypted(p)
                            THEN "plain" ELSE "encrypted"

(* With a passphrase the key pair is never on disk in the clear, not even  *)
(* in part or after a failure.  The header of certificate_encrypt: the     *)
(* pointer it is given holds "the encrypted certificate on function        *)
(* success".                                                               *)
PassphraseProtects ==
  \A p \in Keygens : passphrase[p] # "blank" => contents[p].kind # "plain"
=============================================================================
