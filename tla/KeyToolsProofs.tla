--------------------------- MODULE KeyToolsProofs ---------------------------
(***************************************************************************)
(* That keygen and pubkey never clobber a file and have done their work    *)
(* when they succeed in silence: for any number of processes, file names,  *)
(* certificate sizes and acts of other programs.                           *)
(***************************************************************************)
EXTENDS KeyTools, TLAPS

(* Nothing, or (part of) a certificate of a key pair that keygen or a      *)
(* program outside vctool has made.                                        *)
Genuine(c) == c = Empty \/ (c.kind # "empty" /\ c.of \in FileIds \ Pubkeys)

FilesInv == \A f \in FileIds : Genuine(contents[f])

-----------------------------------------------------------------------------
(* The files and who may write them, as the processes see each other.      *)
LEMMA Identities ==
  /\ Keygens \subseteq FileIds \ Pubkeys
  /\ Pubkeys \subseteq FileIds \ Keygens
  /\ Outsider \in FileIds \ (Keygens \cup Pubkeys)
  /\ NONE \notin FileIds
  /\ Empty \in Contents
BY ToolsAssumption, ProcsAssumption, NoneAssumption, SizeAssumption
   DEF FileIds, Empty, Contents, Kinds

(* file_open with O_EXCL keeps the types, leaves every file but the one it *)
(* creates alone, and every name that stands for a file.                   *)
LEMMA OpenNewCreates ==
  ASSUME FilesTypeOK, FilesInv, NEW p \in Procs, NEW n \in Names, NEW result,
         OpenNew(p, n, result)
  PROVE  /\ FilesTypeOK' /\ FilesInv'
         /\ meddled' = meddled
         /\ \A m \in Names : Exists(m) => directory'[m] = directory[m]
         /\ \A f \in FileIds \ {p} : contents'[f] = contents[f]
<1>1. p \in FileIds /\ Empty \in Contents /\ "owner" \in Modes
  BY Identities DEF FileIds, Modes
<1>2. CASE UNCHANGED fileVars
  BY <1>2 DEF fileVars, FilesTypeOK, FilesInv, Genuine
<1>3. CASE ~UNCHANGED fileVars
  <2>1. /\ ~Exists(n)
        /\ directory' = [directory EXCEPT ![n] = p]
        /\ contents' = [contents EXCEPT ![p] = Empty]
        /\ mode' = [mode EXCEPT ![p] = "owner"]
        /\ meddled' = meddled
    BY <1>3 DEF OpenNew
  <2>2. FilesTypeOK'
    BY <1>1, <2>1 DEF FilesTypeOK
  <2>3. FilesInv'
    BY <1>1, <2>1 DEF FilesTypeOK, FilesInv, Genuine
  <2> QED
    BY <2>1, <2>2, <2>3 DEF FilesTypeOK, Exists
<1> QED
  BY <1>2, <1>3

(* file_write of a certificate whose key pair is genuine keeps the types   *)
(* and leaves every file but the process's own alone; what it has written  *)
(* when it wrote a whole certificate is that certificate.                  *)
LEMMA WriteOwn ==
  ASSUME FilesTypeOK, FilesInv, NEW p \in Procs,
         NEW kind \in Kinds \ {"empty"}, NEW of \in FileIds \ Pubkeys, NEW result, NEW wrote,
         Write(p, kind, of, result, wrote)
  PROVE  /\ FilesTypeOK' /\ FilesInv'
         /\ meddled' = meddled /\ directory' = directory
         /\ \A f \in FileIds \ {p} : contents'[f] = contents[f]
         /\ wrote = WHOLE => contents'[p] = [kind |-> kind, of |-> of, size |-> WHOLE]
<1>1. p \in FileIds
  BY DEF FileIds
<1>2. wrote \in 0 .. WHOLE /\ WHOLE # 0
  BY SizeAssumption DEF Write
<1>3. [kind |-> kind, of |-> of, size |-> wrote] \in Contents
  BY <1>2 DEF Contents
<1>4. CASE wrote = 0
  BY <1>1, <1>2, <1>4 DEF Write, FilesTypeOK, FilesInv, Genuine
<1>5. CASE wrote # 0
  <2> DEFINE c == [kind |-> kind, of |-> of, size |-> wrote]
  <2>1. contents' = [contents EXCEPT ![p] = c]
    BY <1>5 DEF Write
  <2>2. Genuine(c) /\ c \in Contents
    BY <1>3 DEF Genuine
  <2>3. FilesInv'
    BY <1>1, <2>1, <2>2 DEF FilesInv, FilesTypeOK, Genuine
  <2> QED
    BY <1>1, <2>1, <2>2, <2>3 DEF Write, FilesTypeOK
<1> QED
  BY <1>4, <1>5

(* Other programs put whole certificates of their own into the directory.  *)
LEMMA MeddleFiles ==
  ASSUME FilesTypeOK, FilesInv, Meddle
  PROVE  /\ FilesTypeOK' /\ FilesInv'
         /\ meddled' # meddled
         /\ \A f \in Procs : contents'[f] = contents[f]
<1>1. meddled' \in 0 .. MaxMeddling /\ meddled' # meddled
  BY SizeAssumption DEF Meddle, FilesTypeOK
<1>2. PICK n \in Names :
        \/ \E c \in {[kind |-> k, of |-> Outsider, size |-> WHOLE] :
                       k \in {"plain", "encrypted"}} : PutFile(n, c)
        \/ RemoveFile(n)
        \/ \E m \in Modes : Chmod(n, m)
  BY DEF Meddle
<1>3. ASSUME NEW k \in {"plain", "encrypted"},
             PutFile(n, [kind |-> k, of |-> Outsider, size |-> WHOLE])
      PROVE  FilesTypeOK' /\ FilesInv' /\ \A f \in Procs : contents'[f] = contents[f]
  <2> DEFINE c == [kind |-> k, of |-> Outsider, size |-> WHOLE]
  <2>1. c \in Contents /\ Genuine(c)
    BY Identities, SizeAssumption DEF Contents, Kinds, Genuine
  <2>2. /\ directory' = [directory EXCEPT ![n] = Outsider] /\ mode' = mode
        /\ contents' = [contents EXCEPT ![Outsider] = c]
    BY <1>3 DEF PutFile
  <2>3. FilesInv'
    BY <2>1, <2>2, Identities DEF FilesInv, FilesTypeOK, Genuine
  <2> QED
    BY <1>1, <2>1, <2>2, <2>3, Identities, ProcsAssumption DEF FilesTypeOK
<1>4. CASE RemoveFile(n)
  BY <1>1, <1>4 DEF RemoveFile, FilesTypeOK, FilesInv, Genuine
<1>5. ASSUME NEW m \in Modes, Chmod(n, m)
      PROVE  FilesTypeOK' /\ FilesInv' /\ \A f \in Procs : contents'[f] = contents[f]
  BY <1>1, <1>5 DEF Chmod, FilesTypeOK, FilesInv, Genuine, Exists
<1> QED
  BY <1>1, <1>2, <1>3, <1>4, <1>5 DEF FileIds

-----------------------------------------------------------------------------
(* A keygen that succeeds in silence has written its key pair. *)
GenSuccess(p) ==
  gen_pc[p] = "done" /\ gen_retval[p] = "SUCCESS" /\ gen_stderr[p] = {} =>
    /\ contents[p].of = p /\ contents[p].size = WHOLE
    /\ contents[p].kind = IF passphrase[p] = "blank" \/ NothingEncrypted(p)
                          THEN "plain" ELSE "encrypted"

(* What the invariant says of one keygen and its file, which only the      *)
(* process itself can change: in particular, only a passphrase that was    *)
(* read encrypts a certificate.                                            *)
GenLocal(p) ==
  /\ gen_pc[p] \in {"verify", "encrypt"} => passphrase[p] = "secret"
  /\ gen_pc[p] \in {"create", "open", "write"} => passphrase[p] # "unread"
  /\ gen_pc[p] \in {"stat", "passphrase", "verify", "create"} => ~encrypted_cert[p]
  /\ encrypted_cert[p] => passphrase[p] = "secret"
  /\ GenSuccess(p)

SameGen(q) ==
  /\ gen_pc'[q] = gen_pc[q] /\ passphrase'[q] = passphrase[q]
  /\ encrypted_cert'[q] = encrypted_cert[q]
  /\ gen_retval'[q] = gen_retval[q] /\ gen_stderr'[q] = gen_stderr[q]

(* What a call of keygen does to the variables of every process.           *)
LEMMA GenStepDoes ==
  ASSUME KeygenTypeOK, NEW p \in Keygens, NEW from, NEW next \in GenCalls \cup {"done"},
         NEW retval \in GenStatus, NEW messages \in SUBSET GenMessages,
         GenStep(p, from, next, retval, messages)
  PROVE  /\ gen_pc[p] = from /\ gen_pc'[p] = next /\ gen_retval'[p] = retval
         /\ messages \subseteq gen_stderr'[p]
         /\ gen_pc' \in [Keygens -> GenCalls \cup {"done"}]
         /\ gen_retval' \in [Keygens -> GenStatus]
         /\ gen_stderr' \in [Keygens -> SUBSET GenMessages]
         /\ output_filename' \in [Keygens -> Names]
         /\ non_interactive' \in [Keygens -> BOOLEAN]
         /\ \A q \in Keygens \ {p} :
              /\ gen_pc'[q] = gen_pc[q] /\ gen_retval'[q] = gen_retval[q]
              /\ gen_stderr'[q] = gen_stderr[q]
BY DEF KeygenTypeOK, GenStep

(* A process that other processes have left alone keeps what is said of it.*)
LEMMA GenOthers ==
  ASSUME NEW q \in Keygens, GenLocal(q), SameGen(q), contents'[q] = contents[q]
  PROVE  GenLocal(q)'
BY DEF GenLocal, GenSuccess, SameGen, NothingEncrypted

(* A step of keygen keeps its invariant: it is done with success and       *)
(* without a message only where a whole certificate has been written.      *)
LEMMA KeygenStep ==
  ASSUME FilesTypeOK, FilesInv, KeygenTypeOK, NEW p \in Keygens, GenLocal(p), KeygenNext(p)
  PROVE  /\ FilesTypeOK' /\ FilesInv'
         /\ meddled' = meddled /\ gen_pc'[p] # gen_pc[p]
         /\ \A n \in Names : Exists(n) => directory'[n] = directory[n]
         /\ \A f \in FileIds \ {p} : contents'[f] = contents[f]
         /\ GenLocal(p)' /\ \A q \in Keygens \ {p} : SameGen(q)
         /\ gen_pc' \in [Keygens -> GenCalls \cup {"done"}]
         /\ gen_retval' \in [Keygens -> GenStatus]
         /\ gen_stderr' \in [Keygens -> SUBSET GenMessages]
         /\ output_filename' \in [Keygens -> Names]
         /\ non_interactive' \in [Keygens -> BOOLEAN]
         /\ passphrase' \in [Keygens -> {"unread", "blank", "secret"}]
         /\ encrypted_cert' \in [Keygens -> BOOLEAN]
<1> DEFINE Files == /\ FilesTypeOK' /\ FilesInv' /\ meddled' = meddled
                    /\ \A n \in Names : Exists(n) => directory'[n] = directory[n]
                    /\ \A f \in FileIds \ {p} : contents'[f] = contents[f]
           Types == /\ gen_pc' \in [Keygens -> GenCalls \cup {"done"}]
                    /\ gen_retval' \in [Keygens -> GenStatus]
                    /\ gen_stderr' \in [Keygens -> SUBSET GenMessages]
                    /\ output_filename' \in [Keygens -> Names]
                    /\ non_interactive' \in [Keygens -> BOOLEAN]
           Frame == \A q \in Keygens \ {p} :
                      /\ gen_pc'[q] = gen_pc[q] /\ gen_retval'[q] = gen_retval[q]
                      /\ gen_stderr'[q] = gen_stderr[q]
           Step(from, next) == /\ gen_pc[p] = from /\ gen_pc'[p] = next
                               /\ Types /\ Frame
           Fails == /\ \E from \in GenCalls : Step(from, "done")
                    /\ gen_retval'[p] # "SUCCESS" \/ gen_stderr'[p] # {}
           Keep == UNCHANGED <<passphrase, encrypted_cert>>
           Local == /\ GenLocal(p)' /\ \A q \in Keygens \ {p} : SameGen(q)
                    /\ Types /\ gen_pc'[p] # gen_pc[p]
                    /\ passphrase' \in [Keygens -> {"unread", "blank", "secret"}]
                    /\ encrypted_cert' \in [Keygens -> BOOLEAN]
<1>1. UNCHANGED fileVars => Files
  BY DEF fileVars, FilesTypeOK, FilesInv, Genuine
<1>2. ASSUME NEW from \in GenCalls, NEW next \in GenCalls \cup {"done"},
             NEW retval \in GenStatus, NEW messages \in SUBSET GenMessages,
             GenStep(p, from, next, retval, messages)
      PROVE  /\ Step(from, next) /\ gen_retval'[p] = retval
             /\ messages \subseteq gen_stderr'[p]
  BY <1>2, GenStepDoes
<1>3. ASSUME NEW from \in GenCalls, NEW retval \in GenStatus,
             NEW messages \in SUBSET GenMessages,
             GenStep(p, from, "done", retval, messages),
             retval # "SUCCESS" \/ messages # {}
      PROVE  Fails
  <2>1. Step(from, "done") /\ gen_retval'[p] = retval /\ messages \subseteq gen_stderr'[p]
    BY <1>2, <1>3
  <2> QED
    BY <1>3, <2>1
<1>4. /\ passphrase \in [Keygens -> {"unread", "blank", "secret"}]
      /\ encrypted_cert \in [Keygens -> BOOLEAN]
      /\ {"stat", "passphrase", "verify", "create", "encrypt", "open", "write"} = GenCalls
      /\ "done" \notin GenCalls
  BY DEF KeygenTypeOK, GenCalls
<1>5. ASSUME Fails, Keep
      PROVE  Local
  <2>1. GenSuccess(p)'
    BY <1>5 DEF GenSuccess
  <2>2. PICK from \in GenCalls : Step(from, "done")
    BY <1>5
  <2>3. GenLocal(p)'
    BY <1>5, <2>1, <2>2 DEF GenLocal
  <2> QED
    BY <1>4, <1>5, <2>2, <2>3 DEF SameGen
<1>6. ASSUME NEW from \in GenCalls, NEW next \in GenCalls, from # next, Step(from, next),
             \A q \in Keygens \ {p} : /\ passphrase'[q] = passphrase[q]
                                      /\ encrypted_cert'[q] = encrypted_cert[q],
             passphrase' \in [Keygens -> {"unread", "blank", "secret"}],
             encrypted_cert' \in [Keygens -> BOOLEAN],
             next \in {"stat", "passphrase", "verify", "create"} => ~encrypted_cert'[p],
             encrypted_cert'[p] => passphrase'[p] = "secret",
             next \in {"verify", "encrypt"} => passphrase'[p] = "secret",
             next \in {"create", "open", "write"} => passphrase'[p] # "unread"
      PROVE  Local
  <2>1. GenSuccess(p)'
    BY <1>4, <1>6 DEF GenSuccess
  <2>2. GenLocal(p)'
    BY <1>6, <2>1 DEF GenLocal
  <2> QED
    BY <1>6, <2>2 DEF SameGen
<1> HIDE DEF Files, Fails, Step, Keep, Local
<1> USE DEF GenStatus, GenMessages
<1>10. CASE GenStatOutput(p)
  <2>1. Keep /\ Files
    BY <1>1, <1>10 DEF GenStatOutput, Keep
  <2>2. Fails \/ Step("stat", "passphrase")
    BY <1>2, <1>3, <1>4, <1>10 DEF GenStatOutput, StatResults
  <2>3. Step("stat", "passphrase") => ~encrypted_cert[p]
    BY DEF Step, GenLocal
  <2>4. Local
    BY <1>4, <1>5, <1>6, <2>1, <2>2, <2>3 DEF Keep
  <2> QED
    BY <2>1, <2>4 DEF Files, Local
<1>11. CASE GenPassphrase(p)
  <2>1. encrypted_cert' = encrypted_cert /\ Files /\ ~encrypted_cert[p]
    BY <1>1, <1>11 DEF GenPassphrase, GenStep, GenLocal
  <2>2. ASSUME passphrase' = [passphrase EXCEPT ![p] = "secret"], Step("passphrase", "verify")
        PROVE  Local
    BY <1>4, <1>6, <2>1, <2>2
  <2>3. ASSUME passphrase' = [passphrase EXCEPT ![p] = "blank"], Step("passphrase", "create")
        PROVE  Local
    BY <1>4, <1>6, <2>1, <2>3
  <2>4. Local
    BY <1>2, <1>3, <1>4, <1>5, <1>11, <2>1, <2>2, <2>3 DEF GenPassphrase, Keep
  <2> QED
    BY <2>1, <2>4 DEF Files, Local
<1>12. CASE GenVerify(p)
  <2>1. Keep /\ Files /\ ~encrypted_cert[p] /\ passphrase[p] = "secret"
    BY <1>1, <1>12 DEF GenVerify, GenStep, GenLocal, Keep
  <2>2. Fails \/ Step("verify", "create")
    BY <1>2, <1>3, <1>4, <1>12 DEF GenVerify
  <2>3. Local
    BY <1>4, <1>5, <1>6, <2>1, <2>2 DEF Keep
  <2> QED
    BY <2>1, <2>3 DEF Files, Local
<1>13. CASE GenCreate(p)
  <2>1. Keep /\ Files /\ ~encrypted_cert[p] /\ passphrase[p] # "unread"
    BY <1>1, <1>13 DEF GenCreate, GenStep, GenLocal, Keep
  <2>2. \/ Fails
        \/ passphrase[p] = "blank" /\ Step("create", "open")
        \/ passphrase[p] # "blank" /\ Step("create", "encrypt")
    BY <1>2, <1>3, <1>4, <1>13 DEF GenCreate
  <2>3. Local
    BY <1>4, <1>5, <1>6, <2>1, <2>2 DEF Keep
  <2> QED
    BY <2>1, <2>3 DEF Files, Local
<1>14. CASE GenEncrypt(p)
  <2>1. passphrase' = passphrase /\ Files /\ passphrase[p] = "secret"
    BY <1>1, <1>14 DEF GenEncrypt, GenStep, GenLocal
  <2>2. ASSUME Step("encrypt", "open"), NEW allocated \in BOOLEAN,
               encrypted_cert' = [encrypted_cert EXCEPT ![p] = allocated]
        PROVE  Local
    BY <1>4, <1>6, <2>1, <2>2
  <2>3. Local
    BY <1>2, <1>3, <1>4, <1>5, <1>14, <2>1, <2>2 DEF GenEncrypt, Keep
  <2> QED
    BY <2>1, <2>3 DEF Files, Local
<1>15. CASE GenOpen(p)
  <2>1. PICK result \in {"SUCCESS", "EXISTS", "FILE_ERROR"} :
          /\ OpenNew(p, output_filename[p], result)
          /\ IF result = "SUCCESS" THEN GenStep(p, "open", "write", result, {})
                                   ELSE GenStep(p, "open", "done", result, {"no file"})
    BY <1>15 DEF GenOpen
  <2>2. p \in Procs /\ output_filename[p] \in Names
    BY ToolsAssumption DEF KeygenTypeOK
  <2>3. Files
    BY <2>1, <2>2, OpenNewCreates DEF Files
  <2>4. Keep /\ passphrase[p] # "unread" /\ (encrypted_cert[p] => passphrase[p] = "secret")
    BY <1>15, <2>1 DEF GenOpen, GenStep, GenLocal, Keep
  <2>5. Fails \/ Step("open", "write")
    BY <1>2, <1>3, <1>4, <2>1
  <2>6. Local
    BY <1>4, <1>5, <1>6, <2>4, <2>5 DEF Keep
  <2> QED
    BY <2>3, <2>6 DEF Files, Local
<1>16. CASE GenWrite(p)
  <2>1. PICK result \in {"SUCCESS", "FILE_ERROR"}, wrote \in 0 .. WHOLE :
          /\ Write(p, WriteCert(p), p, result, wrote)
          /\ GenStep(p, "write", "done", result,
                     IF result # "SUCCESS" THEN {"write error"}
                     ELSE IF wrote # WHOLE THEN {"truncated"} ELSE {})
    BY <1>16 DEF GenWrite
  <2>2. p \in Procs /\ p \in FileIds \ Pubkeys /\ WriteCert(p) \in Kinds \ {"empty"}
    BY Identities, ToolsAssumption DEF WriteCert, Kinds
  <2>3. /\ FilesTypeOK' /\ FilesInv'
        /\ meddled' = meddled /\ directory' = directory
        /\ \A f \in FileIds \ {p} : contents'[f] = contents[f]
        /\ wrote = WHOLE => contents'[p] = [kind |-> WriteCert(p), of |-> p, size |-> WHOLE]
    BY <2>1, <2>2, WriteOwn
  <2>4. Files
    BY <2>3 DEF Files
  <2>5. Keep /\ passphrase[p] # "unread" /\ (encrypted_cert[p] => passphrase[p] = "secret")
    BY <1>16, <2>1 DEF GenWrite, GenStep, GenLocal, Keep
  <2>6. CASE wrote # WHOLE \/ result # "SUCCESS"
    <3>1. Fails
      BY <1>3, <1>4, <2>1, <2>6
    <3> QED
      BY <1>5, <2>4, <2>5, <3>1 DEF Files, Local
  <2>7. CASE wrote = WHOLE
    <3>1. \E messages \in SUBSET GenMessages : GenStep(p, "write", "done", result, messages)
      BY <2>1
    <3>2. Step("write", "done")
      BY <1>2, <1>4, <3>1
    <3>3. GenSuccess(p)'
      <4>1. /\ passphrase' = passphrase /\ encrypted_cert' = encrypted_cert
            /\ gen_pc'[p] = "done"
        BY <2>5, <3>2 DEF Step, Keep
      <4>2. /\ contents'[p].kind = WriteCert(p) /\ contents'[p].of = p
            /\ contents'[p].size = WHOLE
        BY <2>3, <2>7
      <4>3. WriteCert(p) = IF passphrase[p] = "blank" \/ (passphrase[p] = "secret" /\ ~encrypted_cert[p])
                           THEN "plain" ELSE "encrypted"
        BY <1>4, <2>5 DEF WriteCert
      <4> QED
        BY <4>1, <4>2, <4>3 DEF GenSuccess, NothingEncrypted
    <3>4. Local
      BY <1>4, <2>5, <3>2, <3>3 DEF Local, GenLocal, SameGen, Step, Keep
    <3> QED
      BY <2>4, <3>4 DEF Files, Local
  <2> QED
    BY <2>6, <2>7
<1> QED
  BY <1>10, <1>11, <1>12, <1>13, <1>14, <1>15, <1>16 DEF KeygenNext

-----------------------------------------------------------------------------
(* A pubkey that succeeds in silence has written a public certificate. *)
PubSuccess(p) ==
  pub_pc[p] = "done" /\ pub_retval[p] = "SUCCESS" /\ pub_stderr[p] = {} =>
    /\ contents[p].kind = "public" /\ contents[p].size = WHOLE
    /\ contents[p].of \in FileIds \ Pubkeys

(* What the invariant says of one pubkey and its file: it reads from a     *)
(* file that there was, and has a key pair when it writes.                 *)
PubLocal(p) ==
  /\ pub_pc[p] = "read" => key_file[p] \in FileIds
  /\ Genuine(work_cert[p])
  /\ pub_pc[p] \in {"open", "write"} => work_cert[p].kind # "empty"
  /\ PubSuccess(p)

SamePub(q) ==
  /\ pub_pc'[q] = pub_pc[q] /\ key_file'[q] = key_file[q] /\ work_cert'[q] = work_cert[q]
  /\ pub_retval'[q] = pub_retval[q] /\ pub_stderr'[q] = pub_stderr[q]

(* What a call of pubkey does to the variables of every process.           *)
LEMMA PubStepDoes ==
  ASSUME PubkeyTypeOK, NEW p \in Pubkeys, NEW from,
         NEW next \in PubCalls \cup {"done", "crashed"},
         NEW retval \in PubStatus, NEW messages \in SUBSET PubMessages,
         PubStep(p, from, next, retval, messages)
  PROVE  /\ pub_pc[p] = from /\ pub_pc'[p] = next /\ pub_retval'[p] = retval
         /\ messages \subseteq pub_stderr'[p]
         /\ pub_pc' \in [Pubkeys -> PubCalls \cup {"done", "crashed"}]
         /\ pub_retval' \in [Pubkeys -> PubStatus]
         /\ pub_stderr' \in [Pubkeys -> SUBSET PubMessages]
         /\ key_filename' \in [Pubkeys -> Names]
         /\ pub_filename' \in [Pubkeys -> Names]
         /\ \A q \in Pubkeys \ {p} :
              /\ pub_pc'[q] = pub_pc[q] /\ pub_retval'[q] = pub_retval[q]
              /\ pub_stderr'[q] = pub_stderr[q]
BY DEF PubkeyTypeOK, PubStep

(* A process that other processes have left alone keeps what is said of it.*)
LEMMA PubOthers ==
  ASSUME NEW q \in Pubkeys, PubLocal(q), SamePub(q), contents'[q] = contents[q]
  PROVE  PubLocal(q)'
BY DEF PubLocal, PubSuccess, SamePub, Genuine

(* The first n bytes of a genuine certificate. *)
LEMMA PrefixGenuine ==
  ASSUME NEW c \in Contents, Genuine(c), NEW n \in 0 .. WHOLE, n <= c.size
  PROVE  Prefix(c, n) \in Contents /\ Genuine(Prefix(c, n))
<1>1. CASE n = 0
  BY <1>1, Identities DEF Prefix, Genuine
<1>2. CASE n # 0
  <2>1. c # Empty
    BY <1>2 DEF Empty
  <2>2. c.kind # "empty" /\ c.of \in FileIds \ Pubkeys
    BY <2>1 DEF Genuine
  <2>3. Prefix(c, n) = [c EXCEPT !.size = n]
    BY <1>2 DEF Prefix
  <2> QED
    BY <2>2, <2>3 DEF Contents, Genuine
<1> QED
  BY <1>1, <1>2

(* A step of pubkey keeps its invariant: what it writes is the key pair of *)
(* the certificate it read, which it has refused if there was none.        *)
LEMMA PubkeyStep ==
  ASSUME FilesTypeOK, FilesInv, PubkeyTypeOK, NEW p \in Pubkeys, PubLocal(p), PubkeyNext(p)
  PROVE  /\ FilesTypeOK' /\ FilesInv'
         /\ meddled' = meddled /\ pub_pc'[p] # pub_pc[p]
         /\ \A n \in Names : Exists(n) => directory'[n] = directory[n]
         /\ \A f \in FileIds \ {p} : contents'[f] = contents[f]
         /\ PubLocal(p)' /\ \A q \in Pubkeys \ {p} : SamePub(q)
         /\ PubkeyTypeOK'
<1> DEFINE Files == /\ FilesTypeOK' /\ FilesInv' /\ meddled' = meddled
                    /\ \A n \in Names : Exists(n) => directory'[n] = directory[n]
                    /\ \A f \in FileIds \ {p} : contents'[f] = contents[f]
           Types == /\ pub_pc' \in [Pubkeys -> PubCalls \cup {"done", "crashed"}]
                    /\ pub_retval' \in [Pubkeys -> PubStatus]
                    /\ pub_stderr' \in [Pubkeys -> SUBSET PubMessages]
                    /\ key_filename' \in [Pubkeys -> Names]
                    /\ pub_filename' \in [Pubkeys -> Names]
           Frame == \A q \in Pubkeys \ {p} :
                      /\ pub_pc'[q] = pub_pc[q] /\ pub_retval'[q] = pub_retval[q]
                      /\ pub_stderr'[q] = pub_stderr[q]
           Step(from, next) == /\ pub_pc[p] = from /\ pub_pc'[p] = next
                               /\ Types /\ Frame
           Fails == /\ \E from \in PubCalls : Step(from, "done")
                    /\ pub_retval'[p] # "SUCCESS" \/ pub_stderr'[p] # {}
           Data == /\ file_size' \in [Pubkeys -> 0 .. WHOLE]
                   /\ key_file' \in [Pubkeys -> FileIds \cup {NONE}]
                   /\ work_cert' \in [Pubkeys -> Contents]
                   /\ \A q \in Pubkeys \ {p} :
                        key_file'[q] = key_file[q] /\ work_cert'[q] = work_cert[q]
                   /\ Genuine(work_cert'[p])
           Keep == UNCHANGED <<file_size, key_file, work_cert>>
           Local == /\ PubLocal(p)' /\ \A q \in Pubkeys \ {p} : SamePub(q)
                    /\ PubkeyTypeOK' /\ pub_pc'[p] # pub_pc[p]
<1>1. UNCHANGED fileVars => Files
  BY DEF fileVars, FilesTypeOK, FilesInv, Genuine
<1>2. ASSUME NEW from \in PubCalls, NEW next \in PubCalls \cup {"done", "crashed"},
             NEW retval \in PubStatus, NEW messages \in SUBSET PubMessages,
             PubStep(p, from, next, retval, messages)
      PROVE  /\ Step(from, next) /\ pub_retval'[p] = retval
             /\ messages \subseteq pub_stderr'[p]
  BY <1>2, PubStepDoes
<1>3. ASSUME NEW from \in PubCalls, NEW retval \in PubStatus,
             NEW messages \in SUBSET PubMessages,
             PubStep(p, from, "done", retval, messages),
             retval # "SUCCESS" \/ messages # {}
      PROVE  Fails
  <2>1. Step(from, "done") /\ pub_retval'[p] = retval /\ messages \subseteq pub_stderr'[p]
    BY <1>2, <1>3
  <2> QED
    BY <1>3, <2>1
<1>4. /\ {"stat output", "stat key", "open key", "read", "decrypt", "extract", "open",
          "write"} = PubCalls
      /\ {"done", "crashed"} \cap PubCalls = {}
  BY DEF PubCalls
<1>5. Keep => Data
  BY DEF PubkeyTypeOK, PubLocal
<1>6. ASSUME Fails, Data
      PROVE  Local
  <2>1. PubSuccess(p)'
    BY <1>6 DEF PubSuccess
  <2>2. PICK from \in PubCalls : Step(from, "done")
    BY <1>6
  <2>3. PubLocal(p)'
    BY <1>6, <2>1, <2>2 DEF PubLocal, Genuine
  <2> QED
    BY <1>4, <1>6, <2>2, <2>3 DEF SamePub, PubkeyTypeOK
<1>7. ASSUME NEW from \in PubCalls, NEW next \in PubCalls \cup {"crashed"}, from # next,
             Step(from, next), Data,
             next = "read" => key_file'[p] \in FileIds,
             next \in {"open", "write"} => work_cert'[p].kind # "empty"
      PROVE  Local
  <2>1. PubSuccess(p)'
    BY <1>4, <1>7 DEF PubSuccess
  <2>2. PubLocal(p)'
    BY <1>7, <2>1 DEF PubLocal, Genuine
  <2> QED
    BY <1>7, <2>2 DEF SamePub, PubkeyTypeOK
<1> HIDE DEF Files, Fails, Step, Data, Keep, Local
<1> USE DEF PubStatus, PubMessages
<1>10. CASE PubStatOutput(p)
  <2>1. Keep /\ Files
    BY <1>1, <1>10 DEF PubStatOutput, Keep
  <2>2. Fails \/ Step("stat output", "stat key")
    BY <1>2, <1>3, <1>4, <1>10 DEF PubStatOutput, StatResults
  <2>3. Local
    BY <1>4, <1>5, <1>6, <1>7, <2>1, <2>2
  <2> QED
    BY <2>1, <2>3 DEF Files, Local
<1>11. CASE PubStatKey(p)
  <2> DEFINE f == directory[key_filename[p]]
  <2>1. /\ key_file' = key_file /\ work_cert' = work_cert /\ Files
        /\ file_size' = file_size \/ (f \in FileIds /\ file_size' = [file_size EXCEPT ![p] = contents[f].size])
    <3>1. f \in FileIds \cup {NONE}
      BY DEF FilesTypeOK, PubkeyTypeOK
    <3>2. Exists(key_filename[p]) => f \in FileIds
      BY <3>1 DEF Exists
    <3> QED
      BY <1>1, <1>11, <3>2 DEF PubStatKey, StatResults
  <2>2. Data
    <3>1. \A g \in FileIds : contents[g].size \in 0 .. WHOLE
      BY DEF FilesTypeOK, Contents
    <3> QED
      BY <2>1, <3>1 DEF Data, PubkeyTypeOK, PubLocal
  <2>3. Fails \/ Step("stat key", "open key")
    <3>1. PICK result \in StatResults(key_filename[p]) :
            IF result # "SUCCESS"
            THEN PubStep(p, "stat key", "done", result, {"missing"})
            ELSE CASE mode[f] = "shared" -> PubStep(p, "stat key", "done", result, {"bad bits"})
                   [] mode[f] = "unreadable" -> PubStep(p, "stat key", "done", result, {"unreadable"})
                   [] mode[f] = "owner" -> \/ PubStep(p, "stat key", "open key", result, {})
                                           \/ PubStep(p, "stat key", "done", "OTHER_ERROR", {})
      BY <1>11 DEF PubStatKey
    <3>2. result \in {"SUCCESS", "NO_ENTRY", "FILE_ERROR"}
      BY <3>1 DEF StatResults
    <3>3. CASE result # "SUCCESS"
      BY <1>3, <1>4, <3>1, <3>2, <3>3
    <3>4. CASE result = "SUCCESS"
      <4>1. mode[f] \in {"shared", "unreadable", "owner"}
        <5>1. Exists(key_filename[p]) /\ key_filename[p] \in Names
          BY <3>1, <3>4 DEF StatResults, PubkeyTypeOK
        <5> QED
          BY <5>1 DEF Exists, FilesTypeOK, Modes
      <4> QED
        BY <1>2, <1>3, <1>4, <3>1, <3>4, <4>1
    <3> QED
      BY <3>3, <3>4
  <2>4. Local
    BY <1>4, <1>6, <1>7, <2>2, <2>3
  <2> QED
    BY <2>1, <2>4 DEF Files, Local
<1>12. CASE PubOpenKey(p)
  <2>1. PICK result \in OpenReadResults(key_filename[p]) :
          IF result = "SUCCESS"
          THEN /\ PubStep(p, "open key", "read", result, {})
               /\ key_file' = [key_file EXCEPT ![p] = directory[key_filename[p]]]
          ELSE PubStep(p, "open key", "done", result, {"no key"}) /\ key_file' = key_file
    BY <1>12 DEF PubOpenKey
  <2>2. file_size' = file_size /\ work_cert' = work_cert /\ Files
    BY <1>1, <1>12 DEF PubOpenKey
  <2>3. CASE result = "SUCCESS"
    <3>1. directory[key_filename[p]] \in FileIds
      BY <2>1, <2>3 DEF OpenReadResults, Exists, FilesTypeOK, PubkeyTypeOK
    <3>2. Data /\ key_file'[p] \in FileIds
      BY <2>1, <2>2, <2>3, <3>1 DEF Data, PubkeyTypeOK, PubLocal
    <3>3. Step("open key", "read")
      BY <1>2, <1>4, <2>1, <2>3
    <3> QED
      BY <1>4, <1>7, <2>2, <3>2, <3>3 DEF Files, Local
  <2>4. CASE result # "SUCCESS"
    <3>1. Fails
      BY <1>3, <1>4, <2>1, <2>4 DEF OpenReadResults
    <3> QED
      BY <1>5, <1>6, <2>1, <2>2, <2>4, <3>1 DEF Files, Local, Keep
  <2> QED
    BY <2>3, <2>4
<1>13. CASE PubRead(p)
  <2>1. Files /\ file_size' = file_size /\ key_file' = key_file
    BY <1>1, <1>13 DEF PubRead
  <2>2. key_file[p] \in FileIds
    BY <1>13 DEF PubRead, PubLocal
  <2>3. ASSUME NEW n \in ReadSizes(key_file[p], file_size[p])
        PROVE  /\ Prefix(contents[key_file[p]], n) \in Contents
               /\ Genuine(Prefix(contents[key_file[p]], n))
    <3>1. file_size[p] \in 0 .. WHOLE /\ contents[key_file[p]] \in Contents
      BY <2>2 DEF PubkeyTypeOK, FilesTypeOK
    <3>2. n \in 0 .. WHOLE /\ n <= contents[key_file[p]].size
      BY <2>3, <3>1, SizeAssumption DEF ReadSizes
    <3> QED
      BY <2>2, <3>1, <3>2, PrefixGenuine DEF FilesInv
  <2>4. ASSUME NEW n \in ReadSizes(key_file[p], file_size[p]), NEW next \in {"decrypt", "extract"},
               work_cert' = [work_cert EXCEPT ![p] = Prefix(contents[key_file[p]], n)],
               PubStep(p, "read", next, "SUCCESS", {})
        PROVE  Local
    <3>1. Data
      BY <2>1, <2>3, <2>4 DEF Data, PubkeyTypeOK
    <3> QED
      BY <1>2, <1>4, <1>7, <2>4, <3>1
  <2>5. ASSUME work_cert' = work_cert, NEW retval \in {"SUCCESS", "FILE_ERROR"},
               PubStep(p, "read", "done", retval, {"read error"})
        PROVE  Local
    BY <1>3, <1>4, <1>5, <1>6, <2>1, <2>5 DEF Keep
  <2>6. Local
    BY <1>13, <2>4, <2>5 DEF PubRead
  <2> QED
    BY <2>1, <2>6 DEF Files, Local
<1>14. CASE PubDecrypt(p)
  <2>1. Files /\ file_size' = file_size /\ key_file' = key_file
    BY <1>1, <1>14 DEF PubDecrypt
  <2>2. CASE /\ work_cert[p].size = WHOLE
             /\ work_cert' = [work_cert EXCEPT ![p].kind = "plain"]
             /\ PubStep(p, "decrypt", "extract", "SUCCESS", {})
    <3>1. work_cert[p] \in Contents /\ work_cert[p] # Empty /\ Genuine(work_cert[p])
      <4>1. Empty.size # WHOLE
        BY SizeAssumption DEF Empty
      <4> QED
        BY <2>2, <4>1 DEF PubkeyTypeOK, PubLocal
    <3>2. /\ [work_cert[p] EXCEPT !.kind = "plain"] \in Contents
          /\ Genuine([work_cert[p] EXCEPT !.kind = "plain"])
      BY <3>1 DEF Contents, Kinds, Genuine
    <3>3. work_cert' = [work_cert EXCEPT ![p] = [work_cert[p] EXCEPT !.kind = "plain"]]
      BY <2>2
    <3>4. Data
      BY <2>1, <3>2, <3>3 DEF Data, PubkeyTypeOK
    <3>5. Step("decrypt", "extract")
      BY <1>2, <1>4, <2>2
    <3>6. Local
      BY <1>4, <1>7, <3>4, <3>5
    <3> QED
      BY <2>1, <3>6 DEF Files, Local
  <2>3. CASE PubStep(p, "decrypt", "crashed", "SUCCESS", {}) /\ work_cert' = work_cert
    BY <1>2, <1>4, <1>5, <1>7, <2>1, <2>3 DEF Keep, Files, Local
  <2>4. CASE /\ \E messages \in {{}, {"no decrypt"}} :
                  PubStep(p, "decrypt", "done", "OTHER_ERROR", messages)
             /\ work_cert' = work_cert
    BY <1>3, <1>4, <1>5, <1>6, <2>1, <2>4 DEF Keep, Files, Local
  <2> QED
    BY <1>14, <2>2, <2>3, <2>4 DEF PubDecrypt
<1>15. CASE PubExtract(p)
  <2>1. Keep /\ Files
    BY <1>1, <1>15 DEF PubExtract, Keep
  <2>2. Fails \/ (Step("extract", "open") /\ work_cert[p].kind # "empty")
    BY <1>2, <1>3, <1>4, <1>15 DEF PubExtract
  <2>3. Local
    BY <1>4, <1>5, <1>6, <1>7, <2>1, <2>2 DEF Keep
  <2> QED
    BY <2>1, <2>3 DEF Files, Local
<1>16. CASE PubOpen(p)
  <2>1. PICK result \in {"SUCCESS", "EXISTS", "FILE_ERROR"} :
          /\ OpenNew(p, pub_filename[p], result)
          /\ IF result = "SUCCESS" THEN PubStep(p, "open", "write", result, {})
                                   ELSE PubStep(p, "open", "done", result, {"no file"})
    BY <1>16 DEF PubOpen
  <2>2. p \in Procs /\ pub_filename[p] \in Names
    BY ToolsAssumption DEF PubkeyTypeOK
  <2>3. Files
    BY <2>1, <2>2, OpenNewCreates DEF Files
  <2>4. Keep /\ work_cert[p].kind # "empty"
    BY <1>16, <2>1 DEF PubOpen, PubStep, PubLocal, Keep
  <2>5. Fails \/ Step("open", "write")
    BY <1>2, <1>3, <1>4, <2>1
  <2>6. Local
    BY <1>4, <1>5, <1>6, <1>7, <2>4, <2>5 DEF Keep
  <2> QED
    BY <2>3, <2>6 DEF Files, Local
<1>17. CASE PubWrite(p)
  <2>1. PICK result \in {"SUCCESS", "FILE_ERROR"}, wrote \in 0 .. WHOLE :
          /\ Write(p, "public", work_cert[p].of, result, wrote)
          /\ PubStep(p, "write", "done", result,
                     IF result # "SUCCESS" THEN {"write error"}
                     ELSE IF wrote # WHOLE THEN {"truncated"} ELSE {})
    BY <1>17 DEF PubWrite
  <2>2. Keep /\ work_cert[p].of \in FileIds \ Pubkeys
    <3>1. Keep /\ pub_pc[p] = "write"
      BY <1>17, <2>1 DEF PubWrite, PubStep, Keep
    <3> QED
      BY <3>1 DEF PubLocal, Genuine, Empty
  <2>3. p \in Procs /\ "public" \in Kinds \ {"empty"}
    BY ToolsAssumption DEF Kinds
  <2>4. /\ FilesTypeOK' /\ FilesInv'
        /\ meddled' = meddled /\ directory' = directory
        /\ \A f \in FileIds \ {p} : contents'[f] = contents[f]
        /\ wrote = WHOLE =>
             contents'[p] = [kind |-> "public", of |-> work_cert[p].of, size |-> WHOLE]
    BY <2>1, <2>2, <2>3, WriteOwn
  <2>5. Files
    BY <2>4 DEF Files
  <2>6. CASE wrote # WHOLE \/ result # "SUCCESS"
    <3>1. Fails
      BY <1>3, <1>4, <2>1, <2>6
    <3> QED
      BY <1>5, <1>6, <2>2, <2>5, <3>1 DEF Files, Local
  <2>7. CASE wrote = WHOLE
    <3>1. \E messages \in SUBSET PubMessages : PubStep(p, "write", "done", result, messages)
      BY <2>1
    <3>2. Step("write", "done")
      BY <1>2, <1>4, <3>1
    <3>3. PubSuccess(p)'
      <4>1. /\ contents'[p].kind = "public" /\ contents'[p].size = WHOLE
            /\ contents'[p].of \in FileIds \ Pubkeys
        BY <2>2, <2>4, <2>7
      <4> QED
        BY <4>1 DEF PubSuccess
    <3>4. Data
      BY <1>5, <2>2
    <3>5. PubLocal(p)'
      BY <3>2, <3>3, <3>4 DEF PubLocal, Genuine, Step, Data
    <3>6. Local
      BY <1>4, <3>2, <3>4, <3>5 DEF Local, SamePub, Step, Data, PubkeyTypeOK
    <3> QED
      BY <2>5, <3>6 DEF Files, Local
  <2> QED
    BY <2>6, <2>7
<1> QED
  BY <1>10, <1>11, <1>12, <1>13, <1>14, <1>15, <1>16, <1>17 DEF PubkeyNext

-----------------------------------------------------------------------------
ToolsInv ==
  /\ ToolsTypeOK /\ FilesInv
  /\ \A p \in Keygens : GenLocal(p)
  /\ \A p \in Pubkeys : PubLocal(p)

(* The processes before their first call. *)
LEMMA InitTools == ToolsInit => ToolsInv
<1> SUFFICES ASSUME ToolsInit PROVE ToolsInv
  OBVIOUS
<1>1. FilesTypeOK /\ FilesInv
  <2>1. 0 \in 0 .. MaxMeddling
    BY SizeAssumption
  <2>2. Empty \in Contents /\ "owner" \in Modes
    BY Identities DEF Modes
  <2> QED
    BY <2>1, <2>2 DEF ToolsInit, FilesInit, FilesTypeOK, FilesInv, Genuine
<1>2. KeygenTypeOK /\ \A p \in Keygens : GenLocal(p)
  BY DEF ToolsInit, KeygenInit, KeygenTypeOK, GenLocal, GenSuccess, GenCalls, GenMessages,
         GenStatus
<1>3. PubkeyTypeOK /\ \A p \in Pubkeys : PubLocal(p)
  <2>1. 0 \in 0 .. WHOLE
    BY SizeAssumption
  <2>2. PubkeyTypeOK
    BY Identities, <2>1 DEF ToolsInit, PubkeyInit, PubkeyTypeOK, PubCalls, PubMessages, PubStatus
  <2>3. \A p \in Pubkeys : PubLocal(p)
    BY DEF ToolsInit, PubkeyInit, PubLocal, PubSuccess, Genuine
  <2> QED
    BY <2>2, <2>3
<1> QED
  BY <1>1, <1>2, <1>3 DEF ToolsInv, ToolsTypeOK

(* What the processes promise each other: a step changes no file but the   *)
(* process's own and no name that stands for a file.                       *)
Polite ==
  meddled' = meddled =>
    /\ \A n \in Names : Exists(n) => directory'[n] = directory[n]
    /\ \A f \in FileIds : contents'[f] # contents[f] => f \in Procs /\ Moves(f)

(* Every step keeps the invariant and the promise. *)
LEMMA NextTools == ToolsInv /\ [ToolsNext]_toolVars => ToolsInv' /\ Polite
<1> SUFFICES ASSUME ToolsInv, [ToolsNext]_toolVars PROVE ToolsInv' /\ Polite
  OBVIOUS
<1> USE DEF ToolsInv, ToolsTypeOK
<1>1. ASSUME NEW p \in Keygens, KeygenNext(p), UNCHANGED pubVars
      PROVE  ToolsInv' /\ Polite
  <2>1. /\ FilesTypeOK' /\ FilesInv'
        /\ gen_pc'[p] # gen_pc[p]
        /\ \A n \in Names : Exists(n) => directory'[n] = directory[n]
        /\ \A f \in FileIds \ {p} : contents'[f] = contents[f]
        /\ GenLocal(p)' /\ \A q \in Keygens \ {p} : SameGen(q)
    BY <1>1, KeygenStep
  <2>2. \A q \in Keygens : GenLocal(q)'
    BY <2>1, GenOthers, Identities
  <2>3. KeygenTypeOK'
    BY <1>1, <2>2, KeygenStep DEF KeygenTypeOK, GenLocal
  <2>4. \A q \in Pubkeys : SamePub(q) /\ contents'[q] = contents[q]
    BY <1>1, <2>1, Identities DEF SamePub, pubVars
  <2>5. PubkeyTypeOK' /\ \A q \in Pubkeys : PubLocal(q)'
    BY <1>1, <2>4, PubOthers DEF PubkeyTypeOK, pubVars
  <2>6. Polite
    BY <2>1, ToolsAssumption DEF Polite, Moves
  <2> QED
    BY <2>1, <2>2, <2>3, <2>5, <2>6
<1>2. ASSUME NEW p \in Pubkeys, PubkeyNext(p), UNCHANGED genVars
      PROVE  ToolsInv' /\ Polite
  <2>1. /\ FilesTypeOK' /\ FilesInv'
        /\ pub_pc'[p] # pub_pc[p]
        /\ \A n \in Names : Exists(n) => directory'[n] = directory[n]
        /\ \A f \in FileIds \ {p} : contents'[f] = contents[f]
        /\ PubLocal(p)' /\ \A q \in Pubkeys \ {p} : SamePub(q)
        /\ PubkeyTypeOK'
    BY <1>2, PubkeyStep
  <2>2. \A q \in Pubkeys : PubLocal(q)'
    BY <2>1, PubOthers, Identities
  <2>3. \A q \in Keygens : SameGen(q) /\ contents'[q] = contents[q]
    BY <1>2, <2>1, Identities DEF SameGen, genVars
  <2>4. \A q \in Keygens : GenLocal(q)'
    BY <2>3, GenOthers
  <2>5. KeygenTypeOK'
    BY <1>2 DEF KeygenTypeOK, genVars
  <2>6. Polite
    BY <2>1, ToolsAssumption DEF Polite, Moves
  <2> QED
    BY <2>1, <2>2, <2>4, <2>5, <2>6
<1>3. CASE Meddle /\ UNCHANGED <<genVars, pubVars>>
  <2>1. /\ FilesTypeOK' /\ FilesInv' /\ meddled' # meddled
        /\ \A f \in Procs : contents'[f] = contents[f]
    BY <1>3, MeddleFiles
  <2>2. \A q \in Keygens : SameGen(q) /\ contents'[q] = contents[q]
    BY <1>3, <2>1, ToolsAssumption DEF SameGen, genVars
  <2>3. \A q \in Pubkeys : SamePub(q) /\ contents'[q] = contents[q]
    BY <1>3, <2>1, ToolsAssumption DEF SamePub, pubVars
  <2>4. KeygenTypeOK' /\ \A q \in Keygens : GenLocal(q)'
    BY <1>3, <2>2, GenOthers DEF KeygenTypeOK, genVars
  <2>5. PubkeyTypeOK' /\ \A q \in Pubkeys : PubLocal(q)'
    BY <1>3, <2>3, PubOthers DEF PubkeyTypeOK, pubVars
  <2> QED
    BY <2>1, <2>4, <2>5 DEF Polite
<1>4. CASE UNCHANGED toolVars
  <2>1. UNCHANGED <<fileVars, genVars, pubVars>>
    BY <1>4 DEF toolVars
  <2>2. FilesTypeOK' /\ FilesInv' /\ contents' = contents /\ directory' = directory
    BY <2>1 DEF fileVars, FilesTypeOK, FilesInv, Genuine
  <2>3. KeygenTypeOK' /\ \A q \in Keygens : GenLocal(q)'
    BY <2>1, <2>2, GenOthers DEF KeygenTypeOK, genVars, SameGen
  <2>4. PubkeyTypeOK' /\ \A q \in Pubkeys : PubLocal(q)'
    BY <2>1, <2>2, PubOthers DEF PubkeyTypeOK, pubVars, SamePub
  <2> QED
    BY <2>2, <2>3, <2>4 DEF Polite
<1> QED
  BY <1>1, <1>2, <1>3, <1>4 DEF ToolsNext

(* The invariant of all the processes, whatever order they act in.         *)
THEOREM ToolsInvariant == ToolsSpec => []ToolsInv
<1>1. ToolsInit => ToolsInv
  BY InitTools
<1>2. ToolsInv /\ [ToolsNext]_toolVars => ToolsInv'
  BY NextTools
<1> QED
  BY <1>1, <1>2, PTL DEF ToolsSpec

(* Files, names and the variables of every keygen and pubkey keep to their *)
(* types; a keygen encrypts or writes only after it has a passphrase.      *)
THEOREM ToolsTypeCorrect == ToolsSpec => []ToolsTypeOK
<1>1. ToolsInv => ToolsTypeOK
  BY DEF ToolsInv
<1> QED
  BY <1>1, ToolsInvariant, PTL

(* A command that returns success and prints no error has done its work:   *)
(* keygen has written its whole key pair, pubkey a whole public            *)
(* certificate, whatever the other processes and programs did meanwhile.   *)
THEOREM SilenceMeansSuccess == ToolsSpec => []SilentSuccess
<1>1. ToolsInv => SilentSuccess
  BY DEF ToolsInv, SilentSuccess, KeygenSilentSuccess, PubkeySilentSuccess, GenLocal,
         GenSuccess, PubLocal, PubSuccess
<1> QED
  BY <1>1, ToolsInvariant, PTL

(* No command ever gives a name away that stands for a file, nor changes a *)
(* file but the one it created itself, although its file_stat and its      *)
(* file_open are two steps.                                                *)
THEOREM NothingIsClobbered == ToolsSpec => NoClobber
<1>1. ToolsInv /\ [ToolsNext]_toolVars => [Polite]_toolVars
  BY NextTools
<1>2. ToolsSpec => [][Polite]_toolVars
  BY <1>1, ToolsInvariant, PTL DEF ToolsSpec
<1> QED
  BY <1>2 DEF NoClobber, Polite
=============================================================================
