--------------------------- MODULE EndorseCommand ---------------------------
(***************************************************************************)
(* endorse_command_func: from the command line and five kinds of files to  *)
(* an endorsed certificate.                                                *)
(*                                                                         *)
(* The function calls one function after the other, each of which leaves a *)
(* resource behind; a call that fails goes to the label from which the     *)
(* resources acquired so far are released, last one first.  The parser and *)
(* the analyzer are here what EndorseParse and EndorseContract say; that a *)
(* parse may also crash the program ("crashed" there) is left out, for     *)
(* nothing is written then.                                                *)
(*                                                                         *)
(* A file may shrink after file_stat told its size: then file_read returns *)
(* success and fewer bytes, and the functions that read a file print a     *)
(* message but return the status of file_read.                             *)
(*                                                                         *)
(* Another program may put a file where the output file is to be, even     *)
(* after the command has looked.                                           *)
(*                                                                         *)
(* What the calls make of a disposed buffer or of an unset pointer is      *)
(* undefined; here any of their outcomes may follow.                       *)
(***************************************************************************)
EXTENDS EndorseAst, Sequences, SequencesExt

CONSTANTS
  Uuids,            \* the ids of entities and verbs
  VerbId,           \* the id that the config file gives a verb of an entity
  NONE,             \* no id
  InputCerts,       \* the input certificates under study
  MaxPermissions    \* bound: the -P options

Moieties == Roles \cup Verbs

ASSUME UuidsAssumption ==
  NONE \notin Uuids /\ VerbId \in [Entities -> [Verbs -> Uuids]]

(* An input certificate: the endorsements that it has already, and whether *)
(* all of its fields can be parsed.                                        *)
Certificates == [endorsements : SUBSET (Uuids \X Uuids), intact : BOOLEAN]

ASSUME InputCertsAssumption == InputCerts \subseteq Certificates
ASSUME MaxPermissionsAssumption == MaxPermissions \in Nat

VARIABLES
  pc,            \* the call that is next, "cleanup" or "done"
  label,         \* where the cleanup starts
  permissions,   \* the -P options: entities with the role or verb to grant
  pubkey,        \* the -D options: the id in the public key file given for
                 \* an entity
  file,          \* what the bytes read from the config file declare
  ast,           \* the root of the parsed config
  parsed,        \* history: the parser set no message
  forgotten,     \* history: the roles whose extends clause the parser lost
  resource,      \* "none", "live", "disposed", or "unset": the call returned
                 \* success and left the pointer as it found it
  keys_left,     \* the -D options that the loop has yet to visit
  entity_id,     \* of the loop over them; NONE is what was on the stack
  dict,          \* the uuid dictionary
  perms_left,
  set,           \* the working set: pairs of an object's and a verb's id
  certified,     \* what the bytes of the input certificate turned out to hold
  output,        \* the file with the name of the output file
  retval,
  stderr         \* something was printed on stderr

input == <<permissions, pubkey, file>>
loops == <<keys_left, entity_id, dict, perms_left, set>>
config == <<ast, parsed, forgotten>>
product == <<certified, output>>
vars == <<pc, label, input, config, resource, loops, product, retval, stderr>>

-----------------------------------------------------------------------------
(* The calls in the order of the code, the resource that each acquires,    *)
(* and the label to which its failure goes, named after the resource that  *)
(* is released first.                                                      *)
Calls == <<"key_file", "input_file", "config_file", "output_filename", "key_cert",
           "input_cert", "ctx", "cfg", "parse", "analyze", "dict", "set", "output">>

Resources == {"key_file", "input_file", "config_file", "output_filename", "key_cert",
              "input_cert", "ctx", "cfg", "dict", "set"}

Position(call) == CHOOSE i \in DOMAIN Calls : Calls[i] = call

(* Mutant: the failure of the analysis skips the buffer with the config.   *)
FailLabelTooFar(call) ==
  CASE call = "analyze" -> "ctx"
    [] call \in {"parse", "dict"} -> "cfg"
    [] call = "key_file" -> "done"
    [] OTHER -> Calls[Position(call) - 1]

FailLabel(call) ==
  CASE call \in {"parse", "analyze", "dict"} -> "cfg"
    [] call = "key_file" -> "done"
    [] OTHER -> Calls[Position(call) - 1]

(* The resources released from a label on. *)
ReleasedFrom(l) ==
  IF l = "done" THEN {} ELSE {r \in Resources : Position(r) <= Position(l)}

CmdTypeOK ==
  /\ pc \in Range(Calls) \cup {"cleanup", "done"}
  /\ label \in Resources \cup {"done"}
  /\ permissions \in Seq(Entities \X Moieties) /\ Len(permissions) <= MaxPermissions
  /\ pubkey \in [Entities -> Uuids \cup {NONE}]
  /\ file \in Ast /\ ast \in Ast
  /\ parsed \in BOOLEAN /\ forgotten \subseteq Entities \X Roles
  /\ resource \in [Resources -> {"none", "live", "disposed", "unset"}]
  /\ \A r \in Resources :
       pc \in Range(Calls) => (resource[r] = "none" <=> Position(pc) <= Position(r))
  /\ keys_left \in SUBSET Entities
  /\ entity_id \in Uuids \cup {NONE}
  /\ dict \in [Entities -> SUBSET (Uuids \cup {NONE})]
  /\ perms_left \in Seq(Entities \X Moieties)
  /\ set \in SUBSET ((Uuids \cup {NONE}) \X Uuids)
  /\ certified \in Certificates
  /\ output.size \in {"absent", "other", "part", "whole"}
  /\ output.endorsements \subseteq (Uuids \cup {NONE}) \X Uuids
  /\ retval \in {"SUCCESS", "ERROR"}
  /\ stderr \in BOOLEAN

NoConfig ==
  [entities |-> {}, declared |-> {},
   verbs    |-> [e \in Entities |-> {}],
   roles    |-> [e \in Entities |-> {}],
   extends  |-> [e \in Entities |-> [r \in Roles |-> NULL]],
   own      |-> [e \in Entities |-> [r \in Roles |-> {}]]]

CmdInit ==
  /\ pc = "key_file" /\ label = "done"
  /\ permissions \in UNION {[1 .. n -> Entities \X Moieties] : n \in 0 .. MaxPermissions}
  /\ pubkey \in [Entities -> Uuids \cup {NONE}]
  /\ file \in Configs
  /\ ast = NoConfig
  /\ parsed = FALSE /\ forgotten = {}
  /\ resource = [r \in Resources |-> "none"]
  /\ keys_left = {e \in Entities : pubkey[e] # NONE}
  /\ entity_id = NONE
  /\ dict = [e \in Entities |-> {}]
  /\ perms_left = permissions
  /\ set = {}
  /\ certified = [endorsements |-> {}, intact |-> FALSE]
  /\ output = [size |-> "absent", endorsements |-> {}]
  /\ retval = "SUCCESS" /\ stderr = FALSE

-----------------------------------------------------------------------------
(* Ways to leave a call. *)
Succeed(call, state) ==
  /\ pc = call
  /\ pc' = Calls[Position(call) + 1]
  /\ resource' = IF call \in Resources THEN [resource EXCEPT ![call] = state] ELSE resource
  /\ UNCHANGED <<label, retval>>

Fail(call) ==
  /\ pc = call
  /\ pc' = "cleanup" /\ label' = FailLabel(call)
  /\ retval' = "ERROR"
  /\ UNCHANGED resource

Complain == stderr' = TRUE
Quiet == UNCHANGED stderr

(* endorse_get_input_file, endorse_get_endorse_config_file and the         *)
(* creation of the config context.                                         *)
Prepare(call) ==
  /\ call \in {"input_file", "config_file", "ctx"}
  /\ \/ Succeed(call, "live") /\ Quiet
     \/ Fail(call) /\ stderr' \in {stderr, TRUE}
  /\ UNCHANGED <<input, config, loops, product>>

(* For a key file that its owner may not read, endorse_get_key_file prints *)
(* a message and returns what file_stat returned, which is success.        *)
GetKeyFile ==
  /\ \/ Succeed("key_file", "live") /\ Quiet
     \/ Succeed("key_file", "unset") /\ Complain
     \/ Fail("key_file") /\ stderr' \in {stderr, TRUE}
  /\ UNCHANGED <<input, config, loops, product>>

(* Mutant: the output file's name is not handed to the caller. *)
GetOutputFilenameForgets ==
  /\ Succeed("output_filename", "none") /\ Quiet
  /\ UNCHANGED <<input, config, loops, product>>

(* endorse_get_output_filename fails for a name of its own making that is  *)
(* taken; for the name of -o it does not look, nor does it look at what    *)
(* strdup returned (without a name, file_open fails).                      *)
GetOutputFilename ==
  /\ \/ Succeed("output_filename", "live") /\ Quiet
     \/ Fail("output_filename") /\ Complain
  /\ UNCHANGED <<input, config, loops, product>>

(* There is a file with the name of the output file, of another program:   *)
(* it has been there all the time if -o names it, or else it is new.       *)
Meddle ==
  /\ pc = "output"
  /\ output.size = "absent"
  /\ output' = [output EXCEPT !.size = "other"]
  /\ UNCHANGED <<pc, label, input, config, resource, loops, certified, retval, stderr>>

(* endorse_read_key_certificate, endorse_read_input_certificate and        *)
(* endorse_read_endorse_config_file: a short read disposes of the buffer   *)
(* and returns success.                                                    *)
ReadFile(call) ==
  /\ call \in {"key_cert", "input_cert", "cfg"}
  /\ \/ Succeed(call, "live") /\ Quiet
     \/ Succeed(call, "disposed") /\ Complain
     \/ Fail(call) /\ stderr' \in {stderr, TRUE}
  /\ UNCHANGED <<input, config, loops, product>>

(* a has a part of the entities, verbs and roles of b, the roles whole. *)
PartOf(a, b) ==
  /\ a.entities \subseteq b.entities /\ a.declared \subseteq b.declared
  /\ \A e \in Entities :
       /\ a.verbs[e] \subseteq b.verbs[e]
       /\ a.roles[e] \subseteq b.roles[e]
       /\ \A r \in a.roles[e] :
            a.extends[e][r] = b.extends[e][r] /\ a.own[e][r] = b.own[e][r]

(* The roles of a config that extend a role; a config without the extends  *)
(* clauses of some of them.                                                *)
Extending(a) ==
  {x \in Entities \X Roles :
     x[1] \in a.entities /\ x[2] \in a.roles[x[1]] /\ a.extends[x[1]][x[2]] # NULL}

Forget(a, lost) ==
  [a EXCEPT !.extends = [e \in Entities |-> [r \in Roles |->
                           IF <<e, r>> \in lost THEN NULL ELSE a.extends[e][r]]]]

Read(a) ==
  \E lost \in SUBSET Extending(a) : forgotten' = lost /\ ast' = Forget(a, lost)

(* endorse_parse.  Messages go to the context, where nobody reads them;    *)
(* only a failure is printed.  After some messages the parser returns      *)
(* success and the config is a part of the file's.  An extends clause that *)
(* is lost for want of memory leaves no message at all.                    *)
Parse ==
  /\ \/ /\ resource["cfg"] = "live"
        /\ Read(file) /\ parsed' = TRUE
        /\ Succeed("parse", "live") /\ Quiet
     \/ /\ \E a \in Configs : PartOf(a, file) /\ Read(a)
        /\ Succeed("parse", "live") /\ Quiet
        /\ UNCHANGED parsed
     \/ Fail("parse") /\ Complain /\ UNCHANGED config
  /\ UNCHANGED <<input, loops, product>>

(* Mutant: the result of the analysis is not looked at. *)
AnalyzeUnchecked ==
  /\ Succeed("analyze", "live")
  /\ Quiet
  /\ UNCHANGED <<input, config, loops, product>>

(* endorse_analyze, which fails for a config that is not well formed, and  *)
(* for want of memory.                                                     *)
Analyze ==
  /\ \/ WellFormed(ast) /\ Succeed("analyze", "live")
     \/ Fail("analyze")
  /\ Quiet
  /\ UNCHANGED <<input, config, loops, product>>

-----------------------------------------------------------------------------
(* endorse_build_uuid_dictionary. *)
NextKey(e) == e \in keys_left /\ \A d \in keys_left : e <= d

(* endorse_get_pubkey_id leaves entity_id as it is when the read is short; *)
(* the variable belongs to the loop's function.                            *)
AddUuid(e) ==
  /\ pc = "dict" /\ NextKey(e)
  /\ \/ /\ \E short \in BOOLEAN :
             /\ entity_id' = IF short THEN entity_id ELSE pubkey[e]
             /\ stderr' = (stderr \/ short)
        /\ dict' = [dict EXCEPT ![e] = {entity_id'}]
        /\ keys_left' = keys_left \ {e}
        /\ UNCHANGED <<pc, label, resource, retval, perms_left, set>>
     \/ Fail("dict") /\ stderr' \in {stderr, TRUE} /\ UNCHANGED loops
  /\ UNCHANGED <<input, config, product>>

DictDone ==
  /\ pc = "dict" /\ keys_left = {}
  /\ \/ Succeed("dict", "live")
     \/ Fail("dict")
  /\ Quiet
  /\ UNCHANGED <<input, config, loops, product>>

-----------------------------------------------------------------------------
(* endorse_build_working_set. *)

(* endorse_working_set_add_verb_capability. *)
VerbCapability(e, v) == {<<id, VerbId[e][v]>> : id \in dict[e]}

(* Mutant: a role grants only the verbs that it lists itself. *)
RoleCapabilitiesOwn(e, r) == UNION {VerbCapability(e, v) : v \in ast.own[e][r]}

(* endorse_working_set_add_role_capabilities: the verbs in the role's tree *)
(* after the analysis.                                                     *)
RoleCapabilities(e, r) == UNION {VerbCapability(e, v) : v \in VerbsOf(ast, e, r)}

(* endorse_working_set_add_capabilities: a role of that name, or else a    *)
(* verb.                                                                   *)
Capabilities(e, m) ==
  IF m \in ast.roles[e] THEN RoleCapabilities(e, m) ELSE VerbCapability(e, m)

Known(e, m) == e \in ast.entities /\ m \in ast.roles[e] \cup ast.verbs[e]

AddPermission ==
  /\ pc = "set" /\ perms_left # <<>>
  /\ LET e == Head(perms_left)[1]
         m == Head(perms_left)[2]
     IN  \/ /\ dict[e] # {} /\ Known(e, m)
            /\ set' = set \cup Capabilities(e, m)
            /\ perms_left' = Tail(perms_left)
            /\ Quiet
            /\ UNCHANGED <<pc, label, resource, retval, keys_left, entity_id, dict>>
         \/ /\ Fail("set")
            /\ stderr' \in {stderr, TRUE}
            /\ stderr' \/ (dict[e] # {} /\ Known(e, m))
            /\ UNCHANGED loops
  /\ UNCHANGED <<input, config, product>>

(* Without any -P option there is a message, and an empty working set. *)
WorkingSetDone ==
  /\ pc = "set" /\ perms_left = <<>>
  /\ \/ Succeed("set", "live") /\ stderr' = (stderr \/ permissions = <<>>)
     \/ Fail("set") /\ Quiet
  /\ UNCHANGED <<input, config, loops, product>>

-----------------------------------------------------------------------------
(* endorse_emit_public_certificate_fields copies the fields of the input   *)
(* certificate, its endorsements among them, up to the first that the      *)
(* parser refuses, which it takes for the end.                             *)
CopiedFields(cert) ==
  IF cert.intact THEN {cert.endorsements} ELSE SUBSET cert.endorsements

(* Mutant: without O_EXCL a file that is there is written over. *)
WriteNewNoExcl(size, copied) ==
  output' = [size |-> size,
             endorsements |-> IF size = "whole" THEN copied \cup set ELSE {}]

(* The file is opened exclusively and the certificate, or a part, written. *)
WriteNew(size, copied) ==
  /\ output.size = "absent"
  /\ output' = [size |-> size,
                endorsements |-> IF size = "whole" THEN copied \cup set ELSE {}]

(* endorse_build_output_file, with endorse_emit_working_set: a short write *)
(* is no error.  Nobody looks into the input certificate before.           *)
BuildOutput ==
  /\ pc = "output"
  /\ pc' = "cleanup" /\ label' = "set"
  /\ \/ \E cert \in InputCerts : \E copied \in CopiedFields(cert) :
          /\ certified' = cert
          /\ \/ WriteNew("whole", copied) /\ retval' = "SUCCESS" /\ Quiet
             \/ WriteNew("part", copied) /\ retval' \in {"SUCCESS", "ERROR"} /\ Complain
     \/ /\ retval' = "ERROR"
        /\ stderr' \in {stderr, TRUE}
        /\ UNCHANGED product
  /\ UNCHANGED <<input, config, resource, loops>>

(* The cleanup, from the label on.  A release that fails changes retval.   *)
Cleanup ==
  /\ pc = "cleanup"
  /\ pc' = "done"
  /\ resource' = [r \in Resources |->
                    IF r \in ReleasedFrom(label) THEN "disposed" ELSE resource[r]]
  /\ retval' \in {retval, "ERROR"}
  /\ UNCHANGED <<label, input, config, loops, product, stderr>>

Returned == pc = "done" /\ UNCHANGED vars

CmdNext ==
  \/ \E call \in Range(Calls) : Prepare(call) \/ ReadFile(call)
  \/ GetKeyFile \/ GetOutputFilename \/ Parse \/ Analyze \/ Meddle
  \/ \E e \in Entities : AddUuid(e)
  \/ DictDone \/ AddPermission \/ WorkingSetDone \/ BuildOutput \/ Cleanup
  \/ Returned

CmdSpec == CmdInit /\ [][CmdNext]_vars

-----------------------------------------------------------------------------
(* What the -P options grant by a config. *)
Granted(a) ==
  UNION {{<<pubkey[p[1]], VerbId[p[1]][v]>> :
            v \in IF p[2] \in a.roles[p[1]] THEN VerbsOf(a, p[1], p[2]) ELSE {p[2]}} :
           p \in Range(permissions)}

(* When endorse returns success and has printed nothing, the certificate   *)
(* is whole and has the endorsements that the -P options ask for by the    *)
(* well formed config that was parsed, inherited verbs included, on the    *)
(* entities of the -D options; and beside them those of the input          *)
(* certificate, all of them if it can be parsed to its end.  If the parser *)
(* has found nothing to complain about either, nothing is granted that the *)
(* file does not grant, and all that it grants unless an extends clause    *)
(* was lost.                                                               *)
SilentEndorseExact ==
  pc = "done" /\ retval = "SUCCESS" /\ ~stderr =>
    /\ output.size = "whole" /\ WellFormed(ast)
    /\ \E copied \in CopiedFields(certified) :
         output.endorsements = copied \cup Granted(ast)
    /\ parsed => Granted(ast) \subseteq Granted(file)
    /\ parsed /\ forgotten = {} => Granted(ast) = Granted(file) /\ WellFormed(file)

(* An unknown entity, role or verb in any of the -P options, or a config   *)
(* that is not well formed, leaves no output file at all.                  *)
AllOrNothing ==
  output.size \in {"part", "whole"} =>
    /\ WellFormed(ast)
    /\ \A p \in Range(permissions) : Known(p[1], p[2]) /\ pubkey[p[1]] # NONE

(* A file of somebody else is never written over, whether or not the       *)
(* command has looked for it, and when it is there endorse fails.          *)
OthersFileStays ==
  [][output.size = "other" =>
       /\ output' = output
       /\ pc = "output" /\ pc' = "cleanup" => retval' = "ERROR"]_vars

(* On every way out each resource that was acquired has been released, and *)
(* none is released whose call was not made or failed.  That a resource is *)
(* there when it is released is left to OnlyTheLiveReleased.               *)
EverythingReleased ==
  /\ pc = "done" => \A r \in Resources : resource[r] # "live"
  /\ pc = "cleanup" => \A r \in ReleasedFrom(label) : resource[r] # "none"

(* The header of endorse_get_key_file: key_file is the "pointer to receive *)
(* the key file certfile instance", on success; so what the cleanup        *)
(* releases is there, and has not been disposed of before.                 *)
OnlyTheLiveReleased ==
  pc = "cleanup" => \A r \in ReleasedFrom(label) : resource[r] = "live"

(* The header of endorse_get_pubkey_id: STATUS_SUCCESS on success, a       *)
(* non-zero error code on failure; so no id enters the dictionary, and no  *)
(* certificate, but the one in the entity's public key file.               *)
IdsComeFromPubkeys ==
  \A e \in Entities : dict[e] \subseteq {pubkey[e]}

=============================================================================
