------------------------ MODULE EndorseCommandProofs ------------------------
(***************************************************************************)
(* That endorse_command_func gives back what it acquired, writes all of    *)
(* the endorsements or none, and, when it keeps quiet, exactly those that  *)
(* are asked for by the config it has parsed, with those of the input      *)
(* certificate: for every config, every set of names and ids, and any      *)
(* number of -P options.                                                   *)
(***************************************************************************)
EXTENDS EndorseCommand, SequenceTheorems, TLAPS

Pair == (Uuids \cup {NONE}) \X Uuids

(* The output file, and when there may be one.                             *)
OutputInv ==
  /\ certified \in Certificates
  /\ output \in [size : {"absent", "other", "part", "whole"}, endorsements : SUBSET Pair]
  /\ pc \in Range(Calls) \ {"output"} => output.size = "absent"
  /\ pc = "output" => output.size \in {"absent", "other"}

(* The label releases just what was acquired.                              *)
ReleaseInv ==
  /\ pc = "cleanup" => \A r \in Resources : resource[r] # "none" <=> r \in ReleasedFrom(label)
  /\ pc = "done" => \A r \in Resources : resource[r] # "live"

(* Nothing has failed as long as there are calls.                          *)
NoErrorYet == pc \in Range(Calls) => retval = "SUCCESS"

(* The config that was parsed, and that its analysis is behind.            *)
ConfigInv ==
  /\ pc \in Range(Calls) \ {"analyze", "dict", "set", "output"} => ~parsed
  /\ parsed => ast = Forget(file, forgotten)
  /\ pc \in {"dict", "set", "output"} => WellFormed(ast)

(* The dictionary has an id for each entity of a -D option that has been   *)
(* visited, the id of that option unless there was a message.              *)
DictInv ==
  /\ \A e \in keys_left : pubkey[e] # NONE
  /\ pc \in Range(Calls) \ {"dict", "set", "output"} =>
       /\ keys_left = {e \in Entities : pubkey[e] # NONE}
       /\ \A e \in Entities : dict[e] = {}
  /\ pc \in {"set", "output"} => keys_left = {}
  /\ \A e \in Entities : dict[e] # {} => pubkey[e] # NONE
  /\ ~stderr =>
       \A e \in Entities :
         dict[e] = IF pubkey[e] # NONE /\ e \notin keys_left THEN {pubkey[e]} ELSE {}

(* What one -P option grants, given the ids of the public key files and    *)
(* the config, and what several grant.                                     *)
Grant(ids, a, p) ==
  {<<ids[p[1]], VerbId[p[1]][v]>> :
     v \in IF p[2] \in a.roles[p[1]] THEN VerbsOf(a, p[1], p[2]) ELSE {p[2]}}
GrantAll(ids, a, S) == UNION {Grant(ids, a, p) : p \in S}

(* A -P option that names what there is.                                   *)
Grantable(p) == Known(p[1], p[2]) /\ pubkey[p[1]] # NONE

(* The -P options that have been visited were good, and the working set    *)
(* has what they grant.                                                    *)
SetInv ==
  /\ pc \in Range(Calls) \ {"set", "output"} => perms_left = permissions /\ set = {}
  /\ pc = "set" => \A p \in Range(permissions) : p \in Range(perms_left) \/ Grantable(p)
  /\ pc = "output" => \A p \in Range(permissions) : Grantable(p)
  /\ pc = "set" /\ ~stderr =>
       set \cup GrantAll(pubkey, ast, Range(perms_left)) = Granted(ast)
  /\ pc = "output" /\ ~stderr => set = Granted(ast)

(* What the routine leaves behind, from the cleanup on.                    *)
ResultInv ==
  /\ AllOrNothing
  /\ pc \in {"cleanup", "done"} /\ retval = "SUCCESS" /\ ~stderr =>
       /\ output.size = "whole" /\ WellFormed(ast)
       /\ \E copied \in CopiedFields(certified) :
            output.endorsements = copied \cup Granted(ast)

(* The types of the data, and where the control is.                        *)
DataType ==
  /\ permissions \in Seq(Entities \X Moieties) /\ Len(permissions) <= MaxPermissions
  /\ pubkey \in [Entities -> Uuids \cup {NONE}]
  /\ file \in Ast /\ ast \in Ast
  /\ parsed \in BOOLEAN /\ forgotten \subseteq Entities \X Roles
  /\ keys_left \in SUBSET Entities
  /\ entity_id \in Uuids \cup {NONE}
  /\ dict \in [Entities -> SUBSET (Uuids \cup {NONE})]
  /\ perms_left \in Seq(Entities \X Moieties)
  /\ set \in SUBSET Pair
  /\ stderr \in BOOLEAN

Control ==
  /\ pc \in Range(Calls) \cup {"cleanup", "done"}
  /\ label \in Resources \cup {"done"}
  /\ resource \in [Resources -> {"none", "live", "disposed", "unset"}]
  /\ \A r \in Resources :
       pc \in Range(Calls) => (resource[r] = "none" <=> Position(pc) <= Position(r))
  /\ retval \in {"SUCCESS", "ERROR"}
  /\ ReleaseInv /\ NoErrorYet

Data == DataType /\ OutputInv /\ ConfigInv /\ DictInv /\ SetInv /\ ResultInv

IInv == Control /\ Data

-----------------------------------------------------------------------------
(* The calls by name and by position.                                      *)
LEMMA CallsByName ==
  /\ Len(Calls) = 13 /\ DOMAIN Calls = 1 .. 13
  /\ Calls[1] = "key_file" /\ Calls[2] = "input_file" /\ Calls[3] = "config_file"
  /\ Calls[4] = "output_filename" /\ Calls[5] = "key_cert" /\ Calls[6] = "input_cert"
  /\ Calls[7] = "ctx" /\ Calls[8] = "cfg" /\ Calls[9] = "parse" /\ Calls[10] = "analyze"
  /\ Calls[11] = "dict" /\ Calls[12] = "set" /\ Calls[13] = "output"
BY DEF Calls

(* A position has one call.                                                *)
LEMMA PositionOfCall == \A i \in 1 .. 13 : Position(Calls[i]) = i
<1> SUFFICES ASSUME NEW i \in 1 .. 13
             PROVE  Position(Calls[i]) = i
  OBVIOUS
<1>1. \A j \in 1 .. 13 : Calls[j] = Calls[i] => j = i
  BY CallsByName
<1>2. \E j \in DOMAIN Calls : Calls[j] = Calls[i]
  BY CallsByName
<1>3. Position(Calls[i]) \in DOMAIN Calls /\ Calls[Position(Calls[i])] = Calls[i]
  BY <1>2, Zenon DEF Position
<1> QED
  BY <1>1, <1>3, CallsByName

(* The position of each call of endorse_command_func.                       *)
LEMMA PositionByName ==
  /\ Position("key_file") = 1 /\ Position("input_file") = 2 /\ Position("config_file") = 3
  /\ Position("output_filename") = 4 /\ Position("key_cert") = 5 /\ Position("input_cert") = 6
  /\ Position("ctx") = 7 /\ Position("cfg") = 8 /\ Position("parse") = 9
  /\ Position("analyze") = 10 /\ Position("dict") = 11 /\ Position("set") = 12
  /\ Position("output") = 13
<1>1. \A i \in {1, 2, 3, 4, 5, 6, 7, 8, 9, 10, 11, 12, 13} : Position(Calls[i]) = i
  BY PositionOfCall
<1> QED
  BY <1>1, CallsByName

(* The calls as a set.                                                     *)
LEMMA RangeOfCalls ==
  Range(Calls) = {"key_file", "input_file", "config_file", "output_filename", "key_cert",
                  "input_cert", "ctx", "cfg", "parse", "analyze", "dict", "set", "output"}
<1>1. 1 .. 13 = {1, 2, 3, 4, 5, 6, 7, 8, 9, 10, 11, 12, 13}
  OBVIOUS
<1> QED
  BY <1>1, CallsByName DEF Range

(* The call after a call.                                                  *)
LEMMA NextCall ==
  ASSUME NEW call \in Range(Calls) \ {"output"}
  PROVE  /\ Position(call) \in 1 .. 12 /\ Calls[Position(call) + 1] \in Range(Calls)
         /\ Position(Calls[Position(call) + 1]) = Position(call) + 1
<1>1. Position(call) \in 1 .. 12
  BY RangeOfCalls, PositionByName
<1>2. Position(call) + 1 \in 1 .. 13
  BY <1>1
<1>3. Calls[Position(call) + 1] \in Range(Calls)
  BY <1>2, CallsByName DEF Range
<1> QED
  BY <1>1, <1>2, <1>3, PositionOfCall

(* Two calls have two positions.                                           *)
LEMMA PositionInjective ==
  \A c, d \in Range(Calls) : Position(c) = Position(d) => c = d
BY RangeOfCalls, PositionByName

(* The label of a call releases the resources of the calls before it.      *)
LEMMA LabelOfCall ==
  ASSUME NEW call \in Range(Calls) \ {"output"}
  PROVE  /\ FailLabel(call) \in Resources \cup {"done"}
         /\ \A r \in Resources : r \in ReleasedFrom(FailLabel(call)) <=> Position(r) < Position(call)
<1>1. \/ call = "key_file" /\ FailLabel(call) = "done"
      \/ call = "input_file" /\ FailLabel(call) = "key_file"
      \/ call = "config_file" /\ FailLabel(call) = "input_file"
      \/ call = "output_filename" /\ FailLabel(call) = "config_file"
      \/ call = "key_cert" /\ FailLabel(call) = "output_filename"
      \/ call = "input_cert" /\ FailLabel(call) = "key_cert"
      \/ call = "ctx" /\ FailLabel(call) = "input_cert"
      \/ call = "cfg" /\ FailLabel(call) = "ctx"
      \/ call \in {"parse", "analyze", "dict"} /\ FailLabel(call) = "cfg"
      \/ call = "set" /\ FailLabel(call) = "dict"
  BY RangeOfCalls, PositionByName, CallsByName DEF FailLabel
<1>2. FailLabel(call) \in Resources \cup {"done"}
  BY <1>1 DEF Resources
<1>3. ASSUME NEW r \in Resources
      PROVE  r \in ReleasedFrom(FailLabel(call)) <=> Position(r) < Position(call)
  BY <1>1, PositionByName DEF ReleasedFrom, Resources
<1> QED
  BY <1>2, <1>3

-----------------------------------------------------------------------------
(* Control. *)

(* A call that succeeds leaves its resource behind.                        *)
LEMMA SucceedControl ==
  ASSUME Control, NEW call \in Range(Calls) \ {"output"},
         NEW state \in {"live", "disposed", "unset"}, Succeed(call, state)
  PROVE  Control'
<1> DEFINE next == Calls[Position(call) + 1]
<1>1. /\ pc = call /\ pc' = next /\ label' = label /\ retval' = retval
      /\ next \in Range(Calls) /\ Position(next) = Position(call) + 1
      /\ Position(call) \in Nat
  BY NextCall DEF Succeed
<1> HIDE DEF next
<1>2. resource' \in [Resources -> {"none", "live", "disposed", "unset"}]
  BY DEF Succeed, Control
<1>3. ASSUME NEW r \in Resources
      PROVE  resource'[r] = "none" <=> Position(pc') <= Position(r)
  <2>1. resource[r] = "none" <=> Position(call) <= Position(r)
    BY <1>1 DEF Control
  <2>2. r \in Range(Calls) /\ Position(r) \in Nat
    BY RangeOfCalls, PositionByName DEF Resources
  <2>3. CASE r = call
    BY <1>1, <2>3 DEF Succeed, Control
  <2>4. CASE r # call
    <3>1. resource'[r] = resource[r]
      BY <2>4 DEF Succeed, Control
    <3>2. Position(r) # Position(call)
      BY <2>2, <2>4, PositionInjective
    <3> QED
      BY <1>1, <2>1, <2>2, <3>1, <3>2
  <2> QED
    BY <2>3, <2>4
<1>4. pc' # "cleanup" /\ pc' # "done"
  BY <1>1, RangeOfCalls
<1> QED
  BY <1>1, <1>2, <1>3, <1>4 DEF Control, ReleaseInv, NoErrorYet

(* A call that fails goes to a label that releases just what is there.     *)
LEMMA FailControl ==
  ASSUME Control, NEW call \in Range(Calls) \ {"output"}, Fail(call)
  PROVE  Control'
<1>1. /\ pc = call /\ pc' = "cleanup" /\ label' = FailLabel(call) /\ retval' = "ERROR"
      /\ resource' = resource /\ pc' \notin Range(Calls)
  BY RangeOfCalls DEF Fail
<1>2. ASSUME NEW r \in Resources
      PROVE  resource'[r] # "none" <=> r \in ReleasedFrom(label')
  <2>1. resource[r] = "none" <=> Position(call) <= Position(r)
    BY <1>1 DEF Control
  <2>2. Position(r) \in Nat /\ Position(call) \in Nat
    BY RangeOfCalls, PositionByName DEF Resources
  <2> QED
    BY <1>1, <2>1, <2>2, LabelOfCall
<1>3. ReleaseInv'
  BY <1>1, <1>2 DEF ReleaseInv
<1> QED
  BY <1>1, <1>3, LabelOfCall DEF Control, NoErrorYet

(* What has been given its label is the set with everything before it.     *)
LEMMA BuildControl ==
  ASSUME Control, BuildOutput
  PROVE  Control'
<1>1. /\ pc = "output" /\ pc' = "cleanup" /\ label' = "set" /\ resource' = resource
      /\ retval' \in {"SUCCESS", "ERROR"}
  BY DEF BuildOutput
<1>2. ASSUME NEW r \in Resources
      PROVE  resource'[r] # "none" /\ r \in ReleasedFrom(label')
  <2>1. Position(r) \in 1 .. 12
    BY PositionByName DEF Resources
  <2>2. resource[r] # "none"
    BY <1>1, <2>1, RangeOfCalls, PositionByName DEF Control
  <2>3. r \in ReleasedFrom("set")
    BY <2>1, PositionByName DEF ReleasedFrom
  <2> QED
    BY <1>1, <2>2, <2>3
<1>3. ReleaseInv'
  BY <1>1, <1>2 DEF ReleaseInv
<1>4. "set" \in Resources /\ "cleanup" \notin Range(Calls)
  BY RangeOfCalls DEF Resources
<1> QED
  BY <1>1, <1>3, <1>4 DEF Control, NoErrorYet

(* The cleanup.                                                            *)
LEMMA CleanupControl ==
  ASSUME Control, Cleanup
  PROVE  Control'
<1>1. /\ pc = "cleanup" /\ pc' = "done" /\ label' = label /\ pc' \notin Range(Calls)
      /\ retval' \in {"SUCCESS", "ERROR"}
  BY RangeOfCalls DEF Cleanup, Control
<1>2. resource' \in [Resources -> {"none", "live", "disposed", "unset"}]
  BY DEF Cleanup, Control
<1>3. ASSUME NEW r \in Resources
      PROVE  resource'[r] # "live"
  BY <1>1 DEF Cleanup, Control, ReleaseInv
<1>4. ReleaseInv'
  BY <1>1, <1>3 DEF ReleaseInv
<1> QED
  BY <1>1, <1>2, <1>4 DEF Control, NoErrorYet

(* A step that stays where it is.                                          *)
LEMMA SameControl ==
  ASSUME Control, UNCHANGED <<pc, label, resource, retval>>
  PROVE  Control'
BY DEF Control, ReleaseInv, NoErrorYet

-----------------------------------------------------------------------------
(* Data. *)

(* What is granted, in terms of the options and the config.                *)
LEMMA GrantedIs == \A a : Granted(a) = GrantAll(pubkey, a, Range(permissions))
BY DEF Granted, GrantAll, Grant

(* What the options grant depends on the input and the config alone.        *)
LEMMA GrantedStays ==
  ASSUME UNCHANGED <<input, ast>>
  PROVE  Granted(ast)' = Granted(ast)
<1>1. permissions' = permissions /\ pubkey' = pubkey /\ ast' = ast
  BY DEF input
<1>2. Granted(ast)' = GrantAll(pubkey', ast', Range(permissions'))
  BY DEF Granted, GrantAll, Grant
<1> QED
  BY <1>1, <1>2, GrantedIs

(* What several options grant, option by option.                           *)
LEMMA GrantMember ==
  \A ids, a, S, x : x \in GrantAll(ids, a, S) <=> \E p \in S : x \in Grant(ids, a, p)
BY DEF GrantAll

(* A call that fails leaves the data as it is.                             *)
LEMMA FailData ==
  ASSUME Data, NEW call \in Range(Calls) \ {"output"}, Fail(call),
         UNCHANGED <<input, config, loops, product>>, stderr' \in {stderr, TRUE}
  PROVE  Data'
<1>1. /\ pc = call /\ pc' = "cleanup" /\ retval' = "ERROR" /\ pc' \notin Range(Calls)
  BY RangeOfCalls DEF Fail
<1>2. /\ permissions' = permissions /\ pubkey' = pubkey /\ file' = file
      /\ ast' = ast /\ parsed' = parsed /\ forgotten' = forgotten /\ keys_left' = keys_left /\ entity_id' = entity_id
      /\ dict' = dict /\ perms_left' = perms_left /\ set' = set /\ output' = output
      /\ certified' = certified
      /\ stderr' \in BOOLEAN /\ (~stderr' => ~stderr)
  BY DEF input, config, product, loops, Data, DataType
<1>3. DataType' /\ OutputInv'
  BY <1>1, <1>2 DEF Data, DataType, OutputInv
<1>4. ConfigInv' /\ DictInv'
  BY <1>1, <1>2 DEF Data, ConfigInv, DictInv
<1>5. SetInv'
  BY <1>1, <1>2 DEF SetInv
<1>6. ResultInv'
  <2>1. output.size = "absent"
    BY <1>1 DEF Data, OutputInv
  <2>2. AllOrNothing'
    BY <1>2, <2>1 DEF AllOrNothing
  <2> QED
    BY <1>1, <2>2 DEF ResultInv
<1> QED
  BY <1>3, <1>4, <1>5, <1>6 DEF Data

(* The calls before the parser.                                            *)
EarlyCalls ==
  {"key_file", "input_file", "config_file", "output_filename", "key_cert", "input_cert",
   "ctx", "cfg"}

(* The calls before the parse are followed by such a call or by the parse.  *)
LEMMA AfterEarly ==
  ASSUME NEW call \in EarlyCalls
  PROVE  call \in Range(Calls) \ {"output"} /\ Calls[Position(call) + 1] \in EarlyCalls \cup {"parse"}
BY RangeOfCalls, PositionByName, CallsByName DEF EarlyCalls

(* One of them succeeds.                                                   *)
LEMMA EarlyData ==
  ASSUME Data, NEW call \in EarlyCalls, NEW state, Succeed(call, state),
         UNCHANGED <<input, config, loops, product>>, stderr' \in {stderr, TRUE}
  PROVE  Data'
<1>1. /\ pc = call /\ retval' = retval
      /\ pc \in Range(Calls) \ {"analyze", "dict", "set", "output"}
      /\ pc' \in Range(Calls) \ {"analyze", "dict", "set", "output"}
      /\ pc' \notin {"analyze", "dict", "set", "output", "cleanup", "done"}
  BY AfterEarly, RangeOfCalls DEF Succeed, EarlyCalls
<1>2. /\ permissions' = permissions /\ pubkey' = pubkey /\ file' = file
      /\ ast' = ast /\ parsed' = parsed /\ forgotten' = forgotten /\ keys_left' = keys_left /\ entity_id' = entity_id
      /\ dict' = dict /\ perms_left' = perms_left /\ set' = set /\ output' = output
      /\ certified' = certified
      /\ stderr' \in BOOLEAN /\ (~stderr' => ~stderr)
  BY DEF input, config, product, loops, Data, DataType
<1>3. DataType' /\ OutputInv'
  BY <1>1, <1>2 DEF Data, DataType, OutputInv
<1>4. ConfigInv' /\ DictInv'
  BY <1>1, <1>2 DEF Data, ConfigInv, DictInv
<1>5. SetInv'
  BY <1>1, <1>2 DEF Data, SetInv
<1>6. ResultInv'
  <2>1. output.size = "absent"
    BY <1>1 DEF Data, OutputInv
  <2>2. AllOrNothing'
    BY <1>2, <2>1 DEF AllOrNothing
  <2> QED
    BY <1>1, <2>2 DEF ResultInv
<1> QED
  BY <1>3, <1>4, <1>5, <1>6 DEF Data

(* A config that has lost extends clauses is a config.                     *)
LEMMA ForgetIsAst ==
  ASSUME NEW a \in Ast, NEW lost
  PROVE  Forget(a, lost) \in Ast
<1> DEFINE extends == [e \in Entities |-> [r \in Roles |->
                          IF <<e, r>> \in lost THEN NULL ELSE a.extends[e][r]]]
<1>1. a.extends \in [Entities -> [Roles -> Roles \cup {NULL}]]
  BY DEF Ast
<1>2. extends \in [Entities -> [Roles -> Roles \cup {NULL}]]
  BY <1>1
<1>3. Forget(a, lost) = [a EXCEPT !.extends = extends]
  BY DEF Forget
<1> HIDE DEF extends
<1> QED
  BY <1>2, <1>3 DEF Ast

(* The parser succeeds.                                                    *)
LEMMA ParseData ==
  ASSUME Data, pc = "parse", pc' = "analyze",
         UNCHANGED <<input, loops, product>>, stderr' = stderr,
         NEW a \in Ast, Read(a),
         (a = file /\ parsed' = TRUE) \/ parsed' = parsed
  PROVE  Data'
<1>1. /\ pc \in Range(Calls) \ {"analyze", "dict", "set", "output"}
      /\ pc' \in Range(Calls)
  BY RangeOfCalls
<1>2. /\ permissions' = permissions /\ pubkey' = pubkey /\ file' = file
      /\ keys_left' = keys_left /\ entity_id' = entity_id
      /\ dict' = dict /\ perms_left' = perms_left /\ set' = set /\ output' = output
      /\ certified' = certified
      /\ certified' = certified
      /\ parsed' \in BOOLEAN /\ ast' \in Ast /\ forgotten' \subseteq Entities \X Roles
      /\ (parsed' => ast' = Forget(file', forgotten'))
  <2>1. /\ permissions' = permissions /\ pubkey' = pubkey /\ file' = file
        /\ keys_left' = keys_left /\ entity_id' = entity_id
        /\ dict' = dict /\ perms_left' = perms_left /\ set' = set /\ output' = output
        /\ certified' = certified
    BY DEF input, product, loops
  <2>2. file \in Ast /\ parsed \in BOOLEAN /\ ~parsed
    BY <1>1 DEF Data, DataType, ConfigInv
  <2>3. forgotten' \subseteq Entities \X Roles /\ ast' = Forget(a, forgotten')
    BY DEF Read, Extending
  <2>4. ast' \in Ast /\ parsed' \in BOOLEAN
    BY <2>2, <2>3, ForgetIsAst
  <2>5. parsed' => a = file'
    BY <2>1, <2>2
  <2> QED
    BY <2>1, <2>2, <2>3, <2>4, <2>5
<1>3. DataType' /\ OutputInv'
  BY <1>1, <1>2 DEF Data, DataType, OutputInv
<1>4. ConfigInv' /\ DictInv'
  BY <1>1, <1>2 DEF Data, ConfigInv, DictInv
<1>5. SetInv'
  BY <1>1, <1>2 DEF Data, SetInv
<1>6. ResultInv'
  <2>1. output.size = "absent"
    BY <1>1 DEF Data, OutputInv
  <2>2. AllOrNothing'
    BY <1>2, <2>1 DEF AllOrNothing
  <2> QED
    BY <2>2 DEF ResultInv
<1> QED
  BY <1>3, <1>4, <1>5, <1>6 DEF Data

(* The analysis succeeds.                                                  *)
LEMMA AnalyzeData ==
  ASSUME Data, pc = "analyze", pc' = "dict", WellFormed(ast),
         UNCHANGED <<input, config, loops, product, stderr>>
  PROVE  Data'
<1>1. /\ pc \in Range(Calls) \ {"dict", "set", "output"}
      /\ pc' \in Range(Calls)
  BY RangeOfCalls
<1>2. /\ permissions' = permissions /\ pubkey' = pubkey /\ file' = file
      /\ ast' = ast /\ parsed' = parsed /\ forgotten' = forgotten /\ keys_left' = keys_left /\ entity_id' = entity_id
      /\ dict' = dict /\ perms_left' = perms_left /\ set' = set /\ output' = output
      /\ certified' = certified
      /\ stderr' = stderr
  BY DEF input, config, product, loops
<1>3. DataType' /\ OutputInv'
  BY <1>1, <1>2 DEF Data, DataType, OutputInv
<1>4. ConfigInv' /\ SetInv'
  BY <1>1, <1>2 DEF Data, ConfigInv, SetInv
<1>5. DictInv'
  <2>1. keys_left = {e \in Entities : pubkey[e] # NONE} /\ \A e \in Entities : dict[e] = {}
    BY <1>1 DEF Data, DictInv
  <2>2. ~stderr =>
          \A e \in Entities :
            dict[e] = IF pubkey[e] # NONE /\ e \notin keys_left THEN {pubkey[e]} ELSE {}
    BY DEF Data, DictInv
  <2> QED
    BY <1>2, <2>1, <2>2 DEF DictInv
<1>6. ResultInv'
  <2>1. output.size = "absent"
    BY <1>1 DEF Data, OutputInv
  <2>2. AllOrNothing'
    BY <1>2, <2>1 DEF AllOrNothing
  <2> QED
    BY <2>2 DEF ResultInv
<1> QED
  BY <1>3, <1>4, <1>5, <1>6 DEF Data

(* One turn of the loop over the -D options.                               *)
LEMMA AddUuidData ==
  ASSUME Data, pc = "dict", NEW e \in Entities, NextKey(e), NEW short \in BOOLEAN,
         entity_id' = (IF short THEN entity_id ELSE pubkey[e]), stderr' = (stderr \/ short),
         dict' = [dict EXCEPT ![e] = {entity_id'}], keys_left' = keys_left \ {e},
         UNCHANGED <<pc, retval, perms_left, set, input, config, product>>
  PROVE  Data'
<1>1. pc \in Range(Calls) \ {"set", "output"} /\ pc' = "dict" /\ pc' \in Range(Calls)
  BY RangeOfCalls
<1>2. /\ permissions' = permissions /\ pubkey' = pubkey /\ file' = file
      /\ ast' = ast /\ parsed' = parsed /\ forgotten' = forgotten /\ perms_left' = perms_left /\ set' = set
      /\ output' = output /\ stderr' \in BOOLEAN /\ certified' = certified
  BY DEF input, config, product, Data, DataType
<1>3. entity_id' \in Uuids \cup {NONE} /\ dict' \in [Entities -> SUBSET (Uuids \cup {NONE})]
  BY DEF Data, DataType
<1>4. DataType' /\ OutputInv'
  BY <1>1, <1>2, <1>3 DEF Data, DataType, OutputInv
<1>5. ConfigInv' /\ SetInv'
  BY <1>1, <1>2 DEF Data, ConfigInv, SetInv
<1>6. DictInv'
  <2>1. e \in keys_left /\ pubkey[e] # NONE /\ \A d \in keys_left : pubkey[d] # NONE
    BY DEF NextKey, Data, DictInv
  <2>2. \A d \in Entities : dict'[d] = IF d = e THEN {entity_id'} ELSE dict[d]
    BY DEF Data, DataType
  <2>3. \A d \in Entities : dict'[d] # {} => pubkey'[d] # NONE
    BY <1>2, <2>1, <2>2 DEF Data, DictInv
  <2>4. ASSUME ~stderr', NEW d \in Entities
        PROVE  dict'[d] = IF pubkey'[d] # NONE /\ d \notin keys_left' THEN {pubkey'[d]} ELSE {}
    <3>1. ~stderr /\ entity_id' = pubkey[e]
      BY <2>4
    <3>2. dict[d] = IF pubkey[d] # NONE /\ d \notin keys_left THEN {pubkey[d]} ELSE {}
      BY <3>1 DEF Data, DictInv
    <3> QED
      BY <1>2, <2>1, <2>2, <3>1, <3>2
  <2> QED
    BY <1>1, <1>2, <2>1, <2>3, <2>4 DEF DictInv
<1>7. ResultInv'
  <2>1. output.size = "absent"
    BY <1>1 DEF Data, OutputInv
  <2>2. AllOrNothing'
    BY <1>2, <2>1 DEF AllOrNothing
  <2> QED
    BY <1>1, <2>2 DEF ResultInv
<1> QED
  BY <1>4, <1>5, <1>6, <1>7 DEF Data

(* The end of that loop.                                                   *)
LEMMA DictDoneData ==
  ASSUME Data, pc = "dict", pc' = "set", keys_left = {},
         UNCHANGED <<input, config, loops, product, stderr>>
  PROVE  Data'
<1>1. pc \in Range(Calls) \ {"set", "output"} /\ pc' \in Range(Calls)
  BY RangeOfCalls
<1>2. /\ permissions' = permissions /\ pubkey' = pubkey /\ file' = file
      /\ ast' = ast /\ parsed' = parsed /\ forgotten' = forgotten /\ keys_left' = keys_left /\ entity_id' = entity_id
      /\ dict' = dict /\ perms_left' = perms_left /\ set' = set /\ output' = output
      /\ certified' = certified
      /\ stderr' = stderr
  BY DEF input, config, product, loops
<1>3. DataType' /\ OutputInv'
  BY <1>1, <1>2 DEF Data, DataType, OutputInv
<1>4. ConfigInv' /\ DictInv'
  BY <1>1, <1>2 DEF Data, ConfigInv, DictInv
<1>5. SetInv'
  <2>1. perms_left = permissions /\ set = {}
    BY <1>1 DEF Data, SetInv
  <2>2. Granted(ast)' = GrantAll(pubkey', ast', Range(perms_left'))
    BY <1>2, <2>1, GrantedIs, GrantedStays
  <2> QED
    BY <1>2, <2>1, <2>2 DEF SetInv
<1>6. ResultInv'
  <2>1. output.size = "absent"
    BY <1>1 DEF Data, OutputInv
  <2>2. AllOrNothing'
    BY <1>2, <2>1 DEF AllOrNothing
  <2> QED
    BY <2>2 DEF ResultInv
<1> QED
  BY <1>3, <1>4, <1>5, <1>6 DEF Data

(* The first -P option of those that are left.                             *)
LEMMA RangeOfHeadAndTail ==
  ASSUME NEW S, NEW q \in Seq(S), q # <<>>
  PROVE  Range(q) = {Head(q)} \cup Range(Tail(q))
<1>1. /\ Len(q) \in Nat \ {0} /\ Tail(q) \in Seq(S) /\ Len(Tail(q)) = Len(q) - 1
      /\ \A i \in 1 .. Len(Tail(q)) : Tail(q)[i] = q[i + 1]
  BY HeadTailProperties, EmptySeq
<1>2. Head(q) = q[1]
  OBVIOUS
<1>3. Range(q) = {q[i] : i \in 1 .. Len(q)} /\ Range(Tail(q)) = {Tail(q)[i] : i \in 1 .. Len(Tail(q))}
  BY <1>1, RangeEquality
<1>4. Range(q) \subseteq {Head(q)} \cup Range(Tail(q))
  <2> SUFFICES ASSUME NEW i \in 1 .. Len(q), i # 1
               PROVE  q[i] \in Range(Tail(q))
    BY <1>2, <1>3
  <2>1. i - 1 \in 1 .. Len(Tail(q)) /\ (i - 1) + 1 = i
    BY <1>1
  <2>2. Tail(q)[i - 1] = q[i]
    BY <1>1, <2>1
  <2> QED
    BY <1>3, <2>1, <2>2
<1>5. {Head(q)} \cup Range(Tail(q)) \subseteq Range(q)
  <2>1. \A i \in 1 .. Len(Tail(q)) : i + 1 \in 1 .. Len(q)
    BY <1>1
  <2>2. 1 \in 1 .. Len(q)
    BY <1>1
  <2> QED
    BY <1>1, <1>2, <1>3, <2>1, <2>2
<1> QED
  BY <1>4, <1>5

(* The verbs of a role are among the names for verbs.                      *)
LEMMA VerbsOfRole ==
  ASSUME NEW a \in Ast, NEW e \in Entities, NEW r \in a.roles[e]
  PROVE  VerbsOf(a, e, r) \subseteq Verbs
<1>1. a.roles[e] \subseteq Roles /\ \A s \in Roles : a.own[e][s] \subseteq Verbs
  BY DEF Ast
<1>2. Lineage(a, e, r) \subseteq Roles
  BY <1>1 DEF Lineage
<1> QED
  BY <1>1, <1>2 DEF VerbsOf

(* What a permission adds to the working set are pairs of ids, and just    *)
(* what it grants when the dictionary has the right id.                    *)
LEMMA CapabilitiesAre ==
  ASSUME DataType, NEW e \in Entities, NEW m, Known(e, m)
  PROVE  /\ Capabilities(e, m) \subseteq Pair
         /\ dict[e] = {pubkey[e]} => Capabilities(e, m) = Grant(pubkey, ast, <<e, m>>)
<1> DEFINE verbs == IF m \in ast.roles[e] THEN VerbsOf(ast, e, m) ELSE {m}
<1>1. verbs \subseteq Verbs
  <2>1. ast \in Ast /\ ast.verbs[e] \subseteq Verbs
    BY DEF DataType, Ast
  <2>2. CASE m \in ast.roles[e]
    BY <2>1, <2>2, VerbsOfRole
  <2>3. CASE m \notin ast.roles[e]
    BY <2>1, <2>3 DEF Known
  <2> QED
    BY <2>2, <2>3
<1>2. Capabilities(e, m) = UNION {VerbCapability(e, v) : v \in verbs}
  BY DEF Capabilities, RoleCapabilities
<1> HIDE DEF verbs
<1>3. \A v \in Verbs : VerbCapability(e, v) \subseteq Pair
  <2>1. dict[e] \subseteq Uuids \cup {NONE} /\ \A v \in Verbs : VerbId[e][v] \in Uuids
    BY UuidsAssumption DEF DataType
  <2> QED
    BY <2>1 DEF VerbCapability, Pair
<1>4. Capabilities(e, m) \subseteq Pair
  BY <1>1, <1>2, <1>3
<1>5. ASSUME dict[e] = {pubkey[e]}
      PROVE  Capabilities(e, m) = Grant(pubkey, ast, <<e, m>>)
  <2>1. Grant(pubkey, ast, <<e, m>>) = {<<pubkey[e], VerbId[e][v]>> : v \in verbs}
    BY <1>5 DEF Grant, verbs
  <2>2. \A v : VerbCapability(e, v) = {<<pubkey[e], VerbId[e][v]>>}
    BY <1>5 DEF VerbCapability
  <2> QED
    BY <1>2, <2>1, <2>2
<1> QED
  BY <1>4, <1>5

(* One turn of the loop over the -P options.                               *)
LEMMA AddPermissionData ==
  ASSUME Data, pc = "set", perms_left # <<>>,
         NEW e, e = Head(perms_left)[1], NEW m, m = Head(perms_left)[2],
         dict[e] # {}, Known(e, m),
         set' = set \cup Capabilities(e, m), perms_left' = Tail(perms_left),
         UNCHANGED <<pc, retval, keys_left, entity_id, dict, input, config, product, stderr>>
  PROVE  Data'
<1>1. pc \in Range(Calls) /\ pc' = "set" /\ pc' \in Range(Calls)
  BY RangeOfCalls
<1>2. /\ permissions' = permissions /\ pubkey' = pubkey /\ file' = file
      /\ ast' = ast /\ parsed' = parsed /\ forgotten' = forgotten /\ keys_left' = keys_left /\ entity_id' = entity_id
      /\ dict' = dict /\ output' = output /\ stderr' = stderr
      /\ certified' = certified
  BY DEF input, config, product
<1>3. /\ perms_left \in Seq(Entities \X Moieties) /\ Head(perms_left) \in Entities \X Moieties
      /\ Tail(perms_left) \in Seq(Entities \X Moieties)
  BY HeadTailProperties DEF Data, DataType
<1>4. Head(perms_left) = <<e, m>> /\ e \in Entities
  BY <1>3
<1>5. Range(perms_left) = {<<e, m>>} \cup Range(perms_left')
  BY <1>3, <1>4, RangeOfHeadAndTail
<1>6. DataType /\ Capabilities(e, m) \subseteq Pair
  BY <1>4, CapabilitiesAre DEF Data
<1>7. DataType' /\ OutputInv'
  BY <1>1, <1>2, <1>3, <1>6 DEF Data, DataType, OutputInv
<1>8. ConfigInv' /\ DictInv'
  BY <1>1, <1>2 DEF Data, ConfigInv, DictInv
<1>9. SetInv'
  <2>1. \A p \in Range(permissions) : p \in Range(perms_left) \/ Grantable(p)
    BY DEF Data, SetInv
  <2>2. Grantable(<<e, m>>)
    BY <1>4 DEF Grantable, Data, DictInv
  <2>3. \A p \in Range(permissions) : p \in Range(perms_left') \/ Grantable(p)
    BY <1>5, <2>1, <2>2
  <2>4. \A p \in Range(permissions') : p \in Range(perms_left') \/ Grantable(p)'
    BY <1>2, <2>3 DEF Grantable, Known
  <2>5. ASSUME ~stderr
        PROVE  set' \cup GrantAll(pubkey, ast, Range(perms_left')) = Granted(ast)
    <3>1. set \cup GrantAll(pubkey, ast, Range(perms_left)) = Granted(ast)
      BY <2>5 DEF Data, SetInv
    <3>2. dict[e] = {pubkey[e]}
      BY <1>4, <2>5 DEF Data, DictInv
    <3>3. Capabilities(e, m) = Grant(pubkey, ast, <<e, m>>)
      BY <1>4, <1>6, <3>2, CapabilitiesAre
    <3>4. GrantAll(pubkey, ast, Range(perms_left))
            = Grant(pubkey, ast, <<e, m>>) \cup GrantAll(pubkey, ast, Range(perms_left'))
      <4> DEFINE q == <<e, m>>
                 S == Range(perms_left')
                 T == Range(perms_left)
      <4>1. T = {q} \cup S
        BY <1>5
      <4> HIDE DEF q, S, T
      <4>2. \A x : x \in GrantAll(pubkey, ast, T)
                     <=> x \in Grant(pubkey, ast, q) \/ x \in GrantAll(pubkey, ast, S)
        BY <4>1, GrantMember
      <4>3. GrantAll(pubkey, ast, T) = Grant(pubkey, ast, q) \cup GrantAll(pubkey, ast, S)
        BY <4>2
      <4> QED
        BY <4>3 DEF q, S, T
    <3> QED
      BY <3>1, <3>3, <3>4
  <2>6. Granted(ast)' = Granted(ast)
    BY <1>2, GrantedStays
  <2>7. GrantAll(pubkey, ast, Range(perms_left))' = GrantAll(pubkey, ast, Range(perms_left'))
    BY <1>2 DEF GrantAll, Grant
  <2>8. ~stderr' => (set \cup GrantAll(pubkey, ast, Range(perms_left)))' = Granted(ast)'
    BY <1>2, <2>5, <2>6, <2>7
  <2> QED
    BY <1>1, <2>4, <2>8 DEF SetInv
<1>10. ResultInv'
  <2>1. output.size = "absent"
    BY <1>1 DEF Data, OutputInv
  <2>2. AllOrNothing'
    BY <1>2, <2>1 DEF AllOrNothing
  <2> QED
    BY <1>1, <2>2 DEF ResultInv
<1> QED
  BY <1>7, <1>8, <1>9, <1>10 DEF Data

(* The end of that loop.                                                   *)
LEMMA WorkingSetDoneData ==
  ASSUME Data, pc = "set", pc' = "output", perms_left = <<>>,
         UNCHANGED <<input, config, loops, product>>, stderr' \in {stderr, TRUE}
  PROVE  Data'
<1>1. pc \in Range(Calls) \ {"output"} /\ pc' \in Range(Calls)
  BY RangeOfCalls
<1>2. /\ permissions' = permissions /\ pubkey' = pubkey /\ file' = file
      /\ ast' = ast /\ parsed' = parsed /\ forgotten' = forgotten /\ keys_left' = keys_left /\ entity_id' = entity_id
      /\ dict' = dict /\ perms_left' = perms_left /\ set' = set /\ output' = output
      /\ certified' = certified
      /\ stderr' \in BOOLEAN /\ (~stderr' => ~stderr)
  BY DEF input, config, product, loops, Data, DataType
<1>3. DataType' /\ OutputInv'
  BY <1>1, <1>2 DEF Data, DataType, OutputInv
<1>4. ConfigInv' /\ DictInv'
  BY <1>1, <1>2 DEF Data, ConfigInv, DictInv
<1>5. SetInv'
  <2>1. Range(perms_left) = {}
    BY DEF Range
  <2>2. GrantAll(pubkey, ast, {}) = {}
    BY DEF GrantAll
  <2>3. \A p \in Range(permissions') : Grantable(p)'
    BY <1>2, <2>1 DEF Data, SetInv, Grantable, Known
  <2>4. ~stderr' => set' = Granted(ast)'
    <3>1. Granted(ast)' = Granted(ast)
      BY <1>2, GrantedStays
    <3>2. ASSUME ~stderr
          PROVE  set = Granted(ast)
      <4>1. set \cup GrantAll(pubkey, ast, Range(perms_left)) = Granted(ast)
        BY <3>2 DEF Data, SetInv
      <4> QED
        BY <2>1, <2>2, <4>1
    <3> QED
      BY <1>2, <3>1, <3>2
  <2> QED
    BY <2>3, <2>4 DEF SetInv
<1>6. ResultInv'
  <2>1. output.size = "absent"
    BY <1>1 DEF Data, OutputInv
  <2>2. AllOrNothing'
    BY <1>2, <2>1 DEF AllOrNothing
  <2> QED
    BY <2>2 DEF ResultInv
<1> QED
  BY <1>3, <1>4, <1>5, <1>6 DEF Data

(* The output file is written, in part or as a whole, or is not.           *)
LEMMA BuildData ==
  ASSUME Data, BuildOutput
  PROVE  Data'
<1>1. /\ pc = "output" /\ pc' = "cleanup" /\ pc \in Range(Calls) /\ pc' \notin Range(Calls)
      /\ UNCHANGED <<input, config, resource, loops>>
  BY RangeOfCalls DEF BuildOutput
<1>2. /\ permissions' = permissions /\ pubkey' = pubkey /\ file' = file
      /\ ast' = ast /\ parsed' = parsed /\ forgotten' = forgotten /\ keys_left' = keys_left /\ entity_id' = entity_id
      /\ dict' = dict /\ perms_left' = perms_left /\ set' = set
  BY <1>1 DEF input, config, loops
<1>3. stderr' \in {stderr, TRUE} /\ stderr' \in BOOLEAN /\ (~stderr' => ~stderr)
  BY DEF BuildOutput, Quiet, Complain, Data, DataType
<1>4. \/ \E cert \in InputCerts : \E copied \in CopiedFields(cert) :
           /\ certified' = cert
           /\ \/ output' = [size |-> "whole", endorsements |-> copied \cup set]
              \/ output' = [size |-> "part", endorsements |-> {}] /\ stderr'
      \/ output' = output /\ certified' = certified /\ retval' = "ERROR"
  BY DEF BuildOutput, WriteNew, Complain, product
<1>5. DataType'
  BY <1>2, <1>3 DEF Data, DataType
<1>6. OutputInv'
  <2>1. set \in SUBSET Pair
    BY DEF Data, DataType
  <2>2. \A cert \in InputCerts :
          cert \in Certificates /\ \A copied \in CopiedFields(cert) : copied \in SUBSET Pair
    BY InputCertsAssumption DEF Certificates, CopiedFields, Pair
  <2> QED
    BY <1>1, <1>4, <2>1, <2>2 DEF Data, OutputInv
<1>7. ConfigInv' /\ DictInv' /\ SetInv'
  BY <1>1, <1>2, <1>3 DEF Data, ConfigInv, DictInv, SetInv
<1>8. ResultInv'
  <2>1. WellFormed(ast) /\ \A p \in Range(permissions) : Grantable(p)
    BY <1>1 DEF Data, ConfigInv, SetInv
  <2>2. AllOrNothing'
    BY <1>2, <2>1 DEF AllOrNothing, Grantable, Known
  <2>3. ASSUME retval' = "SUCCESS", ~stderr'
        PROVE  /\ output'.size = "whole" /\ WellFormed(ast')
               /\ \E copied \in CopiedFields(certified') :
                    output'.endorsements = copied \cup Granted(ast)'
    <3>1. PICK cert \in InputCerts : \E copied \in CopiedFields(cert) :
            certified' = cert /\ output' = [size |-> "whole", endorsements |-> copied \cup set]
      BY <1>4, <2>3
    <3>2. set = Granted(ast)
      BY <1>1, <1>3, <2>3 DEF Data, SetInv
    <3>3. Granted(ast)' = Granted(ast)
      BY <1>1, <1>2, GrantedStays
    <3> QED
      BY <1>2, <2>1, <3>1, <3>2, <3>3
  <2>4. CopiedFields(certified)' = CopiedFields(certified') /\ WellFormed(ast)' = WellFormed(ast')
    BY DEF CopiedFields
  <2> QED
    BY <2>2, <2>3, <2>4 DEF ResultInv
<1> QED
  BY <1>5, <1>6, <1>7, <1>8 DEF Data

(* The cleanup, somebody else's file and the end leave all but the status  *)
(* and the output file as they are.                                        *)
LEMMA LastData ==
  ASSUME Data, UNCHANGED <<input, config, loops, certified, stderr>>,
         \/ pc = "cleanup" /\ pc' = "done" /\ retval' \in {retval, "ERROR"} /\ output' = output
         \/ pc' = pc /\ retval' = retval /\ output' = output
         \/ /\ pc = "output" /\ pc' = pc /\ retval' = retval
            /\ output' = [output EXCEPT !.size = "other"]
  PROVE  Data'
<1>1. pc = "cleanup" \/ pc' = pc
  OBVIOUS
<1>2. /\ permissions' = permissions /\ pubkey' = pubkey /\ file' = file
      /\ ast' = ast /\ parsed' = parsed /\ forgotten' = forgotten /\ keys_left' = keys_left /\ entity_id' = entity_id
      /\ dict' = dict /\ perms_left' = perms_left /\ set' = set /\ stderr' = stderr
      /\ certified' = certified
  BY DEF input, config, loops
<1>3. Granted(ast)' = Granted(ast)
  BY <1>2, GrantedStays
<1>4. {"cleanup", "done"} \cap Range(Calls) = {} /\ "output" \in Range(Calls)
  BY RangeOfCalls
<1>5. DataType'
  BY <1>2 DEF Data, DataType
<1>6. OutputInv'
  BY <1>4 DEF Data, OutputInv
<1>7. ConfigInv' /\ DictInv'
  BY <1>1, <1>2, <1>4 DEF Data, ConfigInv, DictInv
<1>8. SetInv'
  <2>1. \A p : Grantable(p)' <=> Grantable(p)
    BY <1>2 DEF Grantable, Known
  <2> QED
    BY <1>1, <1>2, <1>3, <1>4, <2>1 DEF Data, SetInv
<1>9. ResultInv'
  <2>1. AllOrNothing'
    <3>1. output'.size \in {"part", "whole"} => output.size \in {"part", "whole"}
      BY DEF Data, OutputInv
    <3>2. \A p : Known(p[1], p[2])' <=> Known(p[1], p[2])
      BY <1>2 DEF Known
    <3> QED
      BY <1>2, <3>1, <3>2 DEF Data, ResultInv, AllOrNothing
  <2>2. CopiedFields(certified)' = CopiedFields(certified)
    BY <1>2 DEF CopiedFields
  <2>3. pc' \in {"cleanup", "done"} /\ retval' = "SUCCESS" =>
          pc \in {"cleanup", "done"} /\ retval = "SUCCESS" /\ output' = output
    OBVIOUS
  <2> QED
    BY <1>2, <1>3, <2>1, <2>2, <2>3 DEF Data, ResultInv
<1> QED
  BY <1>5, <1>6, <1>7, <1>8, <1>9 DEF Data

-----------------------------------------------------------------------------
(* The initial states.                                                     *)
LEMMA CmdInitially ==
  ASSUME CmdInit
  PROVE  IInv
<1>1. PICK n \in 0 .. MaxPermissions : permissions \in [1 .. n -> Entities \X Moieties]
  BY DEF CmdInit
<1>2. permissions \in Seq(Entities \X Moieties) /\ Len(permissions) <= MaxPermissions
  <2>1. n \in Nat /\ n <= MaxPermissions
    BY <1>1, MaxPermissionsAssumption
  <2>2. permissions \in Seq(Entities \X Moieties)
    BY <1>1, <2>1
  <2>3. Len(permissions) \in Nat /\ 1 .. n = 1 .. Len(permissions)
    BY <1>1, <2>1, <2>2, LenProperties
  <2>4. Len(permissions) = n
    BY <2>1, <2>3
  <2> QED
    BY <2>1, <2>2, <2>4
<1>3. NoConfig \in Ast
  BY DEF NoConfig, Ast
<1>4. DataType
  BY <1>2, <1>3, ConfigsAssumption, UuidsAssumption DEF CmdInit, DataType
<1>5. pc = "key_file" /\ pc \in Range(Calls)
  BY RangeOfCalls DEF CmdInit
<1>6. OutputInv
  BY <1>5 DEF CmdInit, OutputInv, Certificates
<1>7. ConfigInv /\ SetInv
  BY <1>5 DEF CmdInit, ConfigInv, SetInv
<1>8. DictInv
  BY <1>5 DEF CmdInit, DictInv
<1>9. ResultInv
  BY <1>5 DEF CmdInit, ResultInv, AllOrNothing
<1>10. Control
  <2>1. \A r \in Resources : 1 <= Position(r)
    BY PositionByName DEF Resources
  <2> QED
    BY <1>5, <2>1, PositionByName DEF CmdInit, Control, ReleaseInv, NoErrorYet
<1> QED
  BY <1>4, <1>6, <1>7, <1>8, <1>9, <1>10 DEF IInv, Data

(* A call that succeeds or fails without a change of the data but for a    *)
(* message.                                                                *)
LEMMA EarlyStep ==
  ASSUME IInv, NEW call \in EarlyCalls, NEW state \in {"live", "disposed", "unset"},
         Succeed(call, state) \/ Fail(call), stderr' \in {stderr, TRUE},
         UNCHANGED <<input, config, loops, product>>
  PROVE  IInv'
BY AfterEarly, SucceedControl, FailControl, EarlyData, FailData DEF IInv

(* Each step keeps the invariant, one lemma per action.  The calls that     *)
(* prepare an object,                                                       *)
LEMMA PrepareStep ==
  ASSUME IInv, NEW call, Prepare(call)
  PROVE  IInv'
BY EarlyStep DEF Prepare, EarlyCalls, Quiet

(* the key, input and config files that are read into memory,               *)
LEMMA ReadFileStep ==
  ASSUME IInv, NEW call, ReadFile(call)
  PROVE  IInv'
BY EarlyStep DEF ReadFile, EarlyCalls, Quiet, Complain

(* the key file, whose pointer may stay unset on success,                   *)
LEMMA GetKeyFileStep ==
  ASSUME IInv, GetKeyFile
  PROVE  IInv'
BY EarlyStep DEF GetKeyFile, EarlyCalls, Quiet, Complain

(* the name of the output file.                                             *)
LEMMA GetOutputFilenameStep ==
  ASSUME IInv, GetOutputFilename
  PROVE  IInv'
BY EarlyStep DEF GetOutputFilename, EarlyCalls, Quiet, Complain

(* A later call fails.                                                     *)
LEMMA LateFail ==
  ASSUME IInv, NEW call \in {"parse", "analyze", "dict", "set"}, Fail(call),
         stderr' \in {stderr, TRUE}, UNCHANGED <<input, config, loops, product>>
  PROVE  IInv'
<1>1. call \in Range(Calls) \ {"output"}
  BY RangeOfCalls
<1> QED
  BY <1>1, FailControl, FailData DEF IInv

(* Where a later call leads when it succeeds.                              *)
LEMMA LateSucceed ==
  ASSUME Control, NEW call \in {"parse", "analyze", "dict", "set"}, Succeed(call, "live")
  PROVE  /\ Control'
         /\ pc = call
         /\ call = "parse" => pc' = "analyze"
         /\ call = "analyze" => pc' = "dict"
         /\ call = "dict" => pc' = "set"
         /\ call = "set" => pc' = "output"
<1>1. call \in Range(Calls) \ {"output"}
  BY RangeOfCalls
<1>2. Control'
  BY <1>1, SucceedControl
<1> QED
  BY <1>2, PositionByName, CallsByName DEF Succeed

(* The parse, which may succeed with a part of the config.                  *)
LEMMA ParseStep ==
  ASSUME IInv, Parse
  PROVE  IInv'
<1>1. UNCHANGED <<input, loops, product>>
  BY DEF Parse
<1>2. CASE Fail("parse") /\ Complain /\ UNCHANGED config
  BY <1>1, <1>2, LateFail DEF Complain
<1>3. ASSUME Succeed("parse", "live"), Quiet,
             \E a \in Ast : Read(a) /\ ((a = file /\ parsed' = TRUE) \/ parsed' = parsed)
      PROVE  IInv'
  BY <1>1, <1>3, LateSucceed, ParseData DEF IInv, Quiet
<1>4. file \in Ast /\ Configs \subseteq Ast
  BY ConfigsAssumption DEF IInv, Data, DataType
<1> QED
  BY <1>2, <1>3, <1>4 DEF Parse

(* The analysis, which succeeds on well formed configs only.                *)
LEMMA AnalyzeStep ==
  ASSUME IInv, Analyze
  PROVE  IInv'
<1>1. UNCHANGED <<input, config, loops, product, stderr>>
  BY DEF Analyze, Quiet
<1>2. CASE WellFormed(ast) /\ Succeed("analyze", "live")
  BY <1>1, <1>2, LateSucceed, AnalyzeData DEF IInv
<1>3. CASE Fail("analyze")
  BY <1>1, <1>3, LateFail
<1> QED
  BY <1>2, <1>3 DEF Analyze

(* A turn of the loop that builds the uuid dictionary,                      *)
LEMMA AddUuidStep ==
  ASSUME IInv, NEW e \in Entities, AddUuid(e)
  PROVE  IInv'
<1>1. /\ pc = "dict" /\ NextKey(e) /\ UNCHANGED <<input, config, product>>
  BY DEF AddUuid
<1>2. CASE Fail("dict") /\ stderr' \in {stderr, TRUE} /\ UNCHANGED loops
  BY <1>1, <1>2, LateFail
<1>3. CASE /\ \E short \in BOOLEAN :
                /\ entity_id' = IF short THEN entity_id ELSE pubkey[e]
                /\ stderr' = (stderr \/ short)
           /\ dict' = [dict EXCEPT ![e] = {entity_id'}]
           /\ keys_left' = keys_left \ {e}
           /\ UNCHANGED <<pc, label, resource, retval, perms_left, set>>
  BY <1>1, <1>3, SameControl, AddUuidData DEF IInv
<1> QED
  BY <1>2, <1>3 DEF AddUuid

(* and its end.                                                             *)
LEMMA DictDoneStep ==
  ASSUME IInv, DictDone
  PROVE  IInv'
<1>1. pc = "dict" /\ keys_left = {} /\ UNCHANGED <<input, config, loops, product, stderr>>
  BY DEF DictDone, Quiet
<1>2. CASE Succeed("dict", "live")
  BY <1>1, <1>2, LateSucceed, DictDoneData DEF IInv
<1>3. CASE Fail("dict")
  BY <1>1, <1>3, LateFail
<1> QED
  BY <1>2, <1>3 DEF DictDone

(* A turn of the loop that builds the working set,                          *)
LEMMA AddPermissionStep ==
  ASSUME IInv, AddPermission
  PROVE  IInv'
<1> DEFINE e == Head(perms_left)[1]
           m == Head(perms_left)[2]
<1>1. pc = "set" /\ perms_left # <<>> /\ UNCHANGED <<input, config, product>>
  BY DEF AddPermission
<1>2. CASE /\ dict[e] # {} /\ Known(e, m)
           /\ set' = set \cup Capabilities(e, m)
           /\ perms_left' = Tail(perms_left)
           /\ Quiet
           /\ UNCHANGED <<pc, label, resource, retval, keys_left, entity_id, dict>>
  BY <1>1, <1>2, SameControl, AddPermissionData DEF IInv, Quiet
<1>3. CASE Fail("set") /\ stderr' \in {stderr, TRUE} /\ UNCHANGED loops
  BY <1>1, <1>3, LateFail
<1> QED
  BY <1>2, <1>3 DEF AddPermission

(* and its end.                                                             *)
LEMMA WorkingSetDoneStep ==
  ASSUME IInv, WorkingSetDone
  PROVE  IInv'
<1>1. pc = "set" /\ perms_left = <<>> /\ UNCHANGED <<input, config, loops, product>>
  BY DEF WorkingSetDone
<1>2. stderr \in BOOLEAN
  BY DEF IInv, Data, DataType
<1>3. CASE Succeed("set", "live") /\ stderr' = (stderr \/ permissions = <<>>)
  BY <1>1, <1>2, <1>3, LateSucceed, WorkingSetDoneData DEF IInv
<1>4. CASE Fail("set") /\ Quiet
  BY <1>1, <1>4, LateFail DEF Quiet
<1> QED
  BY <1>3, <1>4 DEF WorkingSetDone

(* Another program creates a file of the name of the output file.           *)
LEMMA MeddleStep ==
  ASSUME IInv, Meddle
  PROVE  IInv'
BY SameControl, LastData DEF IInv, Meddle

(* The labels of endorse_command_func release what is held.                 *)
LEMMA CleanupStep ==
  ASSUME IInv, Cleanup
  PROVE  IInv'
<1>1. /\ UNCHANGED <<input, config, loops, certified, stderr>>
      /\ pc = "cleanup" /\ pc' = "done" /\ retval' \in {retval, "ERROR"} /\ output' = output
  BY DEF Cleanup, product
<1> QED
  BY <1>1, CleanupControl, LastData DEF IInv

(* A stuttering step.                                                       *)
LEMMA CmdStutter ==
  ASSUME IInv, UNCHANGED vars
  PROVE  IInv'
BY SameControl, LastData DEF IInv, vars, product

(* Every step of the command keeps the invariant.                          *)
LEMMA CmdStep ==
  ASSUME IInv, [CmdNext]_vars
  PROVE  IInv'
<1>1. CASE BuildOutput
  BY <1>1, BuildControl, BuildData DEF IInv
<1>2. CASE UNCHANGED vars \/ Returned
  BY <1>2, CmdStutter DEF Returned
<1> QED
  BY <1>1, <1>2, PrepareStep, ReadFileStep, GetKeyFileStep, GetOutputFilenameStep, ParseStep,
     AnalyzeStep, AddUuidStep, DictDoneStep, AddPermissionStep, WorkingSetDoneStep, MeddleStep,
     CleanupStep
  DEF CmdNext

-----------------------------------------------------------------------------
(* The invariant holds of every run of the command: the resources behind   *)
(* the call that is next are acquired and no others, the working set and   *)
(* what the -P options that are left grant by the parsed config are        *)
(* together what is granted, the config is the file's but for lost extends *)
(* clauses when the parser said nothing, and the output file holds what is *)
(* granted, with the input certificate's endorsements, or nothing.         *)
THEOREM CommandInvariant == CmdSpec => []IInv
<1>1. CmdInit => IInv
  BY CmdInitially
<1>2. IInv /\ [CmdNext]_vars => IInv'
  BY CmdStep
<1> QED
  BY <1>1, <1>2, PTL DEF CmdSpec

(* The types, among them that at each call just the resources of the calls *)
(* before it are acquired.                                                 *)
THEOREM CommandTypeCorrect == CmdSpec => []CmdTypeOK
<1>1. IInv => CmdTypeOK
  <2> SUFFICES ASSUME IInv
               PROVE  CmdTypeOK
    OBVIOUS
  <2>1. /\ output.size \in {"absent", "other", "part", "whole"}
        /\ certified \in Certificates
        /\ output.endorsements \subseteq (Uuids \cup {NONE}) \X Uuids
        /\ set \in SUBSET ((Uuids \cup {NONE}) \X Uuids)
    BY DEF IInv, Data, DataType, OutputInv, Pair
  <2> QED
    BY <2>1 DEF IInv, Control, Data, DataType, CmdTypeOK
<1> QED
  BY <1>1, CommandInvariant, PTL

(* On every way out each resource that was acquired has been released, and *)
(* none is whose call was not made or failed, whichever call fails.        *)
THEOREM ResourcesAreReleased == CmdSpec => []EverythingReleased
<1>1. IInv => EverythingReleased
  <2> SUFFICES ASSUME IInv
               PROVE  EverythingReleased
    OBVIOUS
  <2>1. \A r \in ReleasedFrom(label) : r \in Resources
    BY DEF ReleasedFrom
  <2> QED
    BY <2>1 DEF IInv, Control, ReleaseInv, EverythingReleased
<1> QED
  BY <1>1, CommandInvariant, PTL

(* There is an output file only if the config is well formed and all of    *)
(* the -P options name what there is.                                      *)
THEOREM AllAreGrantedOrNone == CmdSpec => []AllOrNothing
<1>1. IInv => AllOrNothing
  BY DEF IInv, Data, ResultInv
<1> QED
  BY <1>1, CommandInvariant, PTL

(* A config that has lost extends clauses grants no more than the whole    *)
(* one, and the same if none is lost.                                      *)
LEMMA ForgetGrantsLess ==
  ASSUME NEW a \in Ast, NEW lost, permissions \in Seq(Entities \X Moieties)
  PROVE  /\ Granted(Forget(a, lost)) \subseteq Granted(a)
         /\ lost = {} => Forget(a, lost) = a
<1> DEFINE b == Forget(a, lost)
<1>1. /\ b.roles = a.roles /\ b.own = a.own
      /\ \A e \in Entities, r \in Roles :
           b.extends[e][r] = IF <<e, r>> \in lost THEN NULL ELSE a.extends[e][r]
  BY DEF Forget, Ast
<1>2. ASSUME lost = {}
      PROVE  b = a
  <2>1. a.extends \in [Entities -> [Roles -> Roles \cup {NULL}]]
    BY DEF Ast
  <2>2. [e \in Entities |-> [r \in Roles |->
           IF <<e, r>> \in lost THEN NULL ELSE a.extends[e][r]]] = a.extends
    BY <1>2, <2>1
  <2> QED
    BY <2>2 DEF Forget, Ast
<1> HIDE DEF b
<1>3. ASSUME NEW e \in Entities, NEW r
      PROVE  VerbsOf(b, e, r) \subseteq VerbsOf(a, e, r)
  <2>1. a.roles[e] \subseteq Roles
    BY DEF Ast
  <2>2. \A s \in a.roles[e] : BaseOf(b, e, s) \in {BaseOf(a, e, s), NULL}
    BY <1>1, <2>1 DEF BaseOf
  <2>3. ASSUME NEW S \in SUBSET a.roles[e], BaseClosed(a, e, S)
        PROVE  BaseClosed(b, e, S)
    BY <2>2, <2>3 DEF BaseClosed
  <2>4. Lineage(b, e, r) \subseteq Lineage(a, e, r)
    BY <1>1, <2>3 DEF Lineage
  <2> QED
    BY <1>1, <2>4 DEF VerbsOf
<1>4. ASSUME NEW p \in Entities \X Moieties
      PROVE  Grant(pubkey, b, p) \subseteq Grant(pubkey, a, p)
  <2>1. p[1] \in Entities
    BY <1>4
  <2>2. VerbsOf(b, p[1], p[2]) \subseteq VerbsOf(a, p[1], p[2])
    BY <1>3, <2>1
  <2> QED
    BY <1>1, <2>2 DEF Grant
<1>5. Range(permissions) \subseteq Entities \X Moieties
  BY RangeEquality, ElementOfSeq DEF Range
<1>6. Granted(b) \subseteq Granted(a)
  <2>1. \A x \in GrantAll(pubkey, b, Range(permissions)) : x \in GrantAll(pubkey, a, Range(permissions))
    BY <1>4, <1>5, GrantMember
  <2> QED
    BY <2>1, GrantedIs
<1> QED
  BY <1>2, <1>6 DEF b

(* Silent success means that the certificate is whole and has, beside the  *)
(* endorsements of the input certificate, exactly those asked for by the   *)
(* well formed config that was parsed, inherited verbs included; and if    *)
(* the parser set no message, no more than the file grants, and all of it  *)
(* unless an extends clause was lost for want of memory.                   *)
THEOREM SilenceMeansExactness == CmdSpec => []SilentEndorseExact
<1>1. IInv => SilentEndorseExact
  <2> SUFFICES ASSUME IInv, pc = "done", retval = "SUCCESS", ~stderr
               PROVE  /\ output.size = "whole" /\ WellFormed(ast)
                      /\ \E copied \in CopiedFields(certified) :
                           output.endorsements = copied \cup Granted(ast)
                      /\ parsed => Granted(ast) \subseteq Granted(file)
                      /\ parsed /\ forgotten = {} =>
                           Granted(ast) = Granted(file) /\ WellFormed(file)
    BY DEF SilentEndorseExact
  <2>1. /\ output.size = "whole" /\ WellFormed(ast)
        /\ \E copied \in CopiedFields(certified) :
             output.endorsements = copied \cup Granted(ast)
    BY DEF IInv, Data, ResultInv
  <2>2. file \in Ast /\ permissions \in Seq(Entities \X Moieties)
    BY DEF IInv, Data, DataType
  <2>3. parsed => ast = Forget(file, forgotten)
    BY DEF IInv, Data, ConfigInv
  <2> QED
    BY <2>1, <2>2, <2>3, ForgetGrantsLess
<1> QED
  BY <1>1, CommandInvariant, PTL

(* No step of the command changes a file of somebody else, and the step    *)
(* that finds it fails.                                                    *)
THEOREM OthersAreRespected == CmdSpec => OthersFileStays
<1> DEFINE A == output.size = "other" =>
                  /\ output' = output
                  /\ pc = "output" /\ pc' = "cleanup" => retval' = "ERROR"
<1>1. [CmdNext]_vars => [A]_vars
  <2> SUFFICES ASSUME CmdNext, output.size = "other"
               PROVE  /\ output' = output
                      /\ pc = "output" /\ pc' = "cleanup" => retval' = "ERROR"
    OBVIOUS
  <2>1. CASE BuildOutput
    BY <2>1 DEF BuildOutput, WriteNew, product
  <2>2. CASE Meddle
    BY <2>2 DEF Meddle
  <2>3. CASE \E call \in Range(Calls) : Prepare(call) \/ ReadFile(call)
    BY <2>3 DEF Prepare, ReadFile, Succeed, Fail, product
  <2>4. CASE GetKeyFile \/ GetOutputFilename \/ Parse \/ Analyze
    BY <2>4 DEF GetKeyFile, GetOutputFilename, Parse, Analyze, Succeed, Fail, product
  <2>5. CASE (\E e \in Entities : AddUuid(e)) \/ DictDone \/ AddPermission \/ WorkingSetDone
    BY <2>5 DEF AddUuid, DictDone, AddPermission, WorkingSetDone, Succeed, Fail, product
  <2>6. CASE Cleanup \/ Returned
    BY <2>6 DEF Cleanup, Returned, vars, product
  <2> QED
    BY <2>1, <2>2, <2>3, <2>4, <2>5, <2>6 DEF CmdNext
<1> QED
  BY <1>1, PTL DEF CmdSpec, OthersFileStays
=============================================================================
