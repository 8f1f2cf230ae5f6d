-------------------------- MODULE EndorseContract --------------------------
(***************************************************************************)
(* What endorse_analyze promises its caller, without passes, trees or      *)
(* messages: roles are settled one at a time, in any order in which a role *)
(* comes after the role it extends; a settled role has the verbs of its    *)
(* own block and verbs of its lineage, all of them unless memory was       *)
(* short, and keeps them; and the status is success when the config is     *)
(* well formed, every role is settled and no verb is missing.              *)
(***************************************************************************)
EXTENDS EndorseAst

VARIABLES
  ast,      \* the config
  status,   \* "running", and then the status returned
  settled,  \* the roles <<e, r>> whose verbs are worked out
  held      \* the verbs each role has

contractVars == <<ast, status, settled, held>>

Init ==
  /\ ast \in Ast
  /\ status = "running"
  /\ settled = {}
  /\ held = [x \in Entities \X Roles |-> ast.own[x[1]][x[2]]]

Settle(e, r) ==
  LET base == BaseOf(ast, e, r)
  IN  /\ status = "running"
      /\ e \in ast.entities /\ r \in ast.roles[e]
      /\ <<e, r>> \notin settled
      /\ base # NULL => <<e, base>> \in settled
      /\ settled' = settled \cup {<<e, r>>}
      /\ \E verbs \in SUBSET VerbsOf(ast, e, r) :
           /\ ast.own[e][r] \subseteq verbs
           /\ held' = [held EXCEPT ![<<e, r>>] = verbs]
      /\ UNCHANGED <<ast, status>>

AllSettled == \A e \in ast.entities : \A r \in ast.roles[e] : <<e, r>> \in settled

NoneMissing == \A x \in settled : held[x] = VerbsOf(ast, x[1], x[2])

Finish ==
  /\ status = "running"
  /\ status' \in {"success", "failure"}
  /\ status' = "success" <=> WellFormed(ast) /\ NoneMissing
  /\ status' = "success" => AllSettled
  /\ UNCHANGED <<ast, settled, held>>

Next ==
  \/ \E e \in Entities, r \in Roles : Settle(e, r)
  \/ Finish

Spec == Init /\ [][Next]_contractVars
=============================================================================
