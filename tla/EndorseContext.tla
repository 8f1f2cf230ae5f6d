--------------------------- MODULE EndorseContext ---------------------------
(***************************************************************************)
(* endorse_config_context and the default user context behind it: its      *)
(* creation, the list of messages and the root that the parser hands it,   *)
(* the lookup of a message, and its release.                               *)
(*                                                                         *)
(* The context lives around a parse of EndorseParse: the command creates   *)
(* it, parses, asks for the root (which the analysis of EndorseAnalyze     *)
(* then reads) and releases it.  Any allocation may fail; a message that   *)
(* finds no memory is dropped and nobody is told.                          *)
(***************************************************************************)
EXTENDS EndorseParse, SequencesExt

VARIABLES
  ctx_pc,       \* the next step of the command
  live,         \* what is allocated: "user" context, "list", "context"
  hooked,       \* the release of the context is the wrapper's
  root,         \* user->root is set
  error_list    \* the messages kept

ctxVars == <<vars, ctx_pc, live, hooked, root, error_list>>

Steps == {"create user", "create list", "create context", "parse", "release user",
          "release context", "done", "crashed"}

ContextTypeOK ==
  /\ TypeOK
  /\ ctx_pc \in Steps
  /\ live \subseteq {"user", "list", "context"}
  /\ hooked \in BOOLEAN
  /\ root \in BOOLEAN
  /\ ToSet(error_list) \subseteq messages
  /\ error_list # << >> => "list" \in live

CtxInit ==
  /\ Init
  /\ ctx_pc = "create user"
  /\ live = {} /\ hooked = FALSE /\ root = FALSE /\ error_list = << >>

(* endorse_config_default_user_context_resource_release: the list and the  *)
(* config if there are any, then the user context itself.                  *)
ReleaseUser ==
  /\ live' = live \ {"list", "user"}
  /\ error_list' = << >>
  /\ reference_count' = IF root THEN reference_count - 1 ELSE reference_count
  /\ UNCHANGED <<pos, values, cfg, messages, retval, history>>

-----------------------------------------------------------------------------
(* endorse_config_create_default, whose calls fail at the given step and   *)
(* leave what was allocated to the release of the user context.            *)
Create(part, at, next) ==
  /\ ctx_pc = at
  /\ \/ /\ live' = live \cup {part}
        /\ ctx_pc' = next
        /\ UNCHANGED <<vars, error_list>>
     \/ /\ ctx_pc' = "done"
        /\ ReleaseUser
  /\ UNCHANGED root

CreateUser == Create("user", "create user", "create list") /\ UNCHANGED hooked

CreateList == Create("list", "create list", "create context") /\ UNCHANGED hooked

(* endorse_config_create_ex, after which the wrapper is hooked in. *)
CreateContext ==
  /\ Create("context", "create context", "parse")
  /\ hooked' = (ctx_pc' = "parse")

-----------------------------------------------------------------------------
(* The nodes for some new messages, that of the general one last. *)
MessageNodes(kept) ==
  LET general == kept \cap {<<"error merging">>}
  IN  SetToSeq(kept \ general) \o SetToSeq(general)

(* set_error for each new message: it is appended to the list, or dropped  *)
(* for want of memory.                                                     *)
SetError(new) ==
  \E kept \in SUBSET new : error_list' = error_list \o MessageNodes(kept)

(* yyparse with the context: val_callback gets each new config.  *)
Parse ==
  /\ ctx_pc = "parse"
  /\ ParseNext
  /\ SetError(messages' \ messages)
  /\ root' = (root \/ (pos = "start" /\ pos' = "top"))
  /\ UNCHANGED <<ctx_pc, live, hooked>>

(* The copy of a name fails, which nobody checks: the name is NULL.  It is *)
(* compared when a tree is searched that has another, and read when it is  *)
(* copied again, both undefined; the model follows such a parse no further.*)
NoName ==
  /\ ctx_pc = "parse" /\ pos \in {"entities", "verbs", "roles", "role"}
  /\ ctx_pc' = "crashed"
  /\ UNCHANGED <<vars, live, hooked, root, error_list>>

(* endorse_parse gets no scanner, and says so to its caller only. *)
NoScanner ==
  /\ ctx_pc = "parse" /\ pos = "start"
  /\ pos' = "done" /\ retval' = 1
  /\ UNCHANGED <<values, cfg, reference_count, messages, history, ctx_pc, live, hooked,
                 root, error_list>>

(* The root is asked for only after a parse that returned 0.  When no      *)
(* config could be made it is NULL, and endorse_analyze reads from it.     *)
GetRoot ==
  /\ ctx_pc = "parse" /\ Done
  /\ ctx_pc' = IF retval = 0 /\ ~root THEN "crashed" ELSE "release user"
  /\ UNCHANGED <<vars, live, hooked, root, error_list>>

(* Releasing the context: the wrapper, once hooked in, releases the user   *)
(* context first.                                                          *)
ReleaseWrapped ==
  /\ ctx_pc = "release user"
  /\ ctx_pc' = "release context"
  /\ IF hooked THEN ReleaseUser ELSE UNCHANGED <<vars, live, error_list>>
  /\ hooked' = FALSE
  /\ UNCHANGED root

ReleaseContext ==
  /\ ctx_pc = "release context"
  /\ ctx_pc' = "done"
  /\ live' = live \ {"context"}
  /\ UNCHANGED <<vars, hooked, root, error_list>>

Over == ctx_pc \in {"done", "crashed"} /\ UNCHANGED ctxVars

CtxNext ==
  \/ CreateUser \/ CreateList \/ CreateContext
  \/ Parse \/ NoName \/ NoScanner \/ GetRoot
  \/ ReleaseWrapped \/ ReleaseContext \/ Over

CtxSpec == CtxInit /\ [][CtxNext]_ctxVars

-----------------------------------------------------------------------------
(* Mutant: the index is decremented before it is tested. *)
WalkTooSoon(index) ==
  IF index \in 1 .. Len(error_list) + 1
  THEN [index |-> 0, node |-> index] ELSE [index |-> -1, node |-> Len(error_list) + 1]

(* The loop of endorse_config_default_context_get_error_message, which     *)
(* ends with index at -1 once it has counted down to the node asked for,   *)
(* and with index at what is left of it when the nodes run out: which is 0 *)
(* for the second index past the end.                                      *)
Walk(index) ==
  LET count == Len(error_list)
  IN  IF index \in 0 .. count
      THEN [index |-> -1, node |-> index + 1]
      ELSE [index |-> index - count - 1, node |-> count + 1]

(* What the lookup returns: a message only when the walk ends at 0.  No    *)
(* node stands for one past the end of the list: reading it is undefined.  *)
GetErrorMessage(index) ==
  LET end == Walk(index)
  IN  IF end.index # 0 THEN <<"out of bounds">>
      ELSE IF end.node > Len(error_list) THEN <<"undefined">>
      ELSE error_list[end.node]

-----------------------------------------------------------------------------
(* However the command ends, the context, its user context and its         *)
(* messages are given back: whichever allocation failed in its creation    *)
(* and wherever the parse ended.  The config is alive for as long as the   *)
(* context has it as its root, and is given back with the context, unless  *)
(* a merge ended the parse.                                                *)
ContextGivenBack ==
  /\ ctx_pc = "done" => live = {} /\ ~hooked
  /\ root /\ "user" \in live => reference_count > 0
  /\ ctx_pc = "done" /\ messages \subseteq {<<"syntax error">>} => reference_count = 0

(* The lookup never gives another message than the one at the index, and   *)
(* reads nothing past the list for an index up to the number of messages.  *)
LookupSafe ==
  \A index \in 0 .. Len(error_list) + 2 :
    /\ GetErrorMessage(index) \in Messages =>
         /\ index < Len(error_list)
         /\ GetErrorMessage(index) = error_list[index + 1]
    /\ GetErrorMessage(index) = <<"undefined">> => index > Len(error_list)

(* The header of endorse_config_default_context_get_error_message: "Get    *)
(* the Nth error message from the default endorse config".                 *)
MessagesFound ==
  \A index \in 1 .. Len(error_list) : GetErrorMessage(index - 1) = error_list[index]
=============================================================================
