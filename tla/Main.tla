-------------------------------- MODULE Main --------------------------------
(***************************************************************************)
(* main: it sets up the crypto suite, the certificate builder, the file    *)
(* interface and the allocator, reads the options, executes the command,   *)
(* and takes down what was set up in the opposite order, starting from the *)
(* label that belongs to the call that failed.                             *)
(***************************************************************************)
EXTENDS CommandLine

CONSTANT LibraryErrors   \* status codes of the libraries' failures

VARIABLES
  main_pc,      \* the next call or label
  up,           \* the parts of the program that are set up
  retval,
  failed,       \* history: a call returned an error
  exit_status   \* what the process leaves behind for its parent

mainVars == <<optsVars, main_pc, up, retval, failed, exit_status>>

(* VCTOOL_STATUS_ERROR_MACRO. *)
StatusCode(component, reason) == 134217728 + component * 65536 + reason

(* The codes of what commandline_opts_init returns. *)
OptsCode ==
  [SUCCESS |-> 0, OUT_OF_MEMORY |-> StatusCode(0, 1), DUPLICATE_OPTION |-> StatusCode(2, 4),
   BAD_KEY_ROUNDS |-> StatusCode(2, 5), BAD_KVP |-> StatusCode(2, 6),
   BAD_PERMISSION |-> StatusCode(2, 8), MISSING_ARGUMENT |-> StatusCode(2, 1),
   UNKNOWN_COMMAND |-> StatusCode(2, 2)]

(* A command fails with an error of vctool, here that its output file      *)
(* exists, or of a library.                                                *)
CommandErrors == {StatusCode(c, 1) : c \in {6, 7, 8}} \cup LibraryErrors

ASSUME LibraryErrorsAssumption == LibraryErrors \subseteq Nat \ {0}

Parts == <<"alloc_opts", "suite", "builder_opts", "file", "allocator">>

MainTypeOK ==
  /\ main_pc \in Range(Parts) \cup {"options", "execute", "dispose", "cleanup", "exited", "crashed"}
  /\ up \in SUBSET Range(Parts)
  /\ \A i \in 1 .. Len(Parts) : main_pc = Parts[i] => up = {Parts[j] : j \in 1 .. i - 1}
  /\ main_pc \in {"options", "execute", "dispose"} => up = Range(Parts)
  /\ main_pc = "execute" <=> opts_pc = "ready" /\ main_pc # "dispose"
  /\ retval \in CommandErrors \cup Range(OptsCode)
  /\ failed \in BOOLEAN
  /\ exit_status \in 0 .. 255
  /\ opts_pc \in {"start", "getopt", "ready", "failed", "disposed", "crashed"}
  /\ seen \in 0 .. Len(options)
  /\ Range(cmd) \subseteq Commands \cup {"root"}
  /\ opts_status \in Statuses

MainInit ==
  /\ OptsInit
  /\ main_pc = "alloc_opts"
  /\ up = {}
  /\ retval = 0 /\ failed = FALSE /\ exit_status = 0

GoTo(next, code) ==
  /\ main_pc' = next
  /\ retval' = code
  /\ failed' = (failed \/ code # 0)

(* malloc_allocator_options_init, vccrypt_suite_options_init,              *)
(* vccert_builder_options_init, file_init and                              *)
(* rcpr_malloc_allocator_create; of these the first and file_init cannot   *)
(* fail.                                                                   *)
SetUp(i) ==
  /\ main_pc = Parts[i]
  /\ \/ /\ up' = up \cup {Parts[i]}
        /\ GoTo(IF i = Len(Parts) THEN "options" ELSE Parts[i + 1], 0)
     \/ /\ Parts[i] \notin {"alloc_opts", "file"}
        /\ \E code \in LibraryErrors : GoTo("cleanup", code)
        /\ UNCHANGED up
  /\ UNCHANGED <<optsVars, exit_status>>

(* Mutant: the labels are passed from top to bottom in the order of setup. *)
FirstToGoSetupOrder ==
  CHOOSE i \in 1 .. Len(Parts) : Parts[i] \in up /\ \A j \in 1 .. i - 1 : Parts[j] \notin up

(* The label that is next. *)
FirstToGo ==
  CHOOSE i \in 1 .. Len(Parts) : Parts[i] \in up /\ \A j \in i + 1 .. Len(Parts) : Parts[j] \notin up

ReadOptions ==
  /\ main_pc = "options"
  /\ OptsNext
  /\ CASE opts_pc' = "ready"   -> GoTo("execute", 0)
       [] opts_pc' = "failed"  -> GoTo("cleanup", OptsCode[opts_status'])
       [] opts_pc' = "crashed" -> main_pc' = "crashed" /\ UNCHANGED <<retval, failed>>
       [] OTHER -> UNCHANGED <<main_pc, retval, failed>>
  /\ UNCHANGED <<up, exit_status>>

(* command_execute: the function of the first command on the list, which   *)
(* all of process_*_command have set.  help_command_func cannot fail.      *)
Execute ==
  /\ main_pc = "execute"
  /\ \E code \in {0} \cup CommandErrors :
       /\ Head(cmd) = "help" => code = 0
       /\ GoTo("dispose", code)
  /\ UNCHANGED <<optsVars, up, exit_status>>

Dispose ==
  /\ main_pc = "dispose"
  /\ main_pc' = "cleanup"
  /\ opts_pc' = "disposed"
  /\ DisposeOpts({})
  /\ UNCHANGED <<given, seen, root, oom, opts_status, up, retval, failed, exit_status>>

(* Mutant: the status of the release replaces the one there was. *)
CleanupReplaces ==
  /\ main_pc = "cleanup" /\ up # {}
  /\ LET part == Parts[FirstToGo]
     IN  /\ up' = up \ {part}
         /\ IF part = "allocator" THEN \E code \in {0} \cup LibraryErrors : GoTo("cleanup", code)
                                  ELSE UNCHANGED <<main_pc, retval, failed>>
  /\ UNCHANGED <<optsVars, exit_status>>

(* The labels.  Only the release of the allocator has a status, which      *)
(* takes the place of retval when it is an error.                          *)
Cleanup ==
  /\ main_pc = "cleanup" /\ up # {}
  /\ LET part == Parts[FirstToGo]
     IN  /\ up' = up \ {part}
         /\ \/ UNCHANGED <<main_pc, retval, failed>>
            \/ /\ part = "allocator"
               /\ \E code \in LibraryErrors : GoTo("cleanup", code)
  /\ UNCHANGED <<optsVars, exit_status>>

(* Mutant: retval is passed on as it is. *)
ExitWhole ==
  /\ main_pc = "cleanup" /\ up = {}
  /\ main_pc' = "exited"
  /\ exit_status' = retval
  /\ UNCHANGED <<optsVars, up, retval, failed>>

(* return retval: the parent of the process sees its lowest byte. *)
Exit ==
  /\ main_pc = "cleanup" /\ up = {}
  /\ main_pc' = "exited"
  /\ exit_status' = retval % 256
  /\ UNCHANGED <<optsVars, up, retval, failed>>

Gone == main_pc \in {"exited", "crashed"} /\ UNCHANGED mainVars

MainNext ==
  \/ \E i \in 1 .. Len(Parts) : SetUp(i)
  \/ ReadOptions \/ Execute \/ Dispose \/ Cleanup \/ Exit
  \/ Gone

MainSpec == MainInit /\ [][MainNext]_mainVars

-----------------------------------------------------------------------------
(* Nothing is taken down while something is there that needs it: entries,  *)
(* the dictionary and the list are given back to the allocator, commands   *)
(* need every part, and the parts need each other.                         *)
OwnersOutlive ==
  /\ heap \cap ({<<"dict">>, <<"permissions">>} \cup {<<"entry", i>> : i \in 1 .. MaxOptions}) # {}
       => "allocator" \in up
  /\ opts_pc = "ready" => up = Range(Parts)
  /\ "builder_opts" \in up => "suite" \in up
  /\ "suite" \in up => "alloc_opts" \in up

(* The parent of the process, which sees one byte of the status only, sees *)
(* 0 when the options were understood, the command has been executed, and  *)
(* neither it nor the release of the allocator failed; and after a failure *)
(* it sees 0 only if the last error is one of a library, whose code ends   *)
(* in a zero byte.  No error of vctool itself is taken for success.        *)
ExitTellsSuccess ==
  main_pc = "exited" =>
    /\ opts_pc = "disposed" /\ ~failed => exit_status = 0
    /\ exit_status = 0 => \/ opts_pc = "disposed" /\ ~failed
                          \/ failed /\ retval \in LibraryErrors /\ retval % 256 = 0
=============================================================================
