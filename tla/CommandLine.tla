----------------------------- MODULE CommandLine -----------------------------
(***************************************************************************)
(* commandline_opts_init and what it calls: the getopt loop, the -D and -P *)
(* options, the choice of the command, and the disposal of all of it.      *)
(*                                                                         *)
(* getopt hands out the options one after the other, wherever the words    *)
(* stand between them; of the words only the first is looked at.  An       *)
(* option that getopt does not know, or that lacks its argument, comes out *)
(* as '?', which asks for help.                                            *)
(*                                                                         *)
(* A block of memory is named by what it is for and, where there may be    *)
(* several, by the position of the option.  Any allocation may fail.       *)
(***************************************************************************)
EXTENDS Integers, Sequences, FiniteSets, SequencesExt

CONSTANTS
  Strings,      \* file names, keys, values, entities, roles and verbs
  Rounds,       \* what atoi makes of the arguments of -R
  Words,        \* first words that are no command
  NULL,         \* a pointer that is not set, a word that is not there
  OptionsUsed,  \* the options under study
  MaxOptions    \* bound: the options given

DEFAULT_ROUNDS == 50000

Files == {"k", "i", "o", "E"}
Commands == {"help", "keygen", "pubkey", "endorse"}

(* An argument of -D or -P: the part before the separator and the part     *)
(* after it, NULL where a part is empty or the separator is missing.       *)
Halves == (Strings \cup {NULL}) \X (Strings \cup {NULL})

Options ==
       {<<o>> : o \in {"h", "N", "v"}}
  \cup {<<o, s>> : o \in Files, s \in Strings}
  \cup {<<"R", n>> : n \in Rounds}
  \cup {<<o, h>> : o \in {"D", "P"}, h \in Halves}

ASSUME CommandLineAssumption ==
  /\ Rounds \subseteq Int /\ MaxOptions \in Nat
  /\ OptionsUsed \subseteq Options
  /\ NULL \notin Strings \cup Words \cup Commands /\ Words \cap Commands = {}

VARIABLES
  options,      \* the options, in the order in which getopt finds them
  word,         \* the first other argument
  opts_pc,      \* "start", "getopt", "ready" or "failed"; then "disposed"
  seen,         \* how many options the loop has been through
  root,         \* the fields of the root command
  cmd,          \* opts->cmd and what it links to
  heap,         \* the blocks that are allocated
  misfreed,     \* history: a block was freed that was not allocated
  oom,          \* history: an allocation failed
  opts_status   \* what commandline_opts_init returns

given == <<options, word>>
optsVars == <<given, opts_pc, seen, root, cmd, heap, misfreed, oom, opts_status>>

NoRoot ==
  [help_requested |-> FALSE, non_interactive |-> FALSE, verbose |-> FALSE,
   filename |-> [o \in Files |-> NULL], key_derivation_rounds |-> DEFAULT_ROUNDS,
   dict |-> [s \in Strings |-> NULL], permissions |-> <<>>]

Statuses ==
  {"SUCCESS", "OUT_OF_MEMORY", "DUPLICATE_OPTION", "BAD_KEY_ROUNDS", "BAD_KVP",
   "BAD_PERMISSION", "MISSING_ARGUMENT", "UNKNOWN_COMMAND"}

OptsInit ==
  /\ options \in UNION {[1 .. n -> OptionsUsed] : n \in 0 .. MaxOptions}
  /\ word \in Commands \cup Words \cup {NULL}
  /\ opts_pc = "start"
  /\ seen = 0
  /\ root = NoRoot
  /\ cmd = <<>>
  /\ heap = {} /\ misfreed = FALSE /\ oom = FALSE
  /\ opts_status = "SUCCESS"

-----------------------------------------------------------------------------
(* Memory. *)

Allocate(blocks) == heap' = heap \cup blocks /\ UNCHANGED <<misfreed, oom>>

OutOfMemory == oom' = TRUE /\ UNCHANGED <<heap, misfreed>>

NoMemoryUsed == UNCHANGED <<heap, misfreed, oom>>

(* The blocks of the root command's fields. *)
FilenameBlocks == {<<"filename", o>> : o \in {f \in Files : root.filename[f] # NULL}}
EntryBlocks(i) == {<<b, i>> : b \in {"entry", "key", "value"}}
Entries == {i \in 1 .. seen : <<"entry", i>> \in heap}

(* dispose_root_command. *)
RootBlocks ==
  FilenameBlocks \cup {<<"dict">>, <<"permissions">>} \cup UNION {EntryBlocks(i) : i \in Entries}

(* commandline_opts_dispose: each command on the list is disposed of, and  *)
(* freed; only the root command has fields to let go of.  The given blocks *)
(* stay behind.                                                            *)
DisposeOpts(left) ==
  LET blocks == {<<c>> : c \in Range(cmd)} \cup RootBlocks
  IN  /\ heap' = (heap \ blocks) \cup left
      /\ misfreed' = (misfreed \/ ~(blocks \subseteq heap))
      /\ cmd' = <<>>

-----------------------------------------------------------------------------
(* malloc and root_command_init, which makes the dictionary and the list.  *)
(* When either cannot be made it disposes of the address of its parameter  *)
(* instead of the root command: what is called is undefined, and no part   *)
(* of the program.                                                         *)
InitRoot ==
  /\ opts_pc = "start"
  /\ \/ /\ Allocate({<<"root">>, <<"dict">>, <<"permissions">>})
        /\ cmd' = <<"root">>
        /\ opts_pc' = "getopt"
        /\ UNCHANGED opts_status
     \/ /\ OutOfMemory
        /\ opts_pc' = "failed" /\ opts_status' = "OUT_OF_MEMORY"
        /\ UNCHANGED cmd
     \/ /\ oom' = TRUE
        /\ heap' \in {{<<"root">>}, {<<"root">>, <<"dict">>}}
        /\ opts_pc' = "crashed"
        /\ UNCHANGED <<cmd, misfreed, opts_status>>
  /\ UNCHANGED <<given, seen, root>>

-----------------------------------------------------------------------------
(* One turn of the loop. *)

Option == options[seen + 1]

GetOpt(o) ==
  /\ opts_pc = "getopt"
  /\ seen < Len(options)
  /\ Option[1] = o
  /\ seen' = seen + 1
  /\ UNCHANGED given

Accept == UNCHANGED <<opts_pc, cmd, opts_status>>

(* dispose_opts, after a call that failed and left some blocks behind. *)
Refuse(status, left) ==
  /\ opts_pc' = "failed"
  /\ opts_status' = status
  /\ DisposeOpts(left)

Flag(o, field) ==
  /\ GetOpt(o)
  /\ root' = [root EXCEPT ![field] = TRUE]
  /\ NoMemoryUsed /\ Accept

(* -k, -i, -o and -E.  Nobody looks at the result of strdup: without       *)
(* memory the option is as if it had not been given.                       *)
FileOption(o) ==
  /\ GetOpt(o)
  /\ \/ /\ root.filename[o] = NULL
        /\ \/ /\ Allocate({<<"filename", o>>})
              /\ root' = [root EXCEPT !.filename[o] = Option[2]]
           \/ OutOfMemory /\ UNCHANGED root
        /\ Accept
     \/ /\ root.filename[o] # NULL
        /\ Refuse("DUPLICATE_OPTION", {})
        /\ UNCHANGED <<root, oom>>

RoundsOption ==
  /\ GetOpt("R")
  /\ \/ /\ Option[2] > 0
        /\ root' = [root EXCEPT !.key_derivation_rounds = Option[2]]
        /\ NoMemoryUsed /\ Accept
     \/ /\ Option[2] <= 0
        /\ Refuse("BAD_KEY_ROUNDS", {})
        /\ UNCHANGED <<root, oom>>

(* root_dict_split and root_permission_split: where they stop, and whether *)
(* memory was the reason.  Both copy the argument, look for the separator  *)
(* in the copy and copy the two halves.                                    *)
SplitStops(halves) ==
  {<<"refused", TRUE>>} \cup
  (IF NULL \in Range(halves) THEN {<<"refused", FALSE>>} ELSE {<<"split", FALSE>>})

(* The copy that was split is freed only when the split fails. *)
Copy == <<"copy", seen + 1>>
Entry == EntryBlocks(seen + 1)

(* Mutant: the new entry is not released when it cannot be inserted. *)
AddEntryLeaks(o, fits, field, value, status) ==
  /\ GetOpt(o)
  /\ \E split \in SplitStops(Option[2]) :
       \/ /\ split[1] = "refused"
          /\ Refuse(status, {})
          /\ oom' = (oom \/ split[2]) /\ UNCHANGED root
       \/ /\ split[1] = "split" /\ fits
          /\ Allocate({Copy} \cup Entry)
          /\ root' = [root EXCEPT ![field] = value]
          /\ Accept
       \/ /\ split[1] = "split"
          /\ Refuse(status, {Copy} \cup Entry)
          /\ oom' = (oom \/ fits) /\ UNCHANGED root

(* root_dict_add and root_permission_add: the halves are owned by a new    *)
(* entry, which is inserted, or released when the insertion fails.         *)
AddEntry(o, fits, field, value, status) ==
  /\ GetOpt(o)
  /\ \E split \in SplitStops(Option[2]) :
       \/ /\ split[1] = "refused"
          /\ Refuse(status, {})
          /\ oom' = (oom \/ split[2]) /\ UNCHANGED root
       \/ /\ split[1] = "split" /\ fits
          /\ Allocate({Copy} \cup Entry)
          /\ root' = [root EXCEPT ![field] = value]
          /\ Accept
       \/ /\ split[1] = "split"
          /\ Refuse(status, {Copy})
          /\ oom' = (oom \/ fits) /\ UNCHANGED root

(* -D key=value; the dictionary refuses a key that it has. *)
DictOption ==
  AddEntry("D", Option[2][1] = NULL \/ root.dict[Option[2][1]] = NULL, "dict",
           [s \in Strings |-> IF s = Option[2][1] THEN Option[2][2] ELSE root.dict[s]], "BAD_KVP")

(* -P entity:moiety. *)
PermissionOption ==
  AddEntry("P", TRUE, "permissions", Append(root.permissions, Option[2]), "BAD_PERMISSION")

-----------------------------------------------------------------------------
(* The memory for a command, which goes before the root command; the init  *)
(* functions of the commands cannot fail.                                  *)
Process(c) ==
  \/ /\ Allocate({<<c>>})
     /\ cmd' = <<c>> \o cmd
     /\ opts_pc' = "ready"
     /\ UNCHANGED opts_status
  \/ Refuse("OUT_OF_MEMORY", {}) /\ oom' = TRUE

ProcessHelp    == Process("help")
ProcessKeygen  == Process("keygen")
ProcessPubkey  == Process("pubkey")
ProcessEndorse == Process("endorse")

(* The end of the options: help, if any of them asked for it. *)
HelpRequested ==
  /\ opts_pc = "getopt" /\ seen = Len(options)
  /\ root.help_requested
  /\ ProcessHelp
  /\ UNCHANGED <<given, seen, root>>

(* Mutant: the word of the command is looked at first. *)
DispatchAnyway ==
  /\ opts_pc = "getopt" /\ seen = Len(options)
  /\ \/ word = "help" /\ ProcessHelp
     \/ word = "keygen" /\ ProcessKeygen
     \/ word = "pubkey" /\ ProcessPubkey
     \/ word = "endorse" /\ ProcessEndorse
     \/ word = NULL /\ Refuse("MISSING_ARGUMENT", {}) /\ UNCHANGED oom
     \/ word \in Words /\ Refuse("UNKNOWN_COMMAND", {}) /\ UNCHANGED oom
  /\ UNCHANGED <<given, seen, root>>

(* dispatch_root_commands. *)
Dispatch ==
  /\ opts_pc = "getopt" /\ seen = Len(options)
  /\ ~root.help_requested
  /\ \/ word = "help" /\ ProcessHelp
     \/ word = "keygen" /\ ProcessKeygen
     \/ word = "pubkey" /\ ProcessPubkey
     \/ word = "endorse" /\ ProcessEndorse
     \/ word = NULL /\ Refuse("MISSING_ARGUMENT", {}) /\ UNCHANGED oom
     \/ word \in Words /\ Refuse("UNKNOWN_COMMAND", {}) /\ UNCHANGED oom
  /\ UNCHANGED <<given, seen, root>>

OptsNext ==
  \/ InitRoot
  \/ Flag("h", "help_requested") \/ Flag("N", "non_interactive") \/ Flag("v", "verbose")
  \/ \E o \in Files : FileOption(o)
  \/ RoundsOption \/ DictOption \/ PermissionOption
  \/ HelpRequested \/ Dispatch
-----------------------------------------------------------------------------
(* What the options say, whatever their order. *)
Of(o) == {i \in DOMAIN options : options[i][1] = o}

MeantFilename(o) == CHOOSE s \in Strings \cup {NULL} :
  IF Of(o) = {} THEN s = NULL ELSE \E i \in Of(o) : s = options[i][2]

MeantRounds ==
  IF Of("R") = {} THEN DEFAULT_ROUNDS
  ELSE options[CHOOSE i \in Of("R") : \A j \in Of("R") : j <= i][2]

MeantDict ==
  [s \in Strings |-> CHOOSE t \in Strings \cup {NULL} :
     IF \E i \in Of("D") : options[i][2][1] = s
     THEN \E i \in Of("D") : options[i][2] = <<s, t>> ELSE t = NULL]

(* The place of an option among those of -P. *)
Rank(i) == Cardinality({j \in Of("P") : j <= i})

MeantPermissions ==
  [n \in 1 .. Cardinality(Of("P")) |-> options[CHOOSE i \in Of("P") : Rank(i) = n][2]]

MeantCommand == IF Of("h") # {} THEN "help" ELSE word

Faulty ==
  \/ \E o \in Files : \E i, j \in Of(o) : i # j
  \/ \E i \in Of("R") : options[i][2] <= 0
  \/ \E i \in Of("D") \cup Of("P") : NULL \in Range(options[i][2])
  \/ \E i, j \in Of("D") : i # j /\ options[i][2][1] = options[j][2][1]
  \/ MeantCommand \notin Commands

(* The options are taken for what they say, in whatever order and number   *)
(* they come, and are refused only when something is wrong with them; the  *)
(* one thing that a lack of memory can do unnoticed is to lose the name of *)
(* a file.                                                                 *)
OptionsExact ==
  /\ opts_pc = "ready" =>
       /\ cmd = <<MeantCommand, "root">>
       /\ root.help_requested = (Of("h") # {})
       /\ root.non_interactive = (Of("N") # {}) /\ root.verbose = (Of("v") # {})
       /\ root.key_derivation_rounds = MeantRounds
       /\ root.dict = MeantDict /\ root.permissions = MeantPermissions
       /\ ~oom => root.filename = [o \in Files |-> MeantFilename(o)]
  /\ ~oom => (opts_pc = "ready" => ~Faulty) /\ (opts_pc = "failed" => Faulty)

(* On every way out of the options, a failure in the middle of -D or -P    *)
(* included, each block is freed that was allocated, and only such blocks, *)
(* except the copies in which a -D or -P option was split.                 *)
EveryBlockFreed ==
  /\ ~misfreed
  /\ opts_pc \in {"failed", "disposed"} => heap \subseteq {<<"copy", i>> : i \in 1 .. seen}
=============================================================================
