----------------------------- MODULE MainProofs -----------------------------
(***************************************************************************)
(* That main takes the options for what they say, gives back what it       *)
(* allocated, takes its parts down in the right order and tells its parent *)
(* the truth, for every list of options, every word and every code of the  *)
(* libraries.                                                              *)
(***************************************************************************)
EXTENDS Main, TLAPS, SequenceTheorems, FiniteSetTheorems

(* The fields of the root command. *)
RootType ==
  [help_requested : BOOLEAN, non_interactive : BOOLEAN, verbose : BOOLEAN,
   filename : [Files -> Strings \cup {NULL}], key_derivation_rounds : Int,
   dict : [Strings -> Strings \cup {NULL}], permissions : Seq(Halves)]

(* How far the options are, seen from main. *)
StageInv ==
  /\ main_pc \in Range(Parts) => opts_pc = "start"
  /\ main_pc = "options" => opts_pc \in {"start", "getopt"}
  /\ main_pc \in {"execute", "dispose"} => opts_pc = "ready"
  /\ main_pc \in {"cleanup", "exited"} => opts_pc \in {"start", "failed", "disposed"}
  /\ main_pc = "crashed" => opts_pc = "crashed"

(* The options are well formed and the commands on the list are those of   *)
(* the stage.                                                              *)
CmdInv ==
  /\ Len(options) \in Nat /\ \A i \in 1 .. Len(options) : options[i] \in Options
  /\ word \in Commands \cup Words \cup {NULL}
  /\ root \in RootType
  /\ opts_pc = "start" => root = NoRoot
  /\ opts_pc = "getopt" => cmd = <<"root">>
  /\ opts_pc = "ready" => \E c \in Commands : cmd = <<c, "root">>
  /\ opts_pc \notin {"getopt", "ready"} => cmd = <<>>

(* The blocks that commandline_opts_dispose frees, and the copies of split *)
(* arguments that nothing frees.                                           *)
OwnBlocks == {<<c>> : c \in Range(cmd)} \cup RootBlocks
Copies == {<<"copy", i>> : i \in 1 .. seen}

(* While the options are there, the heap holds what they own and copies;   *)
(* before and after, it holds no more than the copies.                     *)
HeapInv ==
  /\ ~misfreed
  /\ opts_pc = "start" => heap = {}
  /\ opts_pc \in {"getopt", "ready"} => OwnBlocks \subseteq heap /\ heap \subseteq OwnBlocks \cup Copies
  /\ opts_pc \in {"failed", "disposed"} => heap \subseteq Copies

(* The parts that are up are the first few.                                *)
UpInv ==
  /\ \A i, j \in 1 .. Len(Parts) : i < j /\ Parts[j] \in up => Parts[i] \in up
  /\ main_pc \in {"options", "execute", "dispose", "crashed"} => up = Range(Parts)

(* retval keeps the last error; without one, main passes every stage.      *)
RetvalInv ==
  /\ failed <=> retval # 0
  /\ main_pc \notin {"dispose", "cleanup", "exited", "crashed"} => ~failed
  /\ main_pc \in {"cleanup", "exited"} /\ ~failed => opts_pc = "disposed"
  /\ main_pc = "exited" => exit_status = retval % 256

MainInv == MainTypeOK /\ StageInv /\ CmdInv /\ HeapInv /\ UpInv /\ RetvalInv

-----------------------------------------------------------------------------
(* The parts of the program by name.                                       *)
LEMMA PartsByName ==
  /\ Len(Parts) = 5 /\ 1 .. Len(Parts) = {1, 2, 3, 4, 5}
  /\ Parts[1] = "alloc_opts" /\ Parts[2] = "suite" /\ Parts[3] = "builder_opts"
  /\ Parts[4] = "file" /\ Parts[5] = "allocator"
  /\ Range(Parts) = {"alloc_opts", "suite", "builder_opts", "file", "allocator"}
<1>1. Len(Parts) = 5 /\ DOMAIN Parts = 1 .. 5 /\ 1 .. 5 = {1, 2, 3, 4, 5}
  BY DEF Parts
<1>2. /\ Parts[1] = "alloc_opts" /\ Parts[2] = "suite" /\ Parts[3] = "builder_opts"
      /\ Parts[4] = "file" /\ Parts[5] = "allocator"
  BY DEF Parts
<1>3. Range(Parts) = {"alloc_opts", "suite", "builder_opts", "file", "allocator"}
  BY <1>1, <1>2 DEF Range
<1> QED
  BY <1>1, <1>2, <1>3

(* The codes of commandline_opts_init; only SUCCESS is 0, and no other     *)
(* looks like 0 in its lowest byte.                                        *)
LEMMA Codes ==
  /\ \A s \in Statuses : OptsCode[s] \in Range(OptsCode)
  /\ OptsCode["SUCCESS"] = 0
  /\ \A s \in Statuses \ {"SUCCESS"} : OptsCode[s] # 0
  /\ 0 \in Range(OptsCode)
  /\ \A code \in CommandErrors \cup Range(OptsCode) : code \in Nat
  /\ \A code \in CommandErrors : code # 0
  /\ LibraryErrors \subseteq CommandErrors
<1>1. DOMAIN OptsCode = Statuses
  BY DEF OptsCode, Statuses
<1>2. \A s \in Statuses : OptsCode[s] \in Range(OptsCode)
  BY <1>1 DEF Range
<1>3. /\ OptsCode["SUCCESS"] = 0
      /\ OptsCode["OUT_OF_MEMORY"] = 134217729
      /\ OptsCode["DUPLICATE_OPTION"] = 134348804
      /\ OptsCode["BAD_KEY_ROUNDS"] = 134348805
      /\ OptsCode["BAD_KVP"] = 134348806
      /\ OptsCode["BAD_PERMISSION"] = 134348808
      /\ OptsCode["MISSING_ARGUMENT"] = 134348801
      /\ OptsCode["UNKNOWN_COMMAND"] = 134348802
  BY DEF OptsCode, StatusCode
<1>4. /\ \A s \in Statuses \ {"SUCCESS"} : OptsCode[s] # 0
      /\ \A s \in Statuses : OptsCode[s] \in Nat
  BY <1>3 DEF Statuses
<1>5. \A code \in Range(OptsCode) : code \in Nat
  BY <1>1, <1>4 DEF Range
<1>6. \A code \in CommandErrors : code \in Nat /\ code # 0
  <2>1. \A code \in LibraryErrors : code \in Nat /\ code # 0
    BY LibraryErrorsAssumption
  <2>2. {StatusCode(c, 1) : c \in {6, 7, 8}} = {134610945, 134676481, 134742017}
    BY DEF StatusCode
  <2> QED
    BY <2>1, <2>2 DEF CommandErrors
<1>7. LibraryErrors \subseteq CommandErrors
  BY DEF CommandErrors
<1>8. 0 \in Range(OptsCode)
  BY <1>2, <1>3 DEF Statuses
<1> QED
  BY <1>2, <1>3, <1>4, <1>5, <1>6, <1>7, <1>8

(* Of the codes of vctool only success looks like 0 in its lowest byte.    *)
LEMMA CodeBytes ==
  /\ \A code \in CommandErrors \cup Range(OptsCode) : code % 256 \in 0 .. 255
  /\ \A code \in (CommandErrors \cup Range(OptsCode)) \ LibraryErrors :
       code % 256 = 0 <=> code = 0
<1>1. \A code \in Nat : code % 256 \in 0 .. 255
  OBVIOUS
<1>2. \A code \in Range(OptsCode) : code % 256 = 0 <=> code = 0
  <2>1. DOMAIN OptsCode = Statuses
    BY DEF OptsCode, Statuses
  <2>2. /\ OptsCode["SUCCESS"] = 0
        /\ OptsCode["OUT_OF_MEMORY"] = 134217729
        /\ OptsCode["DUPLICATE_OPTION"] = 134348804
        /\ OptsCode["BAD_KEY_ROUNDS"] = 134348805
        /\ OptsCode["BAD_KVP"] = 134348806
        /\ OptsCode["BAD_PERMISSION"] = 134348808
        /\ OptsCode["MISSING_ARGUMENT"] = 134348801
        /\ OptsCode["UNKNOWN_COMMAND"] = 134348802
    BY DEF OptsCode, StatusCode
  <2>3. \A s \in Statuses : OptsCode[s] % 256 = 0 <=> OptsCode[s] = 0
    BY <2>2 DEF Statuses
  <2> QED
    BY <2>1, <2>3 DEF Range
<1>3. \A code \in CommandErrors \ LibraryErrors : code % 256 # 0
  <2>1. {StatusCode(c, 1) : c \in {6, 7, 8}} = {134610945, 134676481, 134742017}
    BY DEF StatusCode
  <2> QED
    BY <2>1 DEF CommandErrors
<1> QED
  BY <1>1, <1>2, <1>3, Codes

-----------------------------------------------------------------------------
(* What comes after the letter of an option.                               *)
LEMMA OptionShape ==
  ASSUME CmdInv, seen \in 0 .. Len(options), seen < Len(options)
  PROVE  /\ Option[1] \in Files => Option[2] \in Strings
         /\ Option[1] = "R" => Option[2] \in Int
         /\ Option[1] \in {"D", "P"} =>
              /\ Option[2] \in Halves
              /\ Option[2][1] \in Strings \cup {NULL} /\ Option[2][2] \in Strings \cup {NULL}
<1>1. Len(options) \in Nat /\ seen + 1 \in 1 .. Len(options)
  BY DEF CmdInv
<1>2. Option \in Options
  BY <1>1 DEF CmdInv, Option
<1>3. \/ \E o \in {"h", "N", "v"} : Option = <<o>>
      \/ \E o \in Files, s \in Strings : Option = <<o, s>>
      \/ \E n \in Rounds : Option = <<"R", n>>
      \/ \E o \in {"D", "P"}, h \in Halves : Option = <<o, h>>
  BY <1>2 DEF Options
<1>4. Rounds \subseteq Int
  BY CommandLineAssumption
<1>5. \A h \in Halves : h[1] \in Strings \cup {NULL} /\ h[2] \in Strings \cup {NULL}
  BY DEF Halves
<1>6. CASE \E o \in {"h", "N", "v"} : Option = <<o>>
  BY <1>6 DEF Files
<1>7. CASE \E o \in Files, s \in Strings : Option = <<o, s>>
  BY <1>7 DEF Files
<1>8. CASE \E n \in Rounds : Option = <<"R", n>>
  BY <1>4, <1>8 DEF Files
<1>9. CASE \E o \in {"D", "P"}, h \in Halves : Option = <<o, h>>
  BY <1>5, <1>9 DEF Files
<1> QED
  BY <1>3, <1>6, <1>7, <1>8, <1>9

(* What a turn of the loop, or the choice of the command, does to all but  *)
(* the heap.                                                               *)
Refused ==
  /\ opts_pc' = "failed" /\ cmd' = <<>> /\ root' = root
  /\ opts_status' \in Statuses \ {"SUCCESS"}

Accepted == opts_pc' = opts_pc /\ cmd' = cmd /\ opts_status' = opts_status

(* The types that main keeps of the options.                               *)
OptsTypeOK ==
  /\ opts_pc \in {"start", "getopt", "ready", "failed", "disposed", "crashed"}
  /\ seen \in 0 .. Len(options)
  /\ Range(cmd) \subseteq Commands \cup {"root"}
  /\ opts_status \in Statuses

(* One turn of the loop.                                                   *)
LEMMA TurnOutcome ==
  ASSUME OptsTypeOK, CmdInv,
         \/ Flag("h", "help_requested") \/ Flag("N", "non_interactive") \/ Flag("v", "verbose")
         \/ \E o \in Files : FileOption(o)
         \/ RoundsOption \/ DictOption \/ PermissionOption
  PROVE  /\ opts_pc = "getopt" /\ seen < Len(options) /\ seen' = seen + 1
         /\ UNCHANGED given
         /\ Refused \/ (Accepted /\ root' \in RootType)
<1>1. root \in RootType
  BY DEF CmdInv
<1>2. ASSUME NEW o, NEW field \in {"help_requested", "non_interactive", "verbose"}, Flag(o, field)
      PROVE  /\ opts_pc = "getopt" /\ seen < Len(options) /\ seen' = seen + 1
             /\ UNCHANGED given
             /\ Refused \/ (Accepted /\ root' \in RootType)
  BY <1>1, <1>2 DEF Flag, GetOpt, Accept, Accepted, RootType
<1>3. ASSUME NEW o \in Files, FileOption(o)
      PROVE  /\ opts_pc = "getopt" /\ seen < Len(options) /\ seen' = seen + 1
             /\ UNCHANGED given
             /\ Refused \/ (Accepted /\ root' \in RootType)
  <2>1. opts_pc = "getopt" /\ seen < Len(options) /\ seen' = seen + 1 /\ UNCHANGED given
        /\ Option[1] = o
    BY <1>3 DEF FileOption, GetOpt
  <2>2. Option[2] \in Strings
    BY <2>1, OptionShape DEF OptsTypeOK
  <2>3. [root EXCEPT !.filename[o] = Option[2]] \in RootType
    BY <1>1, <2>2 DEF RootType
  <2>4. Refused \/ (Accepted /\ root' \in RootType)
    BY <1>1, <1>3, <2>3
    DEF FileOption, Accept, Accepted, Refuse, Refused, DisposeOpts, Statuses
  <2> QED
    BY <2>1, <2>4
<1>4. ASSUME RoundsOption
      PROVE  /\ opts_pc = "getopt" /\ seen < Len(options) /\ seen' = seen + 1
             /\ UNCHANGED given
             /\ Refused \/ (Accepted /\ root' \in RootType)
  <2>1. opts_pc = "getopt" /\ seen < Len(options) /\ seen' = seen + 1 /\ UNCHANGED given
        /\ Option[1] = "R"
    BY <1>4 DEF RoundsOption, GetOpt
  <2>2. Option[2] \in Int
    BY <2>1, OptionShape DEF OptsTypeOK
  <2>3. [root EXCEPT !.key_derivation_rounds = Option[2]] \in RootType
    BY <1>1, <2>2 DEF RootType
  <2>4. Refused \/ (Accepted /\ root' \in RootType)
    BY <1>1, <1>4, <2>3
    DEF RoundsOption, Accept, Accepted, Refuse, Refused, DisposeOpts, Statuses
  <2> QED
    BY <2>1, <2>4
<1>5. ASSUME NEW o \in {"D", "P"}, NEW fits, NEW field, NEW value,
             NEW status \in Statuses \ {"SUCCESS"},
             AddEntry(o, fits, field, value, status),
             Option[1] = o => [root EXCEPT ![field] = value] \in RootType
      PROVE  /\ opts_pc = "getopt" /\ seen < Len(options) /\ seen' = seen + 1
             /\ UNCHANGED given
             /\ Refused \/ (Accepted /\ root' \in RootType)
  <2>1. opts_pc = "getopt" /\ seen < Len(options) /\ seen' = seen + 1 /\ UNCHANGED given
        /\ Option[1] = o
    BY <1>5 DEF AddEntry, GetOpt
  <2>2. Refused \/ (Accepted /\ root' \in RootType)
    BY <1>5, <2>1 DEF AddEntry, Accept, Accepted, Refuse, Refused, DisposeOpts
  <2> QED
    BY <2>1, <2>2
<1>6. ASSUME DictOption
      PROVE  /\ opts_pc = "getopt" /\ seen < Len(options) /\ seen' = seen + 1
             /\ UNCHANGED given
             /\ Refused \/ (Accepted /\ root' \in RootType)
  <2> DEFINE value == [s \in Strings |-> IF s = Option[2][1] THEN Option[2][2] ELSE root.dict[s]]
             fits == Option[2][1] = NULL \/ root.dict[Option[2][1]] = NULL
  <2>1. AddEntry("D", fits, "dict", value, "BAD_KVP")
    BY <1>6 DEF DictOption
  <2>2. seen < Len(options)
    BY <1>6 DEF DictOption, AddEntry, GetOpt
  <2>3. ASSUME Option[1] = "D"
        PROVE  [root EXCEPT !["dict"] = value] \in RootType
    <3>1. Option[2][2] \in Strings \cup {NULL}
      BY <2>2, <2>3, OptionShape DEF OptsTypeOK
    <3>2. value \in [Strings -> Strings \cup {NULL}]
      BY <1>1, <3>1 DEF RootType
    <3> HIDE DEF value
    <3> QED
      BY <1>1, <3>2 DEF RootType
  <2> HIDE DEF value, fits
  <2> QED
    BY <1>5, <2>1, <2>3 DEF Statuses
<1>7. ASSUME PermissionOption
      PROVE  /\ opts_pc = "getopt" /\ seen < Len(options) /\ seen' = seen + 1
             /\ UNCHANGED given
             /\ Refused \/ (Accepted /\ root' \in RootType)
  <2> DEFINE value == Append(root.permissions, Option[2])
  <2>1. AddEntry("P", TRUE, "permissions", value, "BAD_PERMISSION")
    BY <1>7 DEF PermissionOption
  <2>2. seen < Len(options)
    BY <1>7 DEF PermissionOption, AddEntry, GetOpt
  <2>3. ASSUME Option[1] = "P"
        PROVE  [root EXCEPT !["permissions"] = value] \in RootType
    <3>1. Option[2] \in Halves
      BY <2>2, <2>3, OptionShape DEF OptsTypeOK
    <3>2. root.permissions \in Seq(Halves)
      BY <1>1 DEF RootType
    <3>3. value \in Seq(Halves)
      BY <3>1, <3>2, AppendProperties
    <3> HIDE DEF value
    <3> QED
      BY <1>1, <3>3 DEF RootType
  <2> HIDE DEF value
  <2> QED
    BY <1>5, <2>1, <2>3 DEF Statuses
<1> QED
  BY <1>2, <1>3, <1>4, <1>6, <1>7

-----------------------------------------------------------------------------
(* The blocks. *)

(* The block of an entry that has yet to be made is not on the heap.       *)
LEMMA NoEntryYet ==
  ASSUME seen \in Nat, heap \subseteq OwnBlocks \cup Copies
  PROVE  <<"entry", seen + 1>> \notin heap
<1>1. \A c : <<c>> # <<"entry", seen + 1>>
  OBVIOUS
<1>2. \A i \in Entries : \A b : <<b, i>> # <<"entry", seen + 1>>
  BY DEF Entries
<1>3. <<"entry", seen + 1>> \notin UNION {EntryBlocks(i) : i \in Entries}
  BY <1>2 DEF EntryBlocks
<1>4. <<"entry", seen + 1>> \notin FilenameBlocks
  BY DEF FilenameBlocks
<1>5. <<"entry", seen + 1>> \notin Copies
  BY DEF Copies
<1> QED
  BY <1>1, <1>3, <1>4, <1>5 DEF OwnBlocks, RootBlocks

(* The entries are the same when the heap grows by other blocks.           *)
LEMMA SameEntries ==
  ASSUME seen \in Nat, seen' \in {seen, seen + 1}, <<"entry", seen + 1>> \notin heap,
         NEW new, heap' = heap \cup new, \A i \in Nat : <<"entry", i>> \notin new
  PROVE  Entries' = Entries
<1>1. \A i \in 1 .. seen' : <<"entry", i>> \in heap' <=> <<"entry", i>> \in heap
  <2>1. 1 .. seen' \subseteq Nat
    OBVIOUS
  <2> QED
    BY <2>1
<1>2. \A i : i \in 1 .. seen' <=> i \in 1 .. seen \/ (i = seen + 1 /\ seen' = seen + 1)
  OBVIOUS
<1> QED
  BY <1>1, <1>2 DEF Entries

(* Another entry.                                                          *)
LEMMA OneMoreEntry ==
  ASSUME seen \in Nat, seen' = seen + 1, <<"entry", seen + 1>> \notin heap,
         heap' = heap \cup ({Copy} \cup Entry)
  PROVE  Entries' = Entries \cup {seen + 1}
<1>1. \A i \in 1 .. seen' : <<"entry", i>> \in heap' <=> <<"entry", i>> \in heap \/ i = seen + 1
  BY DEF Copy, Entry, EntryBlocks
<1>2. 1 .. seen' = 1 .. seen \cup {seen + 1}
  OBVIOUS
<1> QED
  BY <1>1, <1>2 DEF Entries

(* What the invariant says of the heap while the options are there.        *)
Owned == ~misfreed /\ OwnBlocks \subseteq heap /\ heap \subseteq OwnBlocks \cup Copies

(* The blocks of a root command whose file names are the same.             *)
LEMMA SameFilenames ==
  ASSUME root'.filename = root.filename
  PROVE  FilenameBlocks' = FilenameBlocks
BY DEF FilenameBlocks

(* A turn that allocates nothing.                                          *)
LEMMA NothingAllocated ==
  ASSUME seen \in Nat, seen' \in {seen, seen + 1}, Owned, NoMemoryUsed \/ OutOfMemory,
         cmd' = cmd, root'.filename = root.filename
  PROVE  Owned'
<1>1. heap' = heap \cup {} /\ misfreed' = misfreed
  BY DEF NoMemoryUsed, OutOfMemory
<1>2. Entries' = Entries
  <2>1. <<"entry", seen + 1>> \notin heap
    BY NoEntryYet DEF Owned
  <2> DEFINE new == {}
  <2>2. heap' = heap \cup new /\ \A i \in Nat : <<"entry", i>> \notin new
    BY <1>1
  <2> HIDE DEF new
  <2> QED
    BY <2>1, <2>2, SameEntries
<1>3. OwnBlocks' = OwnBlocks
  BY <1>2, SameFilenames DEF OwnBlocks, RootBlocks
<1>4. Copies \subseteq Copies'
  BY DEF Copies
<1> QED
  BY <1>1, <1>3, <1>4 DEF Owned

(* A turn that allocates the name of a file.                               *)
LEMMA FilenameAllocated ==
  ASSUME seen \in Nat, seen' = seen + 1, Owned, NEW o \in Files, root \in RootType,
         Allocate({<<"filename", o>>}), cmd' = cmd, NEW s \in Strings,
         root' = [root EXCEPT !.filename[o] = s]
  PROVE  Owned'
<1>1. heap' = heap \cup {<<"filename", o>>} /\ misfreed' = misfreed
  BY DEF Allocate
<1>2. Entries' = Entries
  <2>1. <<"entry", seen + 1>> \notin heap
    BY NoEntryYet DEF Owned
  <2>2. \A i \in Nat : <<"entry", i>> \notin {<<"filename", o>>}
    OBVIOUS
  <2> QED
    BY <1>1, <2>1, <2>2, SameEntries
<1>3. FilenameBlocks' = FilenameBlocks \cup {<<"filename", o>>}
  <2>1. s # NULL
    BY CommandLineAssumption
  <2>2. \A f \in Files : root'.filename[f] = IF f = o THEN s ELSE root.filename[f]
    BY DEF RootType
  <2> QED
    BY <2>1, <2>2 DEF FilenameBlocks
<1>4. OwnBlocks' = OwnBlocks \cup {<<"filename", o>>}
  BY <1>2, <1>3 DEF OwnBlocks, RootBlocks
<1>5. Copies \subseteq Copies'
  BY DEF Copies
<1> QED
  BY <1>1, <1>4, <1>5 DEF Owned

(* A turn that allocates an entry.                                         *)
LEMMA EntryAllocated ==
  ASSUME seen \in Nat, seen' = seen + 1, Owned,
         Allocate({Copy} \cup Entry), cmd' = cmd, root'.filename = root.filename
  PROVE  Owned'
<1>1. heap' = heap \cup ({Copy} \cup Entry) /\ misfreed' = misfreed
  BY DEF Allocate
<1>2. Entries' = Entries \cup {seen + 1}
  <2>1. <<"entry", seen + 1>> \notin heap
    BY NoEntryYet DEF Owned
  <2> QED
    BY <1>1, <2>1, OneMoreEntry
<1>3. UNION {EntryBlocks(i) : i \in Entries'} = Entry \cup UNION {EntryBlocks(i) : i \in Entries}
  <2> DEFINE Blocks(X) == UNION {EntryBlocks(i) : i \in X}
  <2>1. \A X : Blocks(X \cup {seen + 1}) = Blocks(X) \cup EntryBlocks(seen + 1)
    <3>1. ASSUME NEW X
          PROVE  Blocks(X \cup {seen + 1}) = Blocks(X) \cup EntryBlocks(seen + 1)
      <4>1. \A b : b \in Blocks(X) <=> \E i \in X : b \in EntryBlocks(i)
        OBVIOUS
      <4>2. \A b : b \in Blocks(X \cup {seen + 1}) <=>
                      \E i \in X \cup {seen + 1} : b \in EntryBlocks(i)
        OBVIOUS
      <4> HIDE DEF Blocks
      <4> QED
        BY <4>1, <4>2
    <3> QED
      BY <3>1
  <2>2. Blocks(Entries') = Blocks(Entries) \cup EntryBlocks(seen + 1)
    BY <1>2, <2>1
  <2> QED
    BY <2>2 DEF Entry
<1>4. RootBlocks' = RootBlocks \cup Entry
  <2>1. RootBlocks' = FilenameBlocks' \cup {<<"dict">>, <<"permissions">>}
                        \cup UNION {EntryBlocks(i) : i \in Entries'}
    BY DEF RootBlocks
  <2>2. FilenameBlocks' = FilenameBlocks
    BY SameFilenames
  <2> DEFINE U == UNION {EntryBlocks(i) : i \in Entries}
             V == UNION {EntryBlocks(i) : i \in Entries'}
  <2>3. V = U \cup Entry
    BY <1>3
  <2>4. RootBlocks' = FilenameBlocks' \cup {<<"dict">>, <<"permissions">>} \cup V
    BY <2>1
  <2>5. RootBlocks = FilenameBlocks \cup {<<"dict">>, <<"permissions">>} \cup U
    BY DEF RootBlocks
  <2> HIDE DEF U, V
  <2> QED
    BY <2>2, <2>3, <2>4, <2>5
<1>6. OwnBlocks' = OwnBlocks \cup Entry
  BY <1>4 DEF OwnBlocks
<1>5. Copies \subseteq Copies' /\ Copy \in Copies'
  BY DEF Copies, Copy
<1> QED
  BY <1>1, <1>5, <1>6 DEF Owned

(* A command before the root command.                                      *)
LEMMA OneBeforeRoot == ASSUME NEW c PROVE <<c>> \o <<"root">> = <<c, "root">>
<1>1. <<c>> \in Seq({c, "root"}) /\ <<"root">> \in Seq({c, "root"})
  OBVIOUS
<1>2. Len(<<c>>) = 1 /\ Len(<<"root">>) = 1
  OBVIOUS
<1>3. /\ <<c>> \o <<"root">> \in Seq({c, "root"})
      /\ Len(<<c>> \o <<"root">>) = 2
      /\ (<<c>> \o <<"root">>)[1] = c /\ (<<c>> \o <<"root">>)[2] = "root"
  BY <1>1, <1>2, ConcatProperties
<1>4. <<c, "root">> \in Seq({c, "root"})
  OBVIOUS
<1> DEFINE s == <<c>> \o <<"root">>
           t == <<c, "root">>
<1>5. /\ s \in Seq({c, "root"}) /\ t \in Seq({c, "root"})
      /\ Len(s) = 2 /\ Len(t) = 2 /\ s[1] = t[1] /\ s[2] = t[2]
  BY <1>3, <1>4
<1> HIDE DEF s, t
<1>6. Len(s) = Len(t) /\ \A i \in 1 .. Len(s) : s[i] = t[i]
  BY <1>5
<1>7. s = t
  BY <1>5, <1>6, SeqEqual
<1> QED
  BY <1>7 DEF s, t

(* The memory for a command.                                               *)
LEMMA CommandAllocated ==
  ASSUME seen \in Nat, seen' = seen, Owned, NEW c \in Commands, cmd = <<"root">>,
         Allocate({<<c>>}), cmd' = <<c>> \o cmd, root' = root
  PROVE  Owned' /\ cmd' = <<c, "root">>
<1>1. heap' = heap \cup {<<c>>} /\ misfreed' = misfreed
  BY DEF Allocate
<1>2. Entries' = Entries
  <2>1. <<"entry", seen + 1>> \notin heap
    BY NoEntryYet DEF Owned
  <2>2. \A i \in Nat : <<"entry", i>> \notin {<<c>>}
    OBVIOUS
  <2> QED
    BY <1>1, <2>1, <2>2, SameEntries
<1>3. cmd' = <<c, "root">>
  BY OneBeforeRoot
<1>4. Range(cmd') = {c, "root"} /\ Range(cmd) = {"root"}
  BY <1>3 DEF Range
<1>5. {<<d>> : d \in Range(cmd')} = {<<c>>} \cup {<<d>> : d \in Range(cmd)}
  BY <1>4
<1>6. OwnBlocks' = OwnBlocks \cup {<<c>>}
  BY <1>2, <1>5, SameFilenames DEF OwnBlocks, RootBlocks
<1>7. Copies' = Copies
  BY DEF Copies
<1> QED
  BY <1>1, <1>3, <1>6, <1>7 DEF Owned

(* The disposal of the options.                                            *)
LEMMA Disposed ==
  ASSUME seen \in Nat, seen' \in {seen, seen + 1}, Owned, NEW left, DisposeOpts(left),
         left \subseteq {Copy}, left # {} => seen' = seen + 1
  PROVE  ~misfreed' /\ heap' \subseteq Copies'
<1>1. Copies \subseteq Copies'
  BY DEF Copies
<1>2. left \subseteq Copies'
  BY DEF Copies, Copy
<1> QED
  BY <1>1, <1>2 DEF DisposeOpts, OwnBlocks, Owned

-----------------------------------------------------------------------------
(* The steps of commandline_opts_init. *)

(* What the step leaves behind.                                            *)
OptsOutcome ==
  /\ OptsTypeOK' /\ CmdInv' /\ HeapInv'
  /\ opts_pc \in {"start", "getopt"}
  /\ opts_pc' \in {"getopt", "ready", "failed", "crashed"}
  /\ opts_pc' = "failed" => opts_status' # "SUCCESS"

(* Nothing is on the empty list.                                           *)
LEMMA EmptyRange == Range(<<>>) = {}
BY DEF Range

(* The root command is made, or is not.                                    *)
LEMMA RootMade ==
  ASSUME OptsTypeOK, CmdInv, HeapInv, InitRoot
  PROVE  OptsOutcome
<1>1. /\ opts_pc = "start" /\ UNCHANGED <<given, seen, root>> /\ heap = {} /\ cmd = <<>>
      /\ ~misfreed /\ root = NoRoot
  BY DEF InitRoot, HeapInv, CmdInv
<1>2. Len(options)' = Len(options) /\ options' = options /\ word' = word
  BY <1>1 DEF given
<1>3. Range(<<>>) = {} /\ Range(<<"root">>) = {"root"}
  BY DEF Range
<1>4. CASE /\ Allocate({<<"root">>, <<"dict">>, <<"permissions">>})
           /\ cmd' = <<"root">>
           /\ opts_pc' = "getopt"
           /\ UNCHANGED opts_status
  <2>1. heap' = {<<"root">>, <<"dict">>, <<"permissions">>} /\ misfreed' = misfreed
    BY <1>1, <1>4 DEF Allocate
  <2>2. FilenameBlocks' = {}
    BY <1>1 DEF FilenameBlocks, NoRoot
  <2>3. Entries' = {}
    <3>1. \A i : <<"entry", i>> \notin heap'
      BY <2>1
    <3> QED
      BY <3>1 DEF Entries
  <2>4. RootBlocks' = {<<"dict">>, <<"permissions">>}
    BY <2>2, <2>3 DEF RootBlocks
  <2>5. OwnBlocks' = heap'
    BY <1>3, <1>4, <2>1, <2>4 DEF OwnBlocks
  <2>6. HeapInv'
    BY <1>1, <1>4, <2>1, <2>5 DEF HeapInv
  <2> QED
    BY <1>1, <1>2, <1>3, <1>4, <2>6 DEF OptsOutcome, OptsTypeOK, CmdInv
<1>5. CASE /\ OutOfMemory
           /\ opts_pc' = "failed" /\ opts_status' = "OUT_OF_MEMORY"
           /\ UNCHANGED cmd
  <2>1. HeapInv'
    BY <1>1, <1>5 DEF OutOfMemory, HeapInv
  <2> QED
    BY <1>1, <1>2, <1>3, <1>5, <2>1 DEF OptsOutcome, OptsTypeOK, CmdInv, Statuses
<1>6. CASE /\ oom' = TRUE
           /\ heap' \in {{<<"root">>}, {<<"root">>, <<"dict">>}}
           /\ opts_pc' = "crashed"
           /\ UNCHANGED <<cmd, misfreed, opts_status>>
  <2>1. HeapInv'
    BY <1>1, <1>6 DEF HeapInv
  <2> QED
    BY <1>1, <1>2, <1>3, <1>6, <2>1 DEF OptsOutcome, OptsTypeOK, CmdInv
<1> QED
  BY <1>4, <1>5, <1>6 DEF InitRoot

(* The blocks after one turn of the loop.                                  *)
LEMMA TurnHeap ==
  ASSUME OptsTypeOK, CmdInv, Owned,
         \/ Flag("h", "help_requested") \/ Flag("N", "non_interactive") \/ Flag("v", "verbose")
         \/ \E o \in Files : FileOption(o)
         \/ RoundsOption \/ DictOption \/ PermissionOption
  PROVE  \/ opts_pc' = "failed" /\ ~misfreed' /\ heap' \subseteq Copies'
         \/ opts_pc' = opts_pc /\ Owned'
<1>1. root \in RootType /\ seen \in Nat
  BY DEF CmdInv, OptsTypeOK
<1>2. seen < Len(options) /\ seen' = seen + 1
  BY TurnOutcome
<1>3. ASSUME NEW status, NEW left, Refuse(status, left), left \subseteq {Copy}
      PROVE  opts_pc' = "failed" /\ ~misfreed' /\ heap' \subseteq Copies'
  BY <1>1, <1>2, <1>3, Disposed DEF Refuse
<1>4. ASSUME NEW o, NEW field \in {"help_requested", "non_interactive", "verbose"}, Flag(o, field)
      PROVE  opts_pc' = opts_pc /\ Owned'
  <2>1. root'.filename = root.filename
    BY <1>1, <1>4 DEF Flag, RootType
  <2> QED
    BY <1>1, <1>2, <1>4, <2>1, NothingAllocated DEF Flag, Accept
<1>5. ASSUME NEW o \in Files, FileOption(o)
      PROVE  \/ opts_pc' = "failed" /\ ~misfreed' /\ heap' \subseteq Copies'
             \/ opts_pc' = opts_pc /\ Owned'
  <2>1. Option[2] \in Strings
    BY <1>2, <1>5, OptionShape DEF OptsTypeOK, FileOption, GetOpt
  <2>2. CASE Allocate({<<"filename", o>>}) /\ root' = [root EXCEPT !.filename[o] = Option[2]] /\ Accept
    BY <1>1, <1>2, <2>1, <2>2, FilenameAllocated DEF Accept
  <2>3. CASE OutOfMemory /\ UNCHANGED root /\ Accept
    BY <1>1, <1>2, <2>3, NothingAllocated DEF Accept
  <2>4. CASE Refuse("DUPLICATE_OPTION", {})
    BY <1>3, <2>4
  <2> QED
    BY <1>5, <2>2, <2>3, <2>4 DEF FileOption
<1>6. ASSUME RoundsOption
      PROVE  \/ opts_pc' = "failed" /\ ~misfreed' /\ heap' \subseteq Copies'
             \/ opts_pc' = opts_pc /\ Owned'
  <2>1. CASE /\ root' = [root EXCEPT !.key_derivation_rounds = Option[2]]
             /\ NoMemoryUsed /\ Accept
    <3>1. root'.filename = root.filename
      BY <1>1, <2>1 DEF RootType
    <3> QED
      BY <1>1, <1>2, <2>1, <3>1, NothingAllocated DEF Accept
  <2>2. CASE Refuse("BAD_KEY_ROUNDS", {})
    BY <1>3, <2>2
  <2> QED
    BY <1>6, <2>1, <2>2 DEF RoundsOption
<1>7. ASSUME NEW o, NEW fits, NEW field \in {"dict", "permissions"}, NEW value, NEW status,
             AddEntry(o, fits, field, value, status)
      PROVE  \/ opts_pc' = "failed" /\ ~misfreed' /\ heap' \subseteq Copies'
             \/ opts_pc' = opts_pc /\ Owned'
  <2>1. CASE Refuse(status, {})
    BY <1>3, <2>1
  <2>2. CASE Refuse(status, {Copy})
    BY <1>3, <2>2
  <2>3. CASE Allocate({Copy} \cup Entry) /\ root' = [root EXCEPT ![field] = value] /\ Accept
    <3>1. root'.filename = root.filename
      BY <1>1, <2>3 DEF RootType
    <3> QED
      BY <1>1, <1>2, <2>3, <3>1, EntryAllocated DEF Accept
  <2> QED
    BY <1>7, <2>1, <2>2, <2>3 DEF AddEntry
<1> QED
  BY <1>4, <1>5, <1>6, <1>7 DEF DictOption, PermissionOption

(* One turn of the loop.                                                   *)
LEMMA TurnMade ==
  ASSUME OptsTypeOK, CmdInv, HeapInv,
         \/ Flag("h", "help_requested") \/ Flag("N", "non_interactive") \/ Flag("v", "verbose")
         \/ \E o \in Files : FileOption(o)
         \/ RoundsOption \/ DictOption \/ PermissionOption
  PROVE  OptsOutcome
<1>1. /\ opts_pc = "getopt" /\ seen < Len(options) /\ seen' = seen + 1
      /\ UNCHANGED given
      /\ Refused \/ (Accepted /\ root' \in RootType)
  BY TurnOutcome
<1>2. options' = options /\ word' = word /\ seen' \in 0 .. Len(options)
  BY <1>1 DEF given, OptsTypeOK, CmdInv
<1>3. Owned
  BY <1>1 DEF HeapInv, Owned
<1>4. \/ opts_pc' = "failed" /\ ~misfreed' /\ heap' \subseteq Copies'
      \/ opts_pc' = opts_pc /\ Owned'
  BY <1>3, TurnHeap
<1>5. CASE Refused
  <2>1. ~misfreed' /\ heap' \subseteq Copies'
    BY <1>1, <1>4, <1>5 DEF Refused
  <2>2. HeapInv'
    BY <1>5, <2>1 DEF Refused, HeapInv
  <2> QED
    BY <1>1, <1>2, <1>5, <2>2, EmptyRange DEF Refused, OptsOutcome, OptsTypeOK, CmdInv
<1>6. CASE Accepted /\ root' \in RootType
  <2>1. Owned'
    BY <1>1, <1>4, <1>6 DEF Accepted
  <2>2. HeapInv'
    BY <1>1, <1>6, <2>1 DEF Accepted, HeapInv, Owned
  <2> QED
    BY <1>1, <1>2, <1>6, <2>2 DEF Accepted, OptsOutcome, OptsTypeOK, CmdInv
<1> QED
  BY <1>1, <1>5, <1>6

(* The end of the options: a command, or an error.                         *)
LEMMA DispatchOutcome ==
  ASSUME HelpRequested \/ Dispatch
  PROVE  /\ opts_pc = "getopt" /\ UNCHANGED <<given, seen, root>>
         /\ \/ \E c \in Commands :
                  /\ Allocate({<<c>>}) /\ cmd' = <<c>> \o cmd
                  /\ opts_pc' = "ready" /\ UNCHANGED opts_status
            \/ \E status \in Statuses \ {"SUCCESS"} : Refuse(status, {})
<1>1. ASSUME NEW c \in Commands, Process(c)
      PROVE  \/ \E d \in Commands :
                  /\ Allocate({<<d>>}) /\ cmd' = <<d>> \o cmd
                  /\ opts_pc' = "ready" /\ UNCHANGED opts_status
             \/ \E status \in Statuses \ {"SUCCESS"} : Refuse(status, {})
  BY <1>1 DEF Process, Statuses
<1>2. {"help", "keygen", "pubkey", "endorse"} \subseteq Commands
  BY DEF Commands
<1>3. {"OUT_OF_MEMORY", "MISSING_ARGUMENT", "UNKNOWN_COMMAND"} \subseteq Statuses \ {"SUCCESS"}
  BY DEF Statuses
<1>4. CASE HelpRequested
  BY <1>1, <1>2, <1>4 DEF HelpRequested, ProcessHelp
<1>5. CASE Dispatch
  <2>1. \/ \E c \in Commands : Process(c)
        \/ \E status \in Statuses \ {"SUCCESS"} : Refuse(status, {})
    BY <1>2, <1>3, <1>5 DEF Dispatch, ProcessHelp, ProcessKeygen, ProcessPubkey, ProcessEndorse
  <2> QED
    BY <1>1, <1>5, <2>1 DEF Dispatch
<1> QED
  BY <1>4, <1>5

(* The command is made, or the options are disposed of.                    *)
LEMMA CommandMade ==
  ASSUME OptsTypeOK, CmdInv, HeapInv, HelpRequested \/ Dispatch
  PROVE  OptsOutcome
<1>1. opts_pc = "getopt" /\ UNCHANGED <<given, seen, root>> /\ seen \in Nat
  BY DispatchOutcome DEF OptsTypeOK, CmdInv
<1>2. options' = options /\ word' = word /\ cmd = <<"root">>
  BY <1>1 DEF given, CmdInv
<1>3. Owned
  BY <1>1 DEF HeapInv, Owned
<1>4. CASE \E c \in Commands :
             /\ Allocate({<<c>>}) /\ cmd' = <<c>> \o cmd
             /\ opts_pc' = "ready" /\ UNCHANGED opts_status
  <2>1. PICK c \in Commands :
             /\ Allocate({<<c>>}) /\ cmd' = <<c>> \o cmd
             /\ opts_pc' = "ready" /\ UNCHANGED opts_status
    BY <1>4
  <2>2. Owned' /\ cmd' = <<c, "root">>
    BY <1>1, <1>2, <1>3, <2>1, CommandAllocated
  <2>3. HeapInv'
    BY <2>1, <2>2 DEF HeapInv, Owned
  <2>4. Range(cmd') = {c, "root"}
    BY <2>2 DEF Range
  <2> QED
    BY <1>1, <1>2, <2>1, <2>2, <2>3, <2>4 DEF OptsOutcome, OptsTypeOK, CmdInv
<1>5. CASE \E status \in Statuses \ {"SUCCESS"} : Refuse(status, {})
  <2>1. PICK status \in Statuses \ {"SUCCESS"} : Refuse(status, {})
    BY <1>5
  <2>2. opts_pc' = "failed" /\ opts_status' = status /\ cmd' = <<>>
    BY <2>1 DEF Refuse, DisposeOpts
  <2>3. ~misfreed' /\ heap' \subseteq Copies'
    BY <1>1, <1>3, <2>1, Disposed DEF Refuse
  <2>4. HeapInv'
    BY <2>2, <2>3 DEF HeapInv
  <2> QED
    BY <1>1, <1>2, <2>2, <2>4, EmptyRange DEF OptsOutcome, OptsTypeOK, CmdInv
<1> QED
  BY <1>4, <1>5, DispatchOutcome

(* Every step of commandline_opts_init.                                    *)
LEMMA OptsStep ==
  ASSUME OptsTypeOK, CmdInv, HeapInv, OptsNext
  PROVE  OptsOutcome
BY RootMade, TurnMade, CommandMade DEF OptsNext

-----------------------------------------------------------------------------
(* The invariant of main. *)

(* The parts that are up when the next one is to be set up.                *)
LEMMA FirstParts ==
  /\ {Parts[j] : j \in 1 .. 1 - 1} = {}
  /\ {Parts[j] : j \in 1 .. 2 - 1} = {"alloc_opts"}
  /\ {Parts[j] : j \in 1 .. 3 - 1} = {"alloc_opts", "suite"}
  /\ {Parts[j] : j \in 1 .. 4 - 1} = {"alloc_opts", "suite", "builder_opts"}
  /\ {Parts[j] : j \in 1 .. 5 - 1} = {"alloc_opts", "suite", "builder_opts", "file"}
<1>1. /\ 1 .. 1 - 1 = {} /\ 1 .. 2 - 1 = {1} /\ 1 .. 3 - 1 = {1, 2}
      /\ 1 .. 4 - 1 = {1, 2, 3} /\ 1 .. 5 - 1 = {1, 2, 3, 4}
  OBVIOUS
<1> QED
  BY <1>1, PartsByName

(* The code of a step's result.                                            *)
LEMMA GoToRetval ==
  ASSUME RetvalInv, NEW next, NEW code \in CommandErrors \cup {0}, GoTo(next, code),
         code = 0 => ~failed
  PROVE  failed' <=> retval' # 0
BY Codes DEF GoTo, RetvalInv

(* The initial states.                                                     *)
LEMMA MainInitially ==
  ASSUME MainInit
  PROVE  MainInv
<1>1. PICK n \in 0 .. MaxOptions : options \in [1 .. n -> OptionsUsed]
  BY DEF MainInit, OptsInit
<1>2. n \in Nat /\ Len(options) = n /\ \A i \in 1 .. n : options[i] \in OptionsUsed
  <2>1. n \in Nat
    BY <1>1, CommandLineAssumption
  <2>2. options \in Seq(OptionsUsed)
    BY <1>1, <2>1
  <2>3. Len(options) \in Nat /\ 1 .. n = 1 .. Len(options)
    BY <1>1, <2>1, <2>2, LenProperties
  <2>4. Len(options) = n
    BY <2>1, <2>3
  <2> QED
    BY <1>1, <2>1, <2>4
<1>3. NoRoot \in RootType
  <2>1. <<>> \in Seq(Halves)
    OBVIOUS
  <2> QED
    BY <2>1 DEF NoRoot, RootType, DEFAULT_ROUNDS
<1>4. CmdInv
  BY <1>2, <1>3, CommandLineAssumption DEF MainInit, OptsInit, CmdInv
<1>5. MainTypeOK
  <2>1. 0 \in Range(OptsCode) /\ "SUCCESS" \in Statuses
    BY Codes DEF Statuses
  <2>2. \A i \in 1 .. Len(Parts) : main_pc = Parts[i] => up = {Parts[j] : j \in 1 .. i - 1}
    BY FirstParts, PartsByName DEF MainInit
  <2>3. /\ main_pc \in Range(Parts) /\ up = {} /\ seen \in 0 .. Len(options)
        /\ opts_pc = "start" /\ main_pc = "alloc_opts" /\ Range(cmd) = {}
        /\ retval = 0 /\ failed = FALSE /\ exit_status \in 0 .. 255 /\ opts_status = "SUCCESS"
    BY <1>2, PartsByName, EmptyRange DEF MainInit, OptsInit
  <2> QED
    BY <2>1, <2>2, <2>3 DEF MainTypeOK
<1>6. HeapInv /\ StageInv /\ UpInv /\ RetvalInv
  BY PartsByName DEF MainInit, OptsInit, HeapInv, StageInv, UpInv, RetvalInv
<1> QED
  BY <1>4, <1>5, <1>6 DEF MainInv

(* A step of main alone leaves alone what is said of the options.          *)
LEMMA OptionsUntouched ==
  ASSUME MainInv, UNCHANGED optsVars
  PROVE  /\ CmdInv' /\ HeapInv'
         /\ opts_pc' = opts_pc /\ seen' = seen /\ Len(options)' = Len(options)
         /\ cmd' = cmd /\ opts_status' = opts_status
BY DEF MainInv, optsVars, given, CmdInv, HeapInv, OwnBlocks, RootBlocks, FilenameBlocks, Entries,
       Copies

(* A part is set up, or is not.                                            *)
LEMMA SetUpStep ==
  ASSUME MainInv, NEW i \in 1 .. Len(Parts), SetUp(i)
  PROVE  MainInv'
<1>1. /\ main_pc = Parts[i] /\ UNCHANGED <<optsVars, exit_status>>
      /\ up = {Parts[j] : j \in 1 .. i - 1} /\ opts_pc = "start" /\ ~failed /\ retval = 0 /\ failed = FALSE
  BY PartsByName DEF SetUp, MainInv, MainTypeOK, StageInv, RetvalInv
<1>2. CmdInv' /\ HeapInv'
  BY <1>1, OptionsUntouched
<1>3. /\ opts_pc' = "start" /\ seen' \in 0 .. Len(options')
      /\ Range(cmd') \subseteq Commands \cup {"root"} /\ opts_status' \in Statuses
      /\ exit_status' \in 0 .. 255
  BY <1>1, OptionsUntouched DEF MainInv, MainTypeOK
<1>4. CASE /\ up' = up \cup {Parts[i]}
           /\ GoTo(IF i = Len(Parts) THEN "options" ELSE Parts[i + 1], 0)
  <2>1. retval' = 0 /\ failed' = FALSE /\ retval' \in Range(OptsCode)
    BY <1>1, <1>4, Codes DEF GoTo, Statuses
  <2>2. \/ i = 1 /\ main_pc' = "suite" /\ up' = {"alloc_opts"}
        \/ i = 2 /\ main_pc' = "builder_opts" /\ up' = {"alloc_opts", "suite"}
        \/ i = 3 /\ main_pc' = "file" /\ up' = {"alloc_opts", "suite", "builder_opts"}
        \/ i = 4 /\ main_pc' = "allocator" /\ up' = {"alloc_opts", "suite", "builder_opts", "file"}
        \/ i = 5 /\ main_pc' = "options" /\ up' = Range(Parts)
    BY <1>1, <1>4, PartsByName, FirstParts DEF GoTo
  <2>3. \A k \in 1 .. Len(Parts) : main_pc' = Parts[k] => up' = {Parts[j] : j \in 1 .. k - 1}
    BY <2>2, PartsByName, FirstParts
  <2>4. MainTypeOK'
    BY <1>3, <2>1, <2>2, <2>3, PartsByName DEF MainTypeOK
  <2>5. StageInv' /\ UpInv' /\ RetvalInv'
    BY <1>3, <2>1, <2>2, PartsByName DEF StageInv, UpInv, RetvalInv
  <2> QED
    BY <1>2, <2>4, <2>5 DEF MainInv
<1>5. CASE /\ Parts[i] \notin {"alloc_opts", "file"}
           /\ \E code \in LibraryErrors : GoTo("cleanup", code)
           /\ UNCHANGED up
  <2>1. main_pc' = "cleanup" /\ failed' = TRUE /\ retval' \in CommandErrors /\ retval' # 0 /\ up' = up
    BY <1>5, Codes DEF GoTo
  <2>2. MainTypeOK'
    BY <1>3, <2>1, PartsByName DEF MainInv, MainTypeOK
  <2>3. StageInv' /\ UpInv' /\ RetvalInv'
    BY <1>3, <2>1, PartsByName DEF MainInv, StageInv, UpInv, RetvalInv
  <2> QED
    BY <1>2, <2>2, <2>3 DEF MainInv
<1> QED
  BY <1>4, <1>5 DEF SetUp

(* A step of commandline_opts_init.                                        *)
LEMMA ReadOptionsStep ==
  ASSUME MainInv, ReadOptions
  PROVE  MainInv'
<1>1. /\ main_pc = "options" /\ OptsNext /\ up' = up /\ exit_status' = exit_status
      /\ up = Range(Parts) /\ ~failed /\ retval = 0
  BY PartsByName DEF ReadOptions, MainInv, MainTypeOK, RetvalInv
<1>2. OptsOutcome
  BY <1>1, OptsStep DEF MainInv, MainTypeOK, OptsTypeOK
<1>3. /\ opts_pc' \in {"getopt", "ready", "failed", "crashed"}
      /\ seen' \in 0 .. Len(options') /\ Range(cmd') \subseteq Commands \cup {"root"}
      /\ opts_status' \in Statuses /\ exit_status' \in 0 .. 255
      /\ opts_pc' = "failed" => opts_status' # "SUCCESS"
  BY <1>1, <1>2 DEF OptsOutcome, OptsTypeOK, MainInv, MainTypeOK
<1>4. \/ opts_pc' = "ready" /\ main_pc' = "execute" /\ failed' = FALSE /\ retval' = 0
      \/ /\ opts_pc' = "failed" /\ main_pc' = "cleanup" /\ failed' = TRUE
         /\ retval' \in Range(OptsCode) /\ retval' # 0
      \/ opts_pc' = "crashed" /\ main_pc' = "crashed" /\ failed' = FALSE /\ retval' = 0
      \/ opts_pc' = "getopt" /\ main_pc' = "options" /\ failed' = FALSE /\ retval' = 0
  <2>1. CASE opts_pc' = "ready"
    BY <1>1, <2>1 DEF ReadOptions, GoTo
  <2>2. CASE opts_pc' = "failed"
    BY <1>1, <1>3, <2>2, Codes DEF ReadOptions, GoTo
  <2>3. CASE opts_pc' = "crashed"
    BY <1>1, <2>3 DEF ReadOptions
  <2>4. CASE opts_pc' = "getopt"
    BY <1>1, <2>4 DEF ReadOptions
  <2> QED
    BY <1>3, <2>1, <2>2, <2>3, <2>4
<1>5. retval' \in Range(OptsCode)
  BY <1>4, Codes DEF Statuses
<1>6. MainTypeOK'
  BY <1>1, <1>3, <1>4, <1>5, PartsByName DEF MainTypeOK
<1>7. StageInv' /\ RetvalInv'
  BY <1>1, <1>4, PartsByName DEF StageInv, RetvalInv
<1>8. UpInv'
  BY <1>1, <1>4, PartsByName DEF UpInv
<1> QED
  BY <1>2, <1>6, <1>7, <1>8 DEF OptsOutcome, MainInv

(* The command.                                                            *)
LEMMA ExecuteStep ==
  ASSUME MainInv, Execute
  PROVE  MainInv'
<1>1. /\ main_pc = "execute" /\ main_pc' = "dispose" /\ UNCHANGED <<optsVars, up, exit_status>>
      /\ opts_pc = "ready" /\ ~failed /\ up = Range(Parts)
  BY PartsByName DEF Execute, GoTo, MainInv, MainTypeOK, StageInv, RetvalInv
<1>2. CmdInv' /\ HeapInv'
  BY <1>1, OptionsUntouched
<1>3. /\ opts_pc' = "ready" /\ seen' \in 0 .. Len(options')
      /\ Range(cmd') \subseteq Commands \cup {"root"} /\ opts_status' \in Statuses
      /\ exit_status' \in 0 .. 255
  BY <1>1, OptionsUntouched DEF MainInv, MainTypeOK
<1>4. failed' \in BOOLEAN /\ (failed' <=> retval' # 0) /\ retval' \in CommandErrors \cup Range(OptsCode)
  BY <1>1, Codes DEF Execute, GoTo, Statuses
<1>5. MainTypeOK'
  BY <1>1, <1>3, <1>4, PartsByName DEF MainTypeOK
<1>6. StageInv' /\ RetvalInv'
  BY <1>1, <1>3, <1>4, PartsByName DEF StageInv, RetvalInv
<1>7. UpInv'
  BY <1>1, PartsByName DEF UpInv
<1> QED
  BY <1>2, <1>5, <1>6, <1>7 DEF MainInv

(* The disposal of the options.                                            *)
LEMMA DisposeStep ==
  ASSUME MainInv, Dispose
  PROVE  MainInv'
<1>1. /\ main_pc = "dispose" /\ main_pc' = "cleanup" /\ opts_pc = "ready" /\ opts_pc' = "disposed"
      /\ UNCHANGED <<given, seen, root, opts_status, up, retval, failed, exit_status>>
      /\ up = Range(Parts) /\ cmd' = <<>>
  BY PartsByName DEF Dispose, DisposeOpts, MainInv, MainTypeOK, StageInv
<1>2. options' = options /\ word' = word
  BY <1>1 DEF given
<1>3. Owned /\ seen \in Nat
  BY <1>1 DEF MainInv, HeapInv, Owned, MainTypeOK, CmdInv
<1>4. ~misfreed' /\ heap' \subseteq Copies'
  BY <1>1, <1>3, Disposed DEF Dispose
<1>5. HeapInv'
  BY <1>1, <1>4 DEF HeapInv
<1>6. CmdInv'
  BY <1>1, <1>2 DEF MainInv, CmdInv
<1>7. MainTypeOK'
  BY <1>1, <1>2, EmptyRange, PartsByName DEF MainInv, MainTypeOK
<1>8. StageInv' /\ RetvalInv'
  BY <1>1, PartsByName DEF MainInv, StageInv, RetvalInv
<1>9. UpInv'
  BY <1>1, PartsByName DEF MainInv, UpInv
<1> QED
  BY <1>5, <1>6, <1>7, <1>8, <1>9 DEF MainInv

(* The part that goes next is the last of those that are up.               *)
LEMMA LastGoes ==
  ASSUME up \subseteq Range(Parts), up # {}
  PROVE  /\ FirstToGo \in 1 .. Len(Parts) /\ Parts[FirstToGo] \in up
         /\ \A j \in 1 .. Len(Parts) : j > FirstToGo => Parts[j] \notin up
<1>1. \E i \in 1 .. Len(Parts) : Parts[i] \in up /\ \A j \in i + 1 .. Len(Parts) : Parts[j] \notin up
  <2>1. \E i \in 1 .. Len(Parts) : Parts[i] \in up /\ \A j \in 1 .. Len(Parts) : j > i => Parts[j] \notin up
    BY PartsByName
  <2>2. \A i \in 1 .. Len(Parts) : \A j \in i + 1 .. Len(Parts) : j \in 1 .. Len(Parts) /\ j > i
    BY PartsByName
  <2> QED
    BY <2>1, <2>2
<1>2. FirstToGo \in 1 .. Len(Parts) /\ Parts[FirstToGo] \in up
      /\ \A j \in FirstToGo + 1 .. Len(Parts) : Parts[j] \notin up
  BY <1>1, Zenon DEF FirstToGo
<1>3. \A j \in 1 .. Len(Parts) : j > FirstToGo => j \in FirstToGo + 1 .. Len(Parts)
  BY <1>2, PartsByName
<1> QED
  BY <1>2, <1>3

(* A label.                                                                *)
LEMMA CleanupStep ==
  ASSUME MainInv, Cleanup
  PROVE  MainInv'
<1>1. /\ main_pc = "cleanup" /\ up # {} /\ UNCHANGED <<optsVars, exit_status>>
      /\ up' = up \ {Parts[FirstToGo]} /\ up \subseteq Range(Parts)
  BY DEF Cleanup, MainInv, MainTypeOK
<1>2. CmdInv' /\ HeapInv'
  BY <1>1, OptionsUntouched
<1>3. /\ opts_pc' = opts_pc /\ seen' \in 0 .. Len(options')
      /\ Range(cmd') \subseteq Commands \cup {"root"} /\ opts_status' \in Statuses
      /\ exit_status' \in 0 .. 255 /\ exit_status' = exit_status
      /\ opts_pc \in {"start", "failed", "disposed"}
  BY <1>1, OptionsUntouched DEF MainInv, MainTypeOK, StageInv
<1>4. /\ main_pc' = "cleanup"
      /\ \/ retval' = retval /\ failed' = failed
         \/ retval' \in CommandErrors /\ retval' # 0 /\ failed' = TRUE
  BY <1>1, Codes DEF Cleanup, GoTo
<1>5. MainTypeOK'
  BY <1>1, <1>3, <1>4, PartsByName DEF MainInv, MainTypeOK
<1>6. StageInv' /\ RetvalInv'
  BY <1>1, <1>3, <1>4, PartsByName DEF MainInv, StageInv, RetvalInv
<1>7. UpInv'
  <2>1. ASSUME NEW i \in 1 .. Len(Parts), NEW j \in 1 .. Len(Parts), i < j, Parts[j] \in up'
        PROVE  Parts[i] \in up'
    <3>1. Parts[i] \in up
      BY <1>1, <2>1 DEF MainInv, UpInv
    <3>2. j <= FirstToGo /\ FirstToGo \in 1 .. Len(Parts)
      BY <1>1, <2>1, LastGoes, PartsByName
    <3>3. Parts[i] # Parts[FirstToGo]
      BY <2>1, <3>2, PartsByName
    <3> QED
      BY <1>1, <3>1, <3>3
  <2> QED
    BY <1>4, <2>1 DEF UpInv
<1> QED
  BY <1>2, <1>5, <1>6, <1>7 DEF MainInv

(* return retval.                                                          *)
LEMMA ExitStep ==
  ASSUME MainInv, Exit
  PROVE  MainInv'
<1>1. /\ main_pc = "cleanup" /\ main_pc' = "exited" /\ exit_status' = retval % 256
      /\ UNCHANGED <<optsVars, up, retval, failed>>
  BY DEF Exit
<1>2. CmdInv' /\ HeapInv'
  BY <1>1, OptionsUntouched
<1>3. retval \in Nat /\ retval % 256 \in 0 .. 255
  BY Codes, CodeBytes DEF MainInv, MainTypeOK
<1>4. /\ opts_pc' = opts_pc /\ seen' \in 0 .. Len(options')
      /\ Range(cmd') \subseteq Commands \cup {"root"} /\ opts_status' \in Statuses
  BY <1>1, OptionsUntouched DEF MainInv, MainTypeOK
<1>5. MainTypeOK'
  BY <1>1, <1>3, <1>4, PartsByName DEF MainInv, MainTypeOK, StageInv
<1>6. StageInv' /\ UpInv' /\ RetvalInv'
  BY <1>1, <1>4, PartsByName DEF MainInv, StageInv, UpInv, RetvalInv
<1> QED
  BY <1>2, <1>5, <1>6 DEF MainInv

(* The program has gone.                                                   *)
LEMMA MainStutter ==
  ASSUME MainInv, UNCHANGED mainVars
  PROVE  MainInv'
<1>1. UNCHANGED <<optsVars, main_pc, up, retval, failed, exit_status>>
  BY DEF mainVars
<1>2. CmdInv' /\ HeapInv'
  BY <1>1, OptionsUntouched
<1>3. MainTypeOK' /\ StageInv' /\ UpInv' /\ RetvalInv'
  BY <1>1, OptionsUntouched DEF MainInv, MainTypeOK, StageInv, UpInv, RetvalInv
<1> QED
  BY <1>2, <1>3 DEF MainInv

(* Every step of main keeps the invariant.                                 *)
LEMMA MainStep ==
  ASSUME MainInv, [MainNext]_mainVars
  PROVE  MainInv'
BY SetUpStep, ReadOptionsStep, ExecuteStep, DisposeStep, CleanupStep, ExitStep, MainStutter
   DEF MainNext, Gone

-----------------------------------------------------------------------------
(* The invariant holds of every run of the program: where main is says how *)
(* far the options are, the heap holds what the options own and copies,    *)
(* the parts that are up are the first few, and retval is the last error.  *)
THEOREM MainInvariant == MainSpec => []MainInv
<1>1. MainInit => MainInv
  BY MainInitially
<1>2. MainInv /\ [MainNext]_mainVars => MainInv'
  BY MainStep
<1> QED
  BY <1>1, <1>2, PTL DEF MainSpec

(* The types, among them that main is at the setup of a part only while    *)
(* just the parts before it are up, and executes a command only when the   *)
(* options are ready.                                                      *)
THEOREM MainTypeCorrect == MainSpec => []MainTypeOK
<1>1. MainInv => MainTypeOK
  BY DEF MainInv
<1> QED
  BY <1>1, MainInvariant, PTL

(* On every way out of the options each block that was allocated is freed, *)
(* and no other, except the copies in which an option was split.           *)
THEOREM BlocksAreFreed == MainSpec => []EveryBlockFreed
<1>1. MainInv => EveryBlockFreed
  BY DEF MainInv, HeapInv, Copies, EveryBlockFreed
<1> QED
  BY <1>1, MainInvariant, PTL

(* Nothing is taken down while something is there that needs it.           *)
THEOREM OwnersComeFirst == MainSpec => []OwnersOutlive
<1> SUFFICES MainInv => OwnersOutlive
  BY MainInvariant, PTL
<1> SUFFICES ASSUME MainInv
             PROVE  OwnersOutlive
  OBVIOUS
<1> DEFINE owned == {<<"dict">>, <<"permissions">>} \cup {<<"entry", i>> : i \in 1 .. MaxOptions}
<1>1. opts_pc \in {"getopt", "ready", "crashed"} => up = Range(Parts)
  BY DEF MainInv, MainTypeOK, StageInv, UpInv
<1>2. opts_pc \in {"start", "failed", "disposed"} => heap \cap owned = {}
  <2>1. Copies \cap owned = {}
    BY DEF Copies
  <2> QED
    BY <2>1 DEF MainInv, HeapInv
<1>3. heap \cap owned # {} => "allocator" \in up
  BY <1>1, <1>2, PartsByName DEF MainInv, MainTypeOK
<1>4. /\ "builder_opts" \in up => "suite" \in up
      /\ "suite" \in up => "alloc_opts" \in up
  BY PartsByName DEF MainInv, UpInv
<1> QED
  BY <1>1, <1>3, <1>4 DEF OwnersOutlive

(* The parent sees 0 when everything went well, and otherwise only for a   *)
(* code of a library that ends in a zero byte, whatever their codes are.   *)
THEOREM ParentIsToldTheTruth == MainSpec => []ExitTellsSuccess
<1>1. MainInv => ExitTellsSuccess
  BY CodeBytes DEF MainInv, MainTypeOK, RetvalInv, ExitTellsSuccess
<1> QED
  BY <1>1, MainInvariant, PTL

-----------------------------------------------------------------------------
(* What the options that the loop has been through say. *)
SeenOf(o) == {i \in 1 .. seen : options[i][1] = o}

FlagsInv ==
  /\ root.help_requested = (SeenOf("h") # {})
  /\ root.non_interactive = (SeenOf("N") # {})
  /\ root.verbose = (SeenOf("v") # {})

(* The last -R counts.                                                     *)
RoundsInv ==
  /\ \A i \in SeenOf("R") : options[i][2] > 0
  /\ SeenOf("R") = {} => root.key_derivation_rounds = DEFAULT_ROUNDS
  /\ SeenOf("R") # {} =>
       \E i \in SeenOf("R") : /\ \A j \in SeenOf("R") : j <= i
                              /\ root.key_derivation_rounds = options[i][2]

(* The dictionary has an entry for each -D, and no other.                  *)
DictInv ==
  /\ \A i \in SeenOf("D") :
       /\ options[i][2][1] \in Strings /\ options[i][2][2] \in Strings
       /\ root.dict[options[i][2][1]] = options[i][2][2]
  /\ \A i, j \in SeenOf("D") : options[i][2][1] = options[j][2][1] => i = j
  /\ \A s \in Strings : root.dict[s] # NULL => \E i \in SeenOf("D") : options[i][2][1] = s

(* Each -P stands in the list at its place among those of its kind.        *)
PermissionsInv ==
  /\ Len(root.permissions) = Cardinality(SeenOf("P"))
  /\ \A i \in SeenOf("P") :
       /\ NULL \notin Range(options[i][2])
       /\ Rank(i) \in DOMAIN root.permissions /\ root.permissions[Rank(i)] = options[i][2]
  /\ \A n \in DOMAIN root.permissions : \E i \in SeenOf("P") : Rank(i) = n

(* No file is named twice, unless memory was short.                        *)
FilenamesInv ==
  ~oom => \A o \in Files :
            /\ SeenOf(o) = {} => root.filename[o] = NULL
            /\ \A i \in SeenOf(o) : root.filename[o] = options[i][2] /\ root.filename[o] # NULL
            /\ \A i, j \in SeenOf(o) : i = j

TakenInv == FlagsInv /\ RoundsInv /\ DictInv /\ PermissionsInv /\ FilenamesInv

(* What has been taken from the options is what they say so far; in the    *)
(* end they all have been seen, or there is a reason to refuse them.       *)
ExactInv ==
  /\ options \in Seq(Options)
  /\ opts_pc = "start" => seen = 0
  /\ opts_pc \in {"getopt", "ready"} => TakenInv
  /\ opts_pc = "ready" =>
       seen = Len(options) /\ cmd = <<MeantCommand, "root">> /\ MeantCommand \in Commands
  /\ opts_pc = "failed" /\ ~oom => Faulty

(* One more option has been seen.                                          *)
LEMMA SeenGrows ==
  ASSUME seen \in Nat, seen' = seen + 1, UNCHANGED given
  PROVE  /\ \A o : Option[1] = o => SeenOf(o)' = SeenOf(o) \cup {seen + 1}
         /\ \A o : Option[1] # o => SeenOf(o)' = SeenOf(o)
         /\ \A o : SeenOf(o) \subseteq 1 .. seen /\ seen + 1 \notin SeenOf(o)
<1>1. 1 .. seen' = 1 .. seen \cup {seen + 1} /\ seen + 1 \notin 1 .. seen
  OBVIOUS
<1>2. options' = options
  BY DEF given
<1>3. \A o : SeenOf(o)' = {i \in 1 .. seen' : options'[i][1] = o}
  BY DEF SeenOf
<1>4. \A o : \A i : i \in SeenOf(o)' <=> (i \in 1 .. seen \/ i = seen + 1) /\ options[i][1] = o
  BY <1>1, <1>2, <1>3
<1>5. \A o : \A i : i \in SeenOf(o) <=> i \in 1 .. seen /\ options[i][1] = o
  BY DEF SeenOf
<1>6. ASSUME NEW o, Option[1] = o
      PROVE  SeenOf(o)' = SeenOf(o) \cup {seen + 1}
  <2>1. \A i : i \in SeenOf(o)' <=> i \in SeenOf(o) \/ i = seen + 1
    BY <1>1, <1>4, <1>5, <1>6 DEF Option
  <2> QED
    BY <2>1
<1>7. ASSUME NEW o, Option[1] # o
      PROVE  SeenOf(o)' = SeenOf(o)
  <2>1. \A i : i \in SeenOf(o)' <=> i \in SeenOf(o)
    BY <1>1, <1>4, <1>5, <1>7 DEF Option
  <2> QED
    BY <2>1
<1> QED
  BY <1>1, <1>5, <1>6, <1>7

(* An option of one kind changes nothing that is said of the other kinds.  *)
LEMMA OthersKept ==
  ASSUME seen \in Nat, seen' = seen + 1, UNCHANGED given, ~oom' => ~oom
  PROVE  /\ /\ FlagsInv /\ Option[1] \notin {"h", "N", "v"}
            /\ root'.help_requested = root.help_requested
            /\ root'.non_interactive = root.non_interactive /\ root'.verbose = root.verbose
            => FlagsInv'
         /\ /\ RoundsInv /\ Option[1] # "R"
            /\ root'.key_derivation_rounds = root.key_derivation_rounds
            => RoundsInv'
         /\ DictInv /\ Option[1] # "D" /\ root'.dict = root.dict => DictInv'
         /\ PermissionsInv /\ Option[1] # "P" /\ root'.permissions = root.permissions
            => PermissionsInv'
         /\ FilenamesInv /\ Option[1] \notin Files /\ root'.filename = root.filename
            => FilenamesInv'
<1>1. \A o : Option[1] # o => SeenOf(o)' = SeenOf(o)
  BY SeenGrows
<1>2. options' = options
  BY DEF given
<1>3. \A i : Rank(i)' = Rank(i)
  BY <1>2 DEF Rank, Of
<1>4. /\ FlagsInv /\ Option[1] \notin {"h", "N", "v"}
      /\ root'.help_requested = root.help_requested
      /\ root'.non_interactive = root.non_interactive /\ root'.verbose = root.verbose
      => FlagsInv'
  <2>1. Option[1] \notin {"h", "N", "v"} =>
          SeenOf("h")' = SeenOf("h") /\ SeenOf("N")' = SeenOf("N") /\ SeenOf("v")' = SeenOf("v")
    BY <1>1
  <2> QED
    BY <2>1 DEF FlagsInv
<1>5. /\ RoundsInv /\ Option[1] # "R"
      /\ root'.key_derivation_rounds = root.key_derivation_rounds
      => RoundsInv'
  BY <1>1, <1>2 DEF RoundsInv
<1>6. DictInv /\ Option[1] # "D" /\ root'.dict = root.dict => DictInv'
  BY <1>1, <1>2 DEF DictInv
<1>7. PermissionsInv /\ Option[1] # "P" /\ root'.permissions = root.permissions
      => PermissionsInv'
  BY <1>1, <1>2, <1>3 DEF PermissionsInv
<1>8. FilenamesInv /\ Option[1] \notin Files /\ root'.filename = root.filename
      => FilenamesInv'
  <2>1. Option[1] \notin Files => \A o \in Files : SeenOf(o)' = SeenOf(o)
    BY <1>1
  <2> QED
    BY <1>2, <2>1 DEF FilenamesInv
<1> QED
  BY <1>4, <1>5, <1>6, <1>7, <1>8

(* The kinds are told apart by the letter.                                 *)
LEMMA Letters ==
  /\ {"h", "N", "v"} \cap Files = {} /\ {"R", "D", "P"} \cap Files = {}
  /\ "R" \notin {"h", "N", "v"} /\ "D" \notin {"h", "N", "v"} /\ "P" \notin {"h", "N", "v"}
  /\ {"h", "N", "v"} \cap {"R", "D", "P"} = {}
BY DEF Files

(* -h, -N and -v.                                                          *)
LEMMA FlagTaken ==
  ASSUME seen \in Nat, root \in RootType, TakenInv,
         NEW o, NEW field,
         <<o, field>> \in {<<"h", "help_requested">>, <<"N", "non_interactive">>, <<"v", "verbose">>},
         Flag(o, field)
  PROVE  TakenInv'
<1>1. /\ Option[1] = o /\ seen' = seen + 1 /\ UNCHANGED given /\ (~oom' => ~oom)
      /\ root' = [root EXCEPT ![field] = TRUE]
  BY DEF Flag, GetOpt, NoMemoryUsed
<1>2. /\ root'.filename = root.filename /\ root'.dict = root.dict
      /\ root'.permissions = root.permissions
      /\ root'.key_derivation_rounds = root.key_derivation_rounds
  BY <1>1 DEF RootType
<1>3. o \in {"h", "N", "v"}
  OBVIOUS
<1>4. SeenOf(o)' # {} /\ \A p : p # o => SeenOf(p)' = SeenOf(p)
  BY <1>1, SeenGrows
<1>5. FlagsInv'
  <2>1. FlagsInv
    BY DEF TakenInv
  <2>2. CASE o = "h" /\ field = "help_requested"
    BY <1>1, <1>4, <2>1, <2>2 DEF FlagsInv, RootType
  <2>3. CASE o = "N" /\ field = "non_interactive"
    BY <1>1, <1>4, <2>1, <2>3 DEF FlagsInv, RootType
  <2>4. CASE o = "v" /\ field = "verbose"
    BY <1>1, <1>4, <2>1, <2>4 DEF FlagsInv, RootType
  <2> QED
    BY <2>2, <2>3, <2>4
<1>6. RoundsInv' /\ DictInv' /\ PermissionsInv' /\ FilenamesInv'
  BY <1>1, <1>2, <1>3, OthersKept, Letters DEF TakenInv
<1> QED
  BY <1>5, <1>6 DEF TakenInv

(* The name of a file, the first of its kind.                              *)
LEMMA FilenameTaken ==
  ASSUME seen \in Nat, root \in RootType, TakenInv, NEW o \in Files, FileOption(o),
         root.filename[o] = NULL, Option[2] \in Strings
  PROVE  TakenInv'
<1>1. Option[1] = o /\ seen' = seen + 1 /\ UNCHANGED given /\ (~oom' => ~oom)
  BY DEF FileOption, GetOpt, Allocate, OutOfMemory
<1>2. oom' \/ root' = [root EXCEPT !.filename[o] = Option[2]]
  BY DEF FileOption, OutOfMemory
<1>3. root' = root \/ root' = [root EXCEPT !.filename[o] = Option[2]]
  BY DEF FileOption
<1>4. /\ root'.dict = root.dict /\ root'.permissions = root.permissions
      /\ root'.key_derivation_rounds = root.key_derivation_rounds
      /\ root'.help_requested = root.help_requested
      /\ root'.non_interactive = root.non_interactive /\ root'.verbose = root.verbose
  BY <1>3 DEF RootType
<1>5. FlagsInv' /\ RoundsInv' /\ DictInv' /\ PermissionsInv'
  BY <1>1, <1>4, OthersKept, Letters DEF TakenInv
<1>6. ASSUME ~oom', NEW p \in Files
      PROVE  /\ SeenOf(p)' = {} => root'.filename[p] = NULL
             /\ \A i \in SeenOf(p)' :
                  root'.filename[p] = options'[i][2] /\ root'.filename[p] # NULL
             /\ \A i, j \in SeenOf(p)' : i = j
  <2>1. /\ SeenOf(p) = {} => root.filename[p] = NULL
        /\ \A i \in SeenOf(p) : root.filename[p] = options[i][2] /\ root.filename[p] # NULL
        /\ \A i, j \in SeenOf(p) : i = j
    BY <1>1, <1>6 DEF TakenInv, FilenamesInv
  <2>2. root'.filename[p] = IF p = o THEN Option[2] ELSE root.filename[p]
    BY <1>2, <1>6 DEF RootType
  <2>3. options' = options
    BY <1>1 DEF given
  <2>4. CASE p # o
    <3>1. SeenOf(p)' = SeenOf(p)
      BY <1>1, <2>4, SeenGrows
    <3> QED
      BY <2>1, <2>2, <2>3, <2>4, <3>1
  <2>5. CASE p = o
    <3>1. SeenOf(o) = {}
      BY <2>1, <2>5
    <3>2. SeenOf(o)' = {seen + 1}
      BY <1>1, <3>1, SeenGrows
    <3> QED
      BY <2>2, <2>3, <2>5, <3>2, CommandLineAssumption DEF Option
  <2> QED
    BY <2>4, <2>5
<1>7. FilenamesInv'
  BY <1>6 DEF FilenamesInv
<1> QED
  BY <1>5, <1>7 DEF TakenInv

(* -R with a positive number.                                              *)
LEMMA RoundsTaken ==
  ASSUME seen \in Nat, root \in RootType, TakenInv, GetOpt("R"), Option[2] > 0,
         root' = [root EXCEPT !.key_derivation_rounds = Option[2]], NoMemoryUsed
  PROVE  TakenInv'
<1>1. Option[1] = "R" /\ seen' = seen + 1 /\ UNCHANGED given /\ (~oom' => ~oom)
  BY DEF GetOpt, NoMemoryUsed
<1>2. /\ root'.dict = root.dict /\ root'.permissions = root.permissions
      /\ root'.filename = root.filename
      /\ root'.help_requested = root.help_requested
      /\ root'.non_interactive = root.non_interactive /\ root'.verbose = root.verbose
      /\ root'.key_derivation_rounds = Option[2]
  BY DEF RootType
<1>3. FlagsInv' /\ DictInv' /\ PermissionsInv' /\ FilenamesInv'
  BY <1>1, <1>2, OthersKept, Letters DEF TakenInv
<1>4. SeenOf("R")' = SeenOf("R") \cup {seen + 1} /\ SeenOf("R") \subseteq 1 .. seen
  BY <1>1, SeenGrows
<1>5. options' = options /\ options[seen + 1][2] = Option[2]
  BY <1>1 DEF given, Option
<1>6. \A i \in SeenOf("R")' : i <= seen + 1 /\ options'[i][2] > 0
  BY <1>4, <1>5 DEF TakenInv, RoundsInv
<1>7. RoundsInv'
  BY <1>2, <1>4, <1>5, <1>6 DEF RoundsInv
<1> QED
  BY <1>3, <1>7 DEF TakenInv

(* What a split tells of the halves.                                       *)
LEMMA SplitMeans ==
  ASSUME NEW a, NEW b, NEW split \in SplitStops(<<a, b>>)
  PROVE  \/ split = <<"refused", TRUE>>
         \/ split = <<"refused", FALSE>> /\ NULL \in Range(<<a, b>>)
         \/ split = <<"split", FALSE>> /\ a # NULL /\ b # NULL
<1>1. Range(<<a, b>>) = {a, b}
  <2>1. DOMAIN <<a, b>> = {1, 2} /\ <<a, b>>[1] = a /\ <<a, b>>[2] = b
    OBVIOUS
  <2> QED
    BY <2>1 DEF Range
<1> QED
  BY <1>1 DEF SplitStops

(* The argument of -D and -P.                                              *)
LEMMA HalvesShape ==
  ASSUME CmdInv, seen \in 0 .. Len(options), seen < Len(options), Option[1] \in {"D", "P"}
  PROVE  /\ Option[2] = <<Option[2][1], Option[2][2]>>
         /\ Option[2][1] \in Strings \cup {NULL} /\ Option[2][2] \in Strings \cup {NULL}
BY OptionShape DEF Halves

(* -D with a new key.                                                      *)
LEMMA EntryTaken ==
  ASSUME seen \in Nat, root \in RootType, TakenInv, GetOpt("D"), ~oom' => ~oom,
         NEW k \in Strings, NEW v \in Strings, Option[2] = <<k, v>>, root.dict[k] = NULL,
         root' = [root EXCEPT !["dict"] =
           [s \in Strings |-> IF s = Option[2][1] THEN Option[2][2] ELSE root.dict[s]]]
  PROVE  TakenInv'
<1>1. Option[1] = "D" /\ seen' = seen + 1 /\ UNCHANGED given
  BY DEF GetOpt
<1>2. /\ root'.permissions = root.permissions /\ root'.filename = root.filename
      /\ root'.help_requested = root.help_requested
      /\ root'.non_interactive = root.non_interactive /\ root'.verbose = root.verbose
      /\ root'.key_derivation_rounds = root.key_derivation_rounds
      /\ root'.dict = [s \in Strings |-> IF s = Option[2][1] THEN Option[2][2] ELSE root.dict[s]]
  BY DEF RootType
<1>3. FlagsInv' /\ RoundsInv' /\ PermissionsInv' /\ FilenamesInv'
  BY <1>1, <1>2, OthersKept, Letters DEF TakenInv
<1>4. /\ SeenOf("D")' = SeenOf("D") \cup {seen + 1}
      /\ SeenOf("D") \subseteq 1 .. seen /\ seen + 1 \notin SeenOf("D")
  BY <1>1, SeenGrows
<1>5. options' = options /\ options[seen + 1][2] = <<k, v>>
  BY <1>1 DEF given, Option
<1>6. \A s \in Strings : root'.dict[s] = IF s = k THEN v ELSE root.dict[s]
  BY <1>2
<1>7. /\ \A i \in SeenOf("D") :
           /\ options[i][2][1] \in Strings /\ options[i][2][2] \in Strings
           /\ root.dict[options[i][2][1]] = options[i][2][2]
      /\ \A i, j \in SeenOf("D") : options[i][2][1] = options[j][2][1] => i = j
      /\ \A s \in Strings : root.dict[s] # NULL => \E i \in SeenOf("D") : options[i][2][1] = s
  BY DEF TakenInv, DictInv
<1>8. \A i \in SeenOf("D") : options[i][2][1] # k
  BY <1>7, CommandLineAssumption
<1>9. \A i \in SeenOf("D")' :
        /\ options'[i][2][1] \in Strings /\ options'[i][2][2] \in Strings
        /\ root'.dict[options'[i][2][1]] = options'[i][2][2]
  BY <1>4, <1>5, <1>6, <1>7, <1>8
<1>10. \A i, j \in SeenOf("D")' : options'[i][2][1] = options'[j][2][1] => i = j
  BY <1>4, <1>5, <1>7, <1>8
<1>11. \A s \in Strings : root'.dict[s] # NULL => \E i \in SeenOf("D")' : options'[i][2][1] = s
  BY <1>4, <1>5, <1>6, <1>7
<1> QED
  BY <1>3, <1>9, <1>10, <1>11 DEF TakenInv, DictInv

(* Finite sets of positions.                                               *)
LEMMA PositionsFinite ==
  ASSUME Len(options) \in Nat, options \in Seq(Options)
  PROVE  /\ \A o : Of(o) = {i \in 1 .. Len(options) : options[i][1] = o}
         /\ \A o : IsFiniteSet(Of(o)) /\ Cardinality(Of(o)) \in Nat
         /\ \A o : \A S : S \subseteq Of(o) => IsFiniteSet(S) /\ Cardinality(S) \in Nat
<1>1. DOMAIN options = 1 .. Len(options)
  OBVIOUS
<1>2. \A o : Of(o) = {i \in 1 .. Len(options) : options[i][1] = o}
  BY <1>1 DEF Of
<1>3. IsFiniteSet(1 .. Len(options))
  BY FS_Interval
<1>4. \A S : S \subseteq 1 .. Len(options) => IsFiniteSet(S) /\ Cardinality(S) \in Nat
  BY <1>3, FS_Subset, FS_CardinalityType
<1>5. \A o : Of(o) \subseteq 1 .. Len(options)
  BY <1>2
<1> QED
  BY <1>2, <1>4, <1>5

(* -P: it gets the next place.                                             *)
LEMMA PermissionTaken ==
  ASSUME seen \in 0 .. Len(options), Len(options) \in Nat, options \in Seq(Options),
         root \in RootType, TakenInv, GetOpt("P"), ~oom' => ~oom,
         NEW a, NEW b, Option[2] = <<a, b>>, Option[2] \in Halves, a # NULL, b # NULL,
         root' = [root EXCEPT !["permissions"] = Append(root.permissions, Option[2])]
  PROVE  TakenInv'
<1>1. /\ Option[1] = "P" /\ seen' = seen + 1 /\ UNCHANGED given /\ seen \in Nat
      /\ seen < Len(options)
  BY DEF GetOpt
<1>2. /\ root'.dict = root.dict /\ root'.filename = root.filename
      /\ root'.help_requested = root.help_requested
      /\ root'.non_interactive = root.non_interactive /\ root'.verbose = root.verbose
      /\ root'.key_derivation_rounds = root.key_derivation_rounds
      /\ root'.permissions = Append(root.permissions, Option[2])
  BY DEF RootType
<1>3. FlagsInv' /\ RoundsInv' /\ DictInv' /\ FilenamesInv'
  BY <1>1, <1>2, OthersKept, Letters DEF TakenInv
<1> DEFINE S == SeenOf("P")
           N == Cardinality(S)
<1>4. SeenOf("P")' = S \cup {seen + 1} /\ S \subseteq 1 .. seen /\ seen + 1 \notin S
  BY <1>1, SeenGrows
<1>5. options' = options /\ options[seen + 1][2] = <<a, b>> /\ \A i : Rank(i)' = Rank(i)
  BY <1>1 DEF given, Option, Rank, Of
<1>6. S \subseteq Of("P") /\ seen + 1 \in Of("P")
  BY <1>1, PositionsFinite DEF SeenOf, Option
<1>7. IsFiniteSet(S) /\ N \in Nat
  BY <1>6, PositionsFinite
<1>8. Cardinality(S \cup {seen + 1}) = N + 1
  BY <1>4, <1>7, FS_AddElement
<1>9. Rank(seen + 1) = N + 1
  <2>1. {j \in Of("P") : j <= seen + 1} = S \cup {seen + 1}
    <3>1. \A j : j \in Of("P") <=> j \in 1 .. Len(options) /\ options[j][1] = "P"
      BY PositionsFinite
    <3>2. \A j : j \in S <=> j \in 1 .. seen /\ options[j][1] = "P"
      BY DEF SeenOf
    <3>3. \A j : j \in 1 .. Len(options) /\ j <= seen + 1 <=> j \in 1 .. seen \/ j = seen + 1
      BY <1>1
    <3> HIDE DEF S
    <3> QED
      BY <1>6, <3>1, <3>2, <3>3
  <2> QED
    BY <1>8, <2>1 DEF Rank
<1>10. /\ Len(root.permissions) = N
       /\ \A i \in S :
            /\ NULL \notin Range(options[i][2])
            /\ Rank(i) \in DOMAIN root.permissions /\ root.permissions[Rank(i)] = options[i][2]
       /\ \A n \in DOMAIN root.permissions : \E i \in S : Rank(i) = n
  BY DEF TakenInv, PermissionsInv
<1>11. root.permissions \in Seq(Halves)
  BY DEF RootType
<1>12. /\ Len(root'.permissions) = N + 1 /\ DOMAIN root'.permissions = 1 .. N + 1
       /\ DOMAIN root.permissions = 1 .. N
       /\ root'.permissions[N + 1] = <<a, b>>
       /\ \A n \in 1 .. N : root'.permissions[n] = root.permissions[n]
  BY <1>2, <1>10, <1>11, AppendProperties
<1>13. NULL \notin Range(<<a, b>>)
  <2>1. DOMAIN <<a, b>> = {1, 2} /\ <<a, b>>[1] = a /\ <<a, b>>[2] = b
    OBVIOUS
  <2> QED
    BY <2>1 DEF Range
<1> HIDE DEF S, N
<1>14. ASSUME NEW i \in SeenOf("P")'
       PROVE  /\ NULL \notin Range(options'[i][2])
              /\ Rank(i)' \in DOMAIN root'.permissions
              /\ root'.permissions[Rank(i)'] = options'[i][2]
  <2>1. CASE i = seen + 1
    <3>1. Rank(i)' = N + 1 /\ options'[i][2] = <<a, b>>
      BY <1>5, <1>9, <2>1
    <3>2. N + 1 \in 1 .. N + 1
      BY <1>7
    <3> QED
      BY <1>12, <1>13, <3>1, <3>2
  <2>2. CASE i \in S
    <3>1. Rank(i) \in 1 .. N /\ Rank(i) \in 1 .. N + 1
      BY <1>7, <1>10, <1>12, <2>2
    <3> QED
      BY <1>5, <1>10, <1>12, <2>2, <3>1
  <2> QED
    BY <1>4, <2>1, <2>2
<1>15. ASSUME NEW n \in DOMAIN root'.permissions
       PROVE  \E i \in SeenOf("P")' : Rank(i)' = n
  <2>1. n \in 1 .. N \/ n = N + 1
    BY <1>7, <1>12
  <2> QED
    BY <1>4, <1>5, <1>9, <1>10, <1>12, <2>1
<1>16. Len(root'.permissions) = Cardinality(SeenOf("P")')
  BY <1>4, <1>8, <1>12
<1>17. PermissionsInv'
  BY <1>14, <1>15, <1>16 DEF PermissionsInv
<1> QED
  BY <1>3, <1>17 DEF TakenInv

(* Options that have been seen are options.                                *)
LEMMA SeenAreGiven ==
  ASSUME Len(options) \in Nat, options \in Seq(Options), seen \in 0 .. Len(options)
  PROVE  /\ \A o : SeenOf(o) \subseteq Of(o)
         /\ seen < Len(options) => seen + 1 \in Of(Option[1])
         /\ seen = Len(options) => \A o : SeenOf(o) = Of(o)
         /\ seen + 1 \notin 1 .. seen /\ \A o : SeenOf(o) \subseteq 1 .. seen
<1>1. \A o : Of(o) = {i \in 1 .. Len(options) : options[i][1] = o}
  BY PositionsFinite
<1>2. \A i : i \in 1 .. seen => i \in 1 .. Len(options)
  OBVIOUS
<1>3. seen < Len(options) => seen + 1 \in 1 .. Len(options)
  OBVIOUS
<1> QED
  BY <1>1, <1>2, <1>3 DEF SeenOf, Option

(* What the options say depends on nothing but them and the word.          *)
LEMMA SaysTheSame ==
  ASSUME UNCHANGED given
  PROVE  /\ options' = options /\ Faulty' = Faulty /\ MeantCommand' = MeantCommand
         /\ \A o : Of(o)' = Of(o)
         /\ \A i : Rank(i)' = Rank(i)
BY DEF given, Faulty, MeantCommand, Of, Rank

(* What has been taken stays as long as no option is taken.                *)
LEMMA TakenStays ==
  ASSUME TakenInv, UNCHANGED <<given, seen, root, oom>>
  PROVE  TakenInv'
<1>1. options' = options /\ \A i : Rank(i)' = Rank(i)
  BY SaysTheSame
<1>2. \A o : SeenOf(o)' = SeenOf(o)
  BY <1>1 DEF SeenOf
<1>3. FlagsInv' /\ RoundsInv' /\ DictInv'
  BY <1>1, <1>2 DEF TakenInv, FlagsInv, RoundsInv, DictInv
<1>4. PermissionsInv' /\ FilenamesInv'
  BY <1>1, <1>2 DEF TakenInv, PermissionsInv, FilenamesInv
<1> QED
  BY <1>3, <1>4 DEF TakenInv

(* Before the first option nothing has been taken.                         *)
LEMMA NothingTaken ==
  ASSUME seen = 0, root = NoRoot
  PROVE  TakenInv
<1>1. \A o : SeenOf(o) = {}
  BY DEF SeenOf
<1>2. FlagsInv /\ RoundsInv
  BY <1>1 DEF FlagsInv, RoundsInv, NoRoot
<1>3. DictInv /\ FilenamesInv
  BY <1>1 DEF DictInv, FilenamesInv, NoRoot
<1>4. PermissionsInv
  <2>1. root.permissions = <<>> /\ Len(<<>>) = 0 /\ DOMAIN <<>> = {}
    BY DEF NoRoot
  <2>2. Cardinality(SeenOf("P")) = 0
    BY <1>1, FS_EmptySet
  <2> QED
    BY <1>1, <2>1, <2>2 DEF PermissionsInv
<1> QED
  BY <1>2, <1>3, <1>4 DEF TakenInv

(* An option that is taken, and one that is refused for a reason.          *)
LEMMA TakenOrRefused ==
  ASSUME ExactInv, UNCHANGED given,
         (opts_pc' = "getopt" /\ TakenInv') \/ (opts_pc' = "failed" /\ (oom' \/ Faulty))
  PROVE  ExactInv'
BY SaysTheSame DEF ExactInv

(* The name of a file, or the same file again.                             *)
LEMMA FileOptionExact ==
  ASSUME OptsTypeOK, CmdInv, ExactInv, NEW o \in Files, FileOption(o)
  PROVE  ExactInv'
<1>1. /\ opts_pc = "getopt" /\ seen < Len(options) /\ Option[1] = o /\ UNCHANGED given
      /\ TakenInv /\ options \in Seq(Options) /\ Len(options) \in Nat /\ seen \in 0 .. Len(options)
      /\ seen \in Nat /\ root \in RootType
  BY DEF FileOption, GetOpt, ExactInv, CmdInv, OptsTypeOK
<1>2. CASE root.filename[o] = NULL
  <2>1. Option[2] \in Strings
    BY <1>1, OptionShape
  <2>2. TakenInv'
    BY <1>1, <1>2, <2>1, FilenameTaken
  <2>3. opts_pc' = "getopt"
    BY <1>1, <1>2 DEF FileOption, Accept
  <2> QED
    BY <1>1, <2>2, <2>3, TakenOrRefused
<1>3. CASE root.filename[o] # NULL
  <2>1. opts_pc' = "failed" /\ oom' = oom
    BY <1>3 DEF FileOption, Refuse
  <2>2. ASSUME ~oom
        PROVE  Faulty
    <3>1. PICK i : i \in SeenOf(o)
      BY <1>3, <2>2, <1>1 DEF TakenInv, FilenamesInv
    <3>2. i \in Of(o) /\ seen + 1 \in Of(o) /\ i # seen + 1
      BY <1>1, <3>1, SeenAreGiven
    <3> QED
      BY <3>2 DEF Faulty
  <2> QED
    BY <1>1, <2>1, <2>2, TakenOrRefused
<1> QED
  BY <1>2, <1>3

(* A number of rounds, or what is none.                                    *)
LEMMA RoundsOptionExact ==
  ASSUME OptsTypeOK, CmdInv, ExactInv, RoundsOption
  PROVE  ExactInv'
<1>1. /\ opts_pc = "getopt" /\ seen < Len(options) /\ Option[1] = "R" /\ UNCHANGED given
      /\ TakenInv /\ options \in Seq(Options) /\ Len(options) \in Nat /\ seen \in 0 .. Len(options)
      /\ seen \in Nat /\ root \in RootType /\ GetOpt("R")
  BY DEF RoundsOption, GetOpt, ExactInv, CmdInv, OptsTypeOK
<1>2. CASE /\ Option[2] > 0
           /\ root' = [root EXCEPT !.key_derivation_rounds = Option[2]]
           /\ NoMemoryUsed /\ Accept
  <2>1. TakenInv' /\ opts_pc' = "getopt"
    BY <1>1, <1>2, RoundsTaken DEF Accept
  <2> QED
    BY <1>1, <2>1, TakenOrRefused
<1>3. CASE Option[2] <= 0 /\ Refuse("BAD_KEY_ROUNDS", {})
  <2>1. opts_pc' = "failed"
    BY <1>3 DEF Refuse
  <2>2. seen + 1 \in Of("R") /\ options[seen + 1][2] <= 0
    BY <1>1, <1>3, SeenAreGiven DEF Option
  <2>3. Faulty
    BY <2>2 DEF Faulty
  <2> QED
    BY <1>1, <2>1, <2>3, TakenOrRefused
<1> QED
  BY <1>2, <1>3 DEF RoundsOption

(* The outcomes of -D and -P.                                              *)
LEMMA AddEntryMeans ==
  ASSUME NEW o, NEW fits, NEW field, NEW value, NEW status,
         AddEntry(o, fits, field, value, status), NEW a, NEW b, Option[2] = <<a, b>>
  PROVE  /\ GetOpt(o)
         /\ \/ /\ opts_pc' = "failed"
               /\ oom' \/ NULL \in Range(Option[2]) \/ ~fits
            \/ /\ a # NULL /\ b # NULL /\ fits
               /\ opts_pc' = opts_pc /\ oom' = oom
               /\ root' = [root EXCEPT ![field] = value]
<1>1. GetOpt(o)
  BY DEF AddEntry
<1>2. PICK split \in SplitStops(<<a, b>>) :
       \/ /\ split[1] = "refused"
          /\ Refuse(status, {})
          /\ oom' = (oom \/ split[2]) /\ UNCHANGED root
       \/ /\ split[1] = "split" /\ fits
          /\ Allocate({Copy} \cup Entry)
          /\ root' = [root EXCEPT ![field] = value]
          /\ Accept
       \/ /\ split[1] = "split"
          /\ Refuse(status, {Copy})
          /\ oom' = (oom \/ fits) /\ UNCHANGED root
  BY DEF AddEntry
<1>3. CASE split = <<"refused", TRUE>>
  <2>1. split[1] = "refused" /\ split[2] = TRUE /\ split[1] # "split"
    BY <1>3
  <2>2. opts_pc' = "failed" /\ oom' = (oom \/ split[2])
    BY <1>2, <2>1 DEF Refuse
  <2>3. oom'
    BY <2>1, <2>2
  <2> QED
    BY <1>1, <2>2, <2>3
<1>4. CASE split = <<"refused", FALSE>> /\ NULL \in Range(<<a, b>>)
  <2>1. split[1] = "refused" /\ split[1] # "split"
    BY <1>4
  <2>2. opts_pc' = "failed"
    BY <1>2, <2>1 DEF Refuse
  <2> QED
    BY <1>1, <1>4, <2>2
<1>5. CASE split = <<"split", FALSE>> /\ a # NULL /\ b # NULL
  <2>1. split[1] = "split" /\ split[1] # "refused"
    BY <1>5
  <2>2. CASE fits /\ Allocate({Copy} \cup Entry) /\ root' = [root EXCEPT ![field] = value] /\ Accept
    <3>1. opts_pc' = opts_pc /\ oom' = oom
      BY <2>2 DEF Allocate, Accept
    <3> QED
      BY <1>1, <1>5, <2>2, <3>1, Zenon
  <2>3. CASE Refuse(status, {Copy}) /\ oom' = (oom \/ fits)
    <3>1. opts_pc' = "failed"
      BY <2>3 DEF Refuse
    <3>2. oom' \/ ~fits
      BY <2>3
    <3> QED
      BY <1>1, <3>1, <3>2
  <2> QED
    BY <1>2, <2>1, <2>2, <2>3
<1> QED
  BY <1>3, <1>4, <1>5, SplitMeans

(* Two of the reasons to refuse options.                                   *)
LEMMA Faults ==
  /\ \A i \in Of("D") \cup Of("P") : NULL \in Range(options[i][2]) => Faulty
  /\ \A i, j \in Of("D") : i # j /\ options[i][2][1] = options[j][2][1] => Faulty
BY Zenon DEF Faulty

(* -D: a new key, one that is there, or a half that is missing.            *)
LEMMA DictOptionExact ==
  ASSUME OptsTypeOK, CmdInv, ExactInv, DictOption
  PROVE  ExactInv'
<1> DEFINE value == [s \in Strings |-> IF s = Option[2][1] THEN Option[2][2] ELSE root.dict[s]]
           fits == Option[2][1] = NULL \/ root.dict[Option[2][1]] = NULL
<1>1. /\ opts_pc = "getopt" /\ seen < Len(options) /\ Option[1] = "D" /\ UNCHANGED given
      /\ TakenInv /\ options \in Seq(Options) /\ Len(options) \in Nat /\ seen \in 0 .. Len(options)
      /\ seen \in Nat /\ root \in RootType /\ GetOpt("D")
  BY DEF DictOption, AddEntry, GetOpt, ExactInv, CmdInv, OptsTypeOK
<1>2. PICK a, b : Option[2] = <<a, b>> /\ a \in Strings \cup {NULL} /\ b \in Strings \cup {NULL}
  BY <1>1, HalvesShape
<1>3. AddEntry("D", fits, "dict", value, "BAD_KVP")
  BY DEF DictOption
<1>4. Option[2][1] = a /\ Option[2][2] = b
  BY <1>2
<1>5. \/ opts_pc' = "failed" /\ (oom' \/ NULL \in Range(Option[2]) \/ ~fits)
      \/ /\ a # NULL /\ b # NULL /\ fits
         /\ opts_pc' = opts_pc /\ oom' = oom /\ root' = [root EXCEPT !["dict"] = value]
  <2> HIDE DEF fits, value
  <2> QED
    BY <1>2, <1>3, AddEntryMeans
<1>6. CASE opts_pc' = "failed" /\ (oom' \/ NULL \in Range(Option[2]) \/ ~fits)
  <2>1. seen + 1 \in Of("D") /\ options[seen + 1][2] = Option[2]
    BY <1>1, SeenAreGiven DEF Option
  <2>2. NULL \in Range(Option[2]) => Faulty
    BY <2>1, Faults
  <2>3. ASSUME ~fits
        PROVE  Faulty
    <3>1. a \in Strings /\ root.dict[a] # NULL
      BY <1>2, <1>4, <2>3
    <3>2. PICK i \in SeenOf("D") : options[i][2][1] = a
      BY <1>1, <3>1 DEF TakenInv, DictInv
    <3>3. i \in Of("D") /\ i # seen + 1
      BY <1>1, <3>2, SeenAreGiven
    <3>4. options[i][2][1] = options[seen + 1][2][1]
      BY <1>4, <2>1, <3>2
    <3> QED
      BY <2>1, <3>3, <3>4, Faults
  <2> HIDE DEF fits
  <2>4. oom' \/ Faulty
    BY <1>6, <2>2, <2>3, Zenon
  <2> QED
    BY <1>1, <1>6, <2>4, TakenOrRefused
<1>7. CASE /\ a # NULL /\ b # NULL /\ fits
           /\ opts_pc' = opts_pc /\ oom' = oom /\ root' = [root EXCEPT !["dict"] = value]
  <2>1. a \in Strings /\ b \in Strings /\ root.dict[a] = NULL
    BY <1>2, <1>4, <1>7
  <2>2. TakenInv'
    BY <1>1, <1>2, <1>7, <2>1, EntryTaken
  <2> QED
    BY <1>1, <1>7, <2>2, TakenOrRefused
<1> HIDE DEF fits, value
<1> QED
  BY <1>5, <1>6, <1>7

(* -P: the next place, or a half that is missing.                          *)
LEMMA PermissionOptionExact ==
  ASSUME OptsTypeOK, CmdInv, ExactInv, PermissionOption
  PROVE  ExactInv'
<1> DEFINE value == Append(root.permissions, Option[2])
<1>1. /\ opts_pc = "getopt" /\ seen < Len(options) /\ Option[1] = "P" /\ UNCHANGED given
      /\ TakenInv /\ options \in Seq(Options) /\ Len(options) \in Nat /\ seen \in 0 .. Len(options)
      /\ seen \in Nat /\ root \in RootType /\ GetOpt("P")
  BY DEF PermissionOption, AddEntry, GetOpt, ExactInv, CmdInv, OptsTypeOK
<1>2. PICK a, b : Option[2] = <<a, b>>
  BY <1>1, HalvesShape
<1>3. Option[2] \in Halves
  BY <1>1, OptionShape
<1>4. AddEntry("P", TRUE, "permissions", value, "BAD_PERMISSION")
  BY DEF PermissionOption
<1>5. \/ opts_pc' = "failed" /\ (oom' \/ NULL \in Range(Option[2]))
      \/ /\ a # NULL /\ b # NULL
         /\ opts_pc' = opts_pc /\ oom' = oom /\ root' = [root EXCEPT !["permissions"] = value]
  <2> DEFINE fits == TRUE
  <2>1. AddEntry("P", fits, "permissions", value, "BAD_PERMISSION")
    BY <1>4
  <2> HIDE DEF value, fits
  <2>2. \/ opts_pc' = "failed" /\ (oom' \/ NULL \in Range(Option[2]) \/ ~fits)
        \/ /\ a # NULL /\ b # NULL /\ fits
           /\ opts_pc' = opts_pc /\ oom' = oom /\ root' = [root EXCEPT !["permissions"] = value]
    BY <1>2, <2>1, AddEntryMeans
  <2>3. fits
    BY DEF fits
  <2> QED
    BY <2>2, <2>3, Zenon
<1>6. CASE opts_pc' = "failed" /\ (oom' \/ NULL \in Range(Option[2]))
  <2>1. seen + 1 \in Of("P") /\ options[seen + 1][2] = Option[2]
    BY <1>1, SeenAreGiven DEF Option
  <2>2. oom' \/ Faulty
    BY <1>6, <2>1 DEF Faulty
  <2> QED
    BY <1>1, <1>6, <2>2, TakenOrRefused
<1>7. CASE /\ a # NULL /\ b # NULL
           /\ opts_pc' = opts_pc /\ oom' = oom /\ root' = [root EXCEPT !["permissions"] = value]
  <2>1. TakenInv'
    BY <1>1, <1>2, <1>3, <1>7, PermissionTaken
  <2> QED
    BY <1>1, <1>7, <2>1, TakenOrRefused
<1> HIDE DEF value
<1> QED
  BY <1>5, <1>6, <1>7

(* What the arguments of -R and -D look like.                              *)
LEMMA ArgumentShapes ==
  ASSUME Len(options) \in Nat, options \in Seq(Options)
  PROVE  /\ \A i \in Of("R") : options[i][2] \in Int
         /\ \A i \in Of("D") : options[i][2] = <<options[i][2][1], options[i][2][2]>>
<1>1. \A o : \A i \in Of(o) : options[i] \in Options /\ options[i][1] = o
  BY PositionsFinite
<1>2. Rounds \subseteq Int
  BY CommandLineAssumption
<1>3. \A h \in Halves : h = <<h[1], h[2]>>
  BY DEF Halves
<1>4. ASSUME NEW x \in Options
      PROVE  /\ x[1] = "R" => x[2] \in Int
             /\ x[1] = "D" => x[2] = <<x[2][1], x[2][2]>>
  <2>1. CASE \E o \in {"h", "N", "v"} : x = <<o>>
    BY <2>1
  <2>2. CASE \E o \in Files, s \in Strings : x = <<o, s>>
    BY <2>2 DEF Files
  <2>3. CASE \E n \in Rounds : x = <<"R", n>>
    <3>1. PICK n \in Rounds : x = <<"R", n>>
      BY <2>3
    <3>2. x[1] = "R" /\ x[2] = n
      BY <3>1
    <3> QED
      BY <1>2, <3>2
  <2>4. CASE \E o \in {"D", "P"}, h \in Halves : x = <<o, h>>
    <3>1. PICK o \in {"D", "P"}, h \in Halves : x = <<o, h>>
      BY <2>4
    <3>2. x[1] = o /\ x[2] = h /\ o # "R"
      BY <3>1
    <3>3. h = <<h[1], h[2]>>
      BY <1>3
    <3> QED
      BY <3>2, <3>3
  <2> QED
    BY <2>1, <2>2, <2>3, <2>4 DEF Options
<1> QED
  BY <1>1, <1>4

(* The choice of the command.                                              *)
LEMMA ChoiceExact ==
  ASSUME OptsTypeOK, CmdInv, ExactInv, HelpRequested \/ Dispatch
  PROVE  ExactInv'
<1>1. /\ opts_pc = "getopt" /\ seen = Len(options) /\ UNCHANGED <<given, seen, root>>
      /\ TakenInv /\ options \in Seq(Options) /\ Len(options) \in Nat /\ seen \in 0 .. Len(options)
      /\ cmd = <<"root">>
  BY DEF HelpRequested, Dispatch, ExactInv, CmdInv, OptsTypeOK
<1>2. root.help_requested = (Of("h") # {})
  BY <1>1, SeenAreGiven DEF TakenInv, FlagsInv
<1>3. \/ \E c \in Commands : c = MeantCommand /\ Process(c)
      \/ \E s : MeantCommand \notin Commands /\ Refuse(s, {})
  <2>1. CASE HelpRequested
    BY <1>2, <2>1 DEF HelpRequested, MeantCommand, ProcessHelp, Commands
  <2>2. CASE Dispatch
    <3>1. MeantCommand = word
      BY <1>2, <2>2 DEF Dispatch, MeantCommand
    <3>2. NULL \notin Commands /\ Words \cap Commands = {}
      BY CommandLineAssumption
    <3> QED
      BY <2>2, <3>1, <3>2
      DEF Dispatch, ProcessHelp, ProcessKeygen, ProcessPubkey, ProcessEndorse, Commands
  <2> QED
    BY <2>1, <2>2
<1>4. ASSUME NEW c \in Commands, c = MeantCommand, Process(c)
      PROVE  ExactInv'
  <2>1. CASE Allocate({<<c>>}) /\ cmd' = <<c>> \o cmd /\ opts_pc' = "ready"
    <3>1. <<c>> \o <<"root">> = <<c, "root">>
      BY OneBeforeRoot
    <3>2. cmd' = <<c, "root">> /\ oom' = oom
      BY <1>1, <2>1, <3>1 DEF Allocate
    <3>3. TakenInv'
      BY <1>1, <3>2, TakenStays
    <3>4. options' = options /\ MeantCommand' = MeantCommand /\ seen' = seen
      BY <1>1, SaysTheSame
    <3> QED
      BY <1>1, <1>4, <2>1, <3>2, <3>3, <3>4 DEF ExactInv
  <2>2. CASE Refuse("OUT_OF_MEMORY", {}) /\ oom' = TRUE
    <3>1. opts_pc' = "failed"
      BY <2>2 DEF Refuse
    <3> QED
      BY <1>1, <2>2, <3>1, TakenOrRefused
  <2> QED
    BY <1>4, <2>1, <2>2 DEF Process
<1>5. ASSUME NEW s, MeantCommand \notin Commands, Refuse(s, {})
      PROVE  ExactInv'
  <2>1. opts_pc' = "failed"
    BY <1>5 DEF Refuse
  <2>2. Faulty
    BY <1>5 DEF Faulty
  <2> QED
    BY <1>1, <2>1, <2>2, TakenOrRefused
<1> QED
  BY <1>3, <1>4, <1>5

(* The root command is made.                                               *)
LEMMA RootExact ==
  ASSUME CmdInv, ExactInv, InitRoot
  PROVE  ExactInv'
<1>1. /\ opts_pc = "start" /\ seen = 0 /\ root = NoRoot /\ UNCHANGED <<given, seen, root>>
  BY DEF InitRoot, CmdInv, ExactInv
<1>2. CASE opts_pc' = "getopt" /\ oom' = oom
  <2>1. TakenInv'
    BY <1>1, <1>2, NothingTaken, TakenStays
  <2> QED
    BY <1>1, <1>2, <2>1, TakenOrRefused
<1>3. CASE opts_pc' = "failed" /\ oom'
  BY <1>1, <1>3, TakenOrRefused
<1>4. CASE opts_pc' = "crashed"
  BY <1>1, <1>4, SaysTheSame DEF ExactInv
<1>5. \/ opts_pc' = "getopt" /\ oom' = oom
      \/ opts_pc' = "failed" /\ oom'
      \/ opts_pc' = "crashed"
  BY DEF InitRoot, Allocate, OutOfMemory
<1> QED
  BY <1>2, <1>3, <1>4, <1>5

(* A step of commandline_opts_init.                                        *)
LEMMA OptionsStepExact ==
  ASSUME OptsTypeOK, CmdInv, ExactInv, OptsNext
  PROVE  ExactInv'
<1>1. ASSUME NEW o, NEW field,
             <<o, field>> \in
               {<<"h", "help_requested">>, <<"N", "non_interactive">>, <<"v", "verbose">>},
             Flag(o, field)
      PROVE  ExactInv'
  <2>1. /\ opts_pc = "getopt" /\ opts_pc' = opts_pc /\ UNCHANGED given /\ TakenInv
        /\ seen \in Nat /\ root \in RootType
    BY <1>1 DEF Flag, GetOpt, Accept, ExactInv, CmdInv, OptsTypeOK
  <2>2. TakenInv'
    BY <1>1, <2>1, FlagTaken
  <2> QED
    BY <2>1, <2>2, TakenOrRefused
<1>2. CASE Flag("h", "help_requested") \/ Flag("N", "non_interactive") \/ Flag("v", "verbose")
  <2>1. CASE Flag("h", "help_requested")
    BY <1>1, <2>1
  <2>2. CASE Flag("N", "non_interactive")
    BY <1>1, <2>2
  <2>3. CASE Flag("v", "verbose")
    BY <1>1, <2>3
  <2> QED
    BY <1>2, <2>1, <2>2, <2>3
<1> QED
  BY <1>2, RootExact, FileOptionExact, RoundsOptionExact, DictOptionExact,
     PermissionOptionExact, ChoiceExact DEF OptsNext

(* A step of main that reads no option.                                    *)
LEMMA OtherStepsExact ==
  ASSUME MainInv, ExactInv, [MainNext]_mainVars, ~ReadOptions
  PROVE  ExactInv'
<1>1. UNCHANGED optsVars \/ (opts_pc' = "disposed" /\ UNCHANGED given)
  BY DEF MainNext, SetUp, Execute, Dispose, Cleanup, Exit, Gone, mainVars
<1>2. CASE UNCHANGED optsVars
  <2>1. UNCHANGED <<given, opts_pc, seen, root, cmd, oom>>
    BY <1>2 DEF optsVars
  <2>2. /\ options' = options /\ MeantCommand' = MeantCommand /\ Faulty' = Faulty
        /\ TakenInv => TakenInv'
    BY <2>1, SaysTheSame, TakenStays
  <2> QED
    BY <2>1, <2>2 DEF ExactInv
<1>3. CASE opts_pc' = "disposed" /\ UNCHANGED given
  BY <1>3, SaysTheSame DEF ExactInv
<1> QED
  BY <1>1, <1>2, <1>3

(* Every step keeps what is said of the options.                           *)
LEMMA ExactStep ==
  ASSUME MainInv, ExactInv, [MainNext]_mainVars
  PROVE  ExactInv'
<1>1. CASE ReadOptions
  BY <1>1, OptionsStepExact DEF ReadOptions, MainInv, MainTypeOK, OptsTypeOK
<1>2. CASE ~ReadOptions
  BY <1>2, OtherStepsExact
<1> QED
  BY <1>1, <1>2

(* The initial states.                                                     *)
LEMMA ExactInitially ==
  ASSUME MainInit
  PROVE  ExactInv
<1>1. PICK n \in 0 .. MaxOptions : options \in [1 .. n -> OptionsUsed]
  BY DEF MainInit, OptsInit
<1>2. n \in Nat /\ OptionsUsed \subseteq Options
  BY <1>1, CommandLineAssumption
<1>3. options \in [1 .. n -> Options]
  BY <1>1, <1>2
<1>4. options \in Seq(Options)
  BY <1>2, <1>3
<1> QED
  BY <1>4 DEF MainInit, OptsInit, ExactInv

-----------------------------------------------------------------------------
(* The last of a set of positions is the one that CHOOSE takes. *)
LEMMA RoundsMeant ==
  ASSUME RoundsInv, SeenOf("R") = Of("R"), Of("R") \subseteq Nat
  PROVE  root.key_derivation_rounds = MeantRounds
<1>1. CASE Of("R") = {}
  BY <1>1 DEF RoundsInv, MeantRounds
<1>2. CASE Of("R") # {}
  <2>1. PICK i \in Of("R") : /\ \A j \in Of("R") : j <= i
                             /\ root.key_derivation_rounds = options[i][2]
    BY <1>2 DEF RoundsInv
  <2> DEFINE k == CHOOSE m \in Of("R") : \A j \in Of("R") : j <= m
  <2>2. k \in Of("R") /\ \A j \in Of("R") : j <= k
    BY <2>1, Zenon
  <2> HIDE DEF k
  <2>3. k = i
    BY <2>1, <2>2
  <2>4. MeantRounds = options[k][2]
    BY <1>2 DEF MeantRounds, k
  <2> QED
    BY <2>1, <2>3, <2>4
<1> QED
  BY <1>1, <1>2

(* An entry of the dictionary is the only value that a -D gives the key.   *)
LEMMA DictMeant ==
  ASSUME DictInv, SeenOf("D") = Of("D"), root \in RootType,
         \A i \in Of("D") : options[i][2] = <<options[i][2][1], options[i][2][2]>>
  PROVE  root.dict = MeantDict
<1> DEFINE P(s, t) == IF \E i \in Of("D") : options[i][2][1] = s
                      THEN \E i \in Of("D") : options[i][2] = <<s, t>> ELSE t = NULL
<1>1. root.dict \in [Strings -> Strings \cup {NULL}]
  BY DEF RootType
<1>2. ASSUME NEW s \in Strings
      PROVE  (CHOOSE t \in Strings \cup {NULL} : P(s, t)) = root.dict[s]
  <2>1. root.dict[s] \in Strings \cup {NULL}
    BY <1>1
  <2>2. ASSUME NEW t \in Strings \cup {NULL}
        PROVE  P(s, t) <=> t = root.dict[s]
    <3>1. CASE \E i \in Of("D") : options[i][2][1] = s
      <4>1. PICK i \in Of("D") : options[i][2][1] = s
        BY <3>1
      <4>2. root.dict[s] = options[i][2][2]
        BY <4>1 DEF DictInv
      <4>3. \A j \in Of("D") : options[j][2] = <<s, t>> => j = i
        BY <4>1 DEF DictInv
      <4>4. options[i][2] = <<s, options[i][2][2]>>
        BY <4>1
      <4> QED
        BY <3>1, <4>2, <4>3, <4>4
    <3>2. CASE ~\E i \in Of("D") : options[i][2][1] = s
      <4>1. root.dict[s] = NULL
        BY <3>2 DEF DictInv
      <4> QED
        BY <3>2, <4>1
    <3> QED
      BY <3>1, <3>2
  <2> HIDE DEF P
  <2> QED
    BY <2>1, <2>2
<1>3. MeantDict = [s \in Strings |-> CHOOSE t \in Strings \cup {NULL} : P(s, t)]
  BY DEF MeantDict
<1> HIDE DEF P
<1>4. MeantDict = [s \in Strings |-> root.dict[s]]
  BY <1>2, <1>3
<1> QED
  BY <1>1, <1>4

(* The list of permissions is the arguments of the -P options in order.    *)
LEMMA PermissionsMeant ==
  ASSUME PermissionsInv, SeenOf("P") = Of("P"), root \in RootType
  PROVE  root.permissions = MeantPermissions
<1>1. /\ root.permissions \in Seq(Halves) /\ Len(root.permissions) = Cardinality(Of("P"))
      /\ DOMAIN root.permissions = 1 .. Cardinality(Of("P"))
  BY DEF RootType, PermissionsInv
<1>2. ASSUME NEW n \in 1 .. Cardinality(Of("P"))
      PROVE  options[CHOOSE i \in Of("P") : Rank(i) = n][2] = root.permissions[n]
  <2> DEFINE k == CHOOSE i \in Of("P") : Rank(i) = n
  <2>1. \E i \in Of("P") : Rank(i) = n
    BY <1>1, <1>2 DEF PermissionsInv
  <2>2. k \in Of("P") /\ Rank(k) = n
    BY <2>1, Zenon
  <2> HIDE DEF k
  <2>3. options[k][2] = root.permissions[n]
    BY <2>2 DEF PermissionsInv
  <2> QED
    BY <2>3 DEF k
<1>3. MeantPermissions = [n \in 1 .. Cardinality(Of("P")) |-> root.permissions[n]]
  BY <1>2, Zenon DEF MeantPermissions
<1>4. root.permissions = [n \in DOMAIN root.permissions |-> root.permissions[n]]
  BY <1>1
<1> QED
  BY <1>1, <1>3, <1>4

(* The name of a file is the only one that was given.                      *)
LEMMA FilenamesMeant ==
  ASSUME FilenamesInv, ~oom, \A o \in Files : SeenOf(o) = Of(o), root \in RootType
  PROVE  root.filename = [o \in Files |-> MeantFilename(o)]
<1>1. root.filename \in [Files -> Strings \cup {NULL}]
  BY DEF RootType
<1>2. ASSUME NEW o \in Files
      PROVE  MeantFilename(o) = root.filename[o]
  <2> DEFINE P(s) == IF Of(o) = {} THEN s = NULL ELSE \E i \in Of(o) : s = options[i][2]
  <2>1. root.filename[o] \in Strings \cup {NULL}
    BY <1>1
  <2>2. \A s : P(s) <=> s = root.filename[o]
    BY DEF FilenamesInv
  <2>3. MeantFilename(o) = CHOOSE s \in Strings \cup {NULL} : P(s)
    BY DEF MeantFilename
  <2> HIDE DEF P
  <2> QED
    BY <2>1, <2>2, <2>3
<1> QED
  BY <1>1, <1>2

(* Nothing is wrong with options that have all been taken.                 *)
LEMMA NothingWrong ==
  ASSUME TakenInv, ~oom, \A o : SeenOf(o) = Of(o), MeantCommand \in Commands,
         \A i \in Of("R") : options[i][2] \in Int,
         \A i \in Of("D") : options[i][2] = <<options[i][2][1], options[i][2][2]>>
  PROVE  ~Faulty
<1>1. \A o \in Files : \A i, j \in Of(o) : i = j
  BY DEF TakenInv, FilenamesInv
<1>2. \A i \in Of("R") : ~(options[i][2] <= 0)
  BY DEF TakenInv, RoundsInv
<1>3. \A i \in Of("D") : NULL \notin Range(options[i][2])
  <2>1. ASSUME NEW i \in Of("D")
        PROVE  NULL \notin Range(options[i][2])
    <3> DEFINE a == options[i][2][1]
               b == options[i][2][2]
    <3>1. a # NULL /\ b # NULL
      BY CommandLineAssumption DEF TakenInv, DictInv
    <3>2. options[i][2] = <<a, b>>
      OBVIOUS
    <3> HIDE DEF a, b
    <3>3. DOMAIN <<a, b>> = {1, 2} /\ <<a, b>>[1] = a /\ <<a, b>>[2] = b
      OBVIOUS
    <3>4. NULL \notin Range(<<a, b>>)
      BY <3>1, <3>3 DEF Range
    <3> QED
      BY <3>2, <3>4
  <2> QED
    BY <2>1
<1>4. \A i \in Of("P") : NULL \notin Range(options[i][2])
  BY DEF TakenInv, PermissionsInv
<1>5. \A i, j \in Of("D") : options[i][2][1] = options[j][2][1] => i = j
  BY DEF TakenInv, DictInv
<1> QED
  BY <1>1, <1>2, <1>3, <1>4, <1>5 DEF Faulty

(* What is true of the invariant is what the property says.                *)
LEMMA ExactFollows ==
  ASSUME CmdInv, ExactInv, seen \in 0 .. Len(options)
  PROVE  OptionsExact
<1>1. options \in Seq(Options) /\ Len(options) \in Nat /\ root \in RootType
  BY DEF ExactInv, CmdInv
<1>2. ASSUME opts_pc = "ready"
      PROVE  /\ cmd = <<MeantCommand, "root">>
             /\ root.help_requested = (Of("h") # {})
             /\ root.non_interactive = (Of("N") # {}) /\ root.verbose = (Of("v") # {})
             /\ root.key_derivation_rounds = MeantRounds
             /\ root.dict = MeantDict /\ root.permissions = MeantPermissions
             /\ ~oom => root.filename = [o \in Files |-> MeantFilename(o)]
             /\ ~oom => ~Faulty
  <2>1. /\ TakenInv /\ seen = Len(options) /\ cmd = <<MeantCommand, "root">>
        /\ MeantCommand \in Commands
    BY <1>2 DEF ExactInv
  <2>2. \A o : SeenOf(o) = Of(o)
    BY <1>1, <2>1, SeenAreGiven
  <2>3. /\ \A i \in Of("R") : options[i][2] \in Int
        /\ \A i \in Of("D") : options[i][2] = <<options[i][2][1], options[i][2][2]>>
    BY <1>1, ArgumentShapes
  <2>4. Of("R") \subseteq Nat
    BY <1>1, PositionsFinite
  <2>5. FlagsInv /\ RoundsInv /\ DictInv /\ PermissionsInv /\ FilenamesInv
    BY <2>1 DEF TakenInv
  <2>6. /\ root.help_requested = (Of("h") # {})
        /\ root.non_interactive = (Of("N") # {}) /\ root.verbose = (Of("v") # {})
    BY <2>2, <2>5 DEF FlagsInv
  <2>7. root.key_derivation_rounds = MeantRounds
    BY <2>2, <2>4, <2>5, RoundsMeant
  <2>8. root.dict = MeantDict /\ root.permissions = MeantPermissions
    BY <1>1, <2>2, <2>3, <2>5, DictMeant, PermissionsMeant
  <2>9. ~oom => root.filename = [o \in Files |-> MeantFilename(o)]
    BY <1>1, <2>2, <2>5, FilenamesMeant
  <2>10. ~oom => ~Faulty
    BY <2>1, <2>2, <2>3, NothingWrong
  <2> QED
    BY <2>1, <2>6, <2>7, <2>8, <2>9, <2>10
<1>3. opts_pc = "failed" /\ ~oom => Faulty
  BY DEF ExactInv
<1> QED
  BY <1>2, <1>3, Zenon DEF OptionsExact

(* The options are taken for what they say, whatever their number, their   *)
(* order and their repetitions, and refused only for a reason; without     *)
(* memory the name of a file is the only thing that may get lost.          *)
THEOREM OptionsAreExact == MainSpec => []OptionsExact
<1>1. MainInit => ExactInv
  BY ExactInitially
<1>2. MainInv /\ ExactInv /\ [MainNext]_mainVars => ExactInv'
  BY ExactStep
<1>3. MainInv /\ ExactInv => OptionsExact
  BY ExactFollows DEF MainInv, MainTypeOK
<1> QED
  BY <1>1, <1>2, <1>3, MainInvariant, PTL DEF MainSpec
=============================================================================
