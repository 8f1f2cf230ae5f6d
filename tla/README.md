# Verification of vctool

vctool is the command-line tool that creates key pair certificates (`keygen`),
extracts public certificates from them (`pubkey`) and endorses public
certificates with permissions that a config file describes (`endorse`).  This
directory holds TLA+ models of it, the TLC runs that check them and TLAPS proofs
about them.  Paths below are relative to `src/` of the repository's copy, that
is `src/lib/...` is `src/src/lib/...` in `PROJECT.json`.

## 1. Inventory

The program is one process with one thread.  What is concurrent about it is
outside: signals that arrive while a passphrase is read, other processes (other
vctools among them) that work in the same directory between two of its system
calls, and a user who types.  What is hard inside are object graphs that share
and count references, fixpoint passes whose course depends on names, long
chains of calls each of which may fail, and functions whose status comes from
an earlier call than the one that failed.

| component | state | operations | interacts with | hard | correct when |
|---|---|---|---|---|---|
| main (`vctool/main.c`) | suite, allocators, file layer, options | init, parse, execute, cleanup | everything | cleanup after each failure | what was set up is torn down once |
| command line (`commandline/`, `command/root/`) | command stack, option values, `-D` dictionary, `-P` list | the getopt loop, dispatch, `root_dict_add`, `root_permission_add` | all commands read it | options in any order and number, failures midway | each option takes effect once or is refused |
| help (`command/help/`) | none | print | command line | nothing | - |
| file interface (`lib/file/`) | the OS's directory and files | stat, open, read, write, close | keygen, pubkey, endorse | other processes; short reads and writes | nothing existing is clobbered |
| readpassword (`lib/readpassword/`) | terminal attributes, 32 signal handlers, a flag, a buffer | save, install, set, read loop, restore | terminal, signals; keygen, pubkey, endorse call it | a signal between any two statements, with a handler or without; failing tcsetattr; hang-up; end of file in line mode | terminal and handlers are given back, the passphrase is what was typed |
| keygen (`command/keygen/`) | passphrases, certificates, one output file | stat, read passphrase twice, create, encrypt, open, write | file, readpassword, certificates | the file system changes between calls; partial failure | success means a whole key file; a protected key never in the clear |
| pubkey (`command/pubkey/`) | the key file's size and bytes, one output file | stat twice, open, read, decrypt, extract, open, write | the same | the key file changes between stat and read | success means a whole public certificate |
| certificates (`certificate/`, `lib/certificate/`, `lib/crypt/`) | up to nine resources at once, a buffer filled by offsets | create, encrypt, decrypt | keygen, pubkey, endorse | long ladders of labels; sizes and offsets; MAC before decryption | a file opens just when it and the passphrase are what it was sealed with; each resource is released once |
| config parser (`lib/endorse/endorse.y`, `endorse.l`) | parser stack, blocks, config and its count | rules of the grammar, merges | config context | any file; a failing helper ends the parse "successfully" | the config is what the file says, or an intact part |
| config context (`lib/endorse/endorse_config_*`) | root of the config, list of messages, a hooked-in release | create, set_error, val_callback, lookups, release | parser, analyzer | ownership of root and messages; creation that fails midway | messages can be looked up, everything is given back |
| config analyzer (`lib/endorse/endorse_analyze.c`) | heap of entities, roles, verbs and role_verbs with counts | passes over the roles | config context | order of names, loops, shared objects | verbs are inherited, every fault is reported, it ends |
| config release (`lib/endorse/endorse.y`) | the same heap | one release function per type | context | order in which trees are taken apart | each object freed once |
| endorse command (`command/endorse/`) | ten resources, uuid dictionary, working set | thirteen calls, cleanup labels | all of the above | any call may fail; a short read is a success | endorsements are those asked for; nothing leaks |
| backup header (`lib/backup/`) | an output file | writes | file | short writes | a whole header |

rcpr (red-black trees, lists, resources, allocators), vccrypt, vccert, vpr,
getopt and the OS are outside the repository; they are modelled by how the code
uses them (marked external in `PROJECT.json`).

The files of the endorse command under `command/endorse/` are 22 routines;
`endorse_command_func` calls thirteen of them, the others are called by these.

## 2. Modules

```
EndorseAst            syntax trees of configs and what they mean
  EndorseContract     what endorse_analyze promises (abstract)
  EndorseAnalyze      endorse_analyze (detailed), implements EndorseContract
    EndorseRelease    analysis, then release of the config
    EndorseAnalyzeProofs   theorems about EndorseAnalyze
      EndorseReleaseProofs theorems about the reference counts
  EndorseParse        the Bison parser
    EndorseContext    the context around a parse
      EndorseParseProofs   theorems about both
  EndorseCommand      the endorse command around them
    EndorseCommandProofs   theorems about it
Ladder                a routine as a table of calls and labels
  EndorseRoutines     the tables of the routines of the endorse command
    Records           the tables of certificates, their encryption, the backup
                      header; what they write and read
      RecordsProofs   theorems about every table
CommandLine           the option loop, -D, -P, the choice of the command
  Main                main around it
    MainProofs        theorems about both
ReadPassword          readpassword with signals and a terminal
  ReadPasswordProofs  theorems about it
Files                 the directory and the file interface
  Keygen, Pubkey      the two commands, any number of processes
    KeyTools          their composition with other programs
      KeyToolsProofs  theorems about any number of them
MC*                   the instances that TLC checks
```

**EndorseAst** translates the config's data: entities (with `id_declared`),
verbs, roles, the extended role's name and the verbs of a role's block.  Names
are numbers, which stand for their rank under `strcmp`, because the order of
names decides the order of every walk over a tree.  The module also says what a
config means: `Lineage` (a role with what it extends, as the least set closed
under `extends`), `VerbsOf` (inherited verbs), `Acyclic` and `WellFormed`.
This is the reference against which the passes are checked, stated without
them and without recursion.

**EndorseAnalyze** has one action for each way through the loops of
`endorse_analyze.c`: `VisitEntity`, `SkipCompleteRole`, `DeferRole`,
`CompleteRole` (with the calls of `endorse_analyze_entity_role_verbs` and
`endorse_analyze_entity_copy_extended_role_verbs`), `CircularLoop`, `NextPass`,
`EntityDone`, `Return`.  `role_verbs` maps a verb's name in a role's tree to the
role whose block created the object, because copies share the object;
`linked` holds the objects whose `verb` pointer is set, `refs` every
`reference_count`.  An insert into a tree allocates a node, so that any copy of a
verb may fail (`copied` is what was copied); the role is complete nevertheless.

**EndorseContract** has no passes: `Settle` gives one role its verbs after the
role it extends, or some of them when memory is short; `Finish` returns success just for a
well formed config whose roles have all their verbs.
`EndorseAnalyze!Implements` is `Contract!Spec` under the mapping `status <-
Status`, `settled <- type_complete`, `held <- HeldVerbs`.

**EndorseRelease** adds the nested calls of the release functions as a stack of
trees still to release, the innermost last (`Push`, `Pop`); within a tree any object may
be next, since the order in which rcpr frees the nodes of a tree is its own.

**EndorseParse** reads declarations one after the other, any of them next (a
file is unchecked input), builds the open block and merges it when it is
closed.  `Fail` is `CONFIG_ERROR` followed by `YYACCEPT` in `MAYBE_ASSIGN`;
`Accept` is what that does to the config's reference count.  The code does not look at
what `strdup` returns; `AddRole` may lose the extends clause of a role, which the history
`forgotten` keeps for the properties to speak about.  The history
`read` is what the tokens declared, and `Meaning(read)` what config they
describe.

**EndorseContext** puts a parse inside the life of its context: the three
allocations of `endorse_config_create_default`, the wrapper that is hooked into
the context's release (`hooked`), the messages that `set_error` appends or drops for
want of memory, the root that `val_callback` takes over, the lookup of a
message by its index, with the loop counter that the code leaves behind, and the
release.  A lost name of an object (`NoName`) makes the later use of it undefined; the model goes to
`"crashed"`.

**EndorseCommand** takes one step per call of `endorse_command_func`, and one
per turn of the loops of `endorse_build_uuid_dictionary` and
`endorse_build_working_set`.  `resource` records which out parameters are live;
`FailLabel` is the label a failure goes to.  The parser is reduced to what
EndorseParse's runs show of it (the whole config, or a part with its roles
whole, and in both any extends clauses lost), the analyzer to its contract.  The certificate
that is written has the endorsements of the input certificate, up to a field that cannot be
parsed (`CopiedFields`), and the working set; other programs may create a file of its name first.

**Ladder** is the shape of most of the program's functions: calls that acquire
resources, a goto after each that fails, and labels that release what has been
acquired and fall through.  A routine is a value, a *table*: its calls in order,
each with the resources it acquires, its possible outcomes and its label; its
labels in order; the label of success and what is left to the caller.  `Step`,
`Release` and `Crash` run any table: a goto is a jump to the label, a release may fail where the code
looks at its status, a release of what is not held is recorded in `misreleased`, a call
that fails without a change of `retval` (a `malloc` that is not followed by an
assignment) has the outcome `"unnoticed"`.  **EndorseRoutines** has the tables
of the endorse command's routines, **Records** those of
`keypair_certificate_create`, `pubkey_certificate_create`, `certificate_encrypt`,
`certificate_decrypt`, `crypt_cipher_mac_init_from_password` and
`backup_file_encryption_header_write`.  A table is far shorter than its function
and keeps all of its control.

**Records** also follows the bytes.  A record is a sequence of bytes that know
where they come from; keys, MACs and ciphertext are terms.
`certificate_encrypt` writes its fields one after the other and feeds the MAC;
the file is then kept, cut, lengthened, spliced with another or changed in one
byte (`Damage`); `certificate_decrypt` takes it apart by its own arithmetic on sizes, under
any passphrase.

**CommandLine** has one action per turn of the getopt loop: a flag, the name of a
file (`-k`, `-i`, `-o`, `-E`, refused the second time), `-R` with what `atoi` makes of
it, `-D` and `-P` with their split at `=` and `:`, a `?`.  `heap` names every
block of memory that the command line allocates, so that each failed allocation
and the disposal can be followed.  **Main** adds the calls of `main` before and
after, `up` the parts that are set up, and the low byte of the status that
the parent process sees.

**ReadPassword** takes one step per statement that reads or changes shared
state.  A handler runs to its end before the function goes on, so it is one
step, which may come between any two others while the signal's handler is
installed; a signal without handler and with a fatal disposition ends the
process, which for one that readpassword never handles (above 32, not in `Handled`) may be at any
statement.  The terminal, typing, Ctrl-D in line mode and hanging up are external.

**Files** keeps a directory, the contents of files as kind, owner and size, and
permission bits; `file_write` may write a prefix, `file_read` returns what is
there.  **Keygen** and **Pubkey** take one step per call that can fail, with
`gen_retval`/`pub_retval` the status each call leaves: several ways out return
the status of an earlier call.  **KeyTools** interleaves them and lets other
programs create, remove and chmod files.

## 3. Runs

| run | states | what it shows |
|---|---|---|
| `endorse_config` | 453 721 | every config of one entity with every `extends` graph on three roles (and to a missing role) and every verb list, and of two entities, any copy of a verb failing for want of memory: verdict, inheritance, NULL pointers, messages, finality, the contract; then every order of taking the trees apart frees every object once, and it ends |
| `read_password` | 2 673 363 | terminal and handlers given back, echo off, exact passphrase, signals abort, it ends; but for a signal without a handler and a Ctrl-D after a signal |
| `read_password_eof` | violation | a signal before the flag's reset is forgotten, and then Ctrl-D doubles a character of a passphrase that is returned with success |
| `key_tools` | 2 977 728 | two keygens, a pubkey and other programs: no clobbering, silent success is right |
| `keygen_passphrase` | violation | without memory for its result `certificate_encrypt` is a success, and keygen writes the key in the clear |
| `endorse_parse` | 2 581 021 | files of up to five different declarations, memory failing anywhere: silent parses exact and partial ones intact but for lost extends clauses, the context gives everything back, no lookup leaves the list |
| `endorse_messages` | violation | no message can be looked up |
| `endorse_command` | 1 662 737 | every call failing: nothing leaks, nothing written for a bad config or permission, no other program's file replaced, silent success exact |
| `endorse_pubkey_id` | violation | a short read takes over the id of another entity |
| `endorse_released` | violation | the cleanup releases a pointer that was never set, or a disposed buffer |
| `command_line` | 5 503 742 | any three options in any order, memory failing anywhere: understood or refused as they should be, every block freed, owners outlive what they own, no error of vctool has the exit status of success |
| `records` | 37 910 | every routine balanced whatever fails; sizes agree with what is written; a file opens just when it and the passphrase are what it was sealed with |

The runs marked violation each check one sentence of the source's own
comments, quoted in `PROJECT.json` under `findings`, and TLC finds it broken.
The other properties hold.

### Success that is not one

Many functions of this program can return success although they failed: a
refused permission bit, a short read or write, mismatched passphrases, a `malloc`
after which `retval` is not assigned, a key file without read permission
(`endorse_get_key_file` then returns success with its pointer unset), a parse
that ends at `YYACCEPT`.  The properties say what can be relied on
nevertheless: a success *without any message* is exact
(`SilentSuccess`, `SilentEndorseExact`, `SilentParseExact`), with two exceptions that these
properties name: an extends clause that is lost because `new_role` does not look at what `strdup`
returns (`endorse.y`:1161, `forgotten` in the models), and what follows a field of the input certificate that
cannot be parsed, which `endorse_emit_public_certificate_fields.c`:89 takes for the end of the
certificate (`CopiedFields`).  The premise is not
idle: each of these ways out is an action of the model, and the mutants
of these properties remove a message or a check.  The use of a pointer that was never
set is a step to `"crashed"`; only in EndorseCommand, where the calls that use it
are one step each, may any of their outcomes follow instead.

### Bounds, and why they are enough

- Analyzer and release: three roles suffice for chains of length two, for loops of length
  one to three, for roles that hang on a loop, for siblings that share a base,
  and for each order of names against each order of inheritance; a second
  entity shows that nothing carries over between turns of the outer loop (the
  flags, `last_incomplete_type`, the error of an earlier entity).  The release's stack is as
  deep as the inheritance.  The theorems below hold for any names and configs.
- ReadPassword: two signals with handlers, one of them fatal, and a fatal one without; two
  arrivals are enough for one to
  undo the effect of another, and for one in each phase.  A buffer of three
  (`PASSWORD_MAX`, 4096 in the code) with three characters typed before Enter reaches the
  bound from below and at it; the loop ends there, so a fourth is never read.  `MaxTyped`, `MaxSignals` bound user and kernel.
- KeyTools: two keygens race for a name, one of them can produce the file that
  pubkey reads; `WHOLE` = 2 makes a truncated certificate; `MaxMeddling` = 1
  interference by others, at any point.
- EndorseParse: `MaxRead` = 5 different declarations, enough for an entity with two
  roles in two blocks that repeat or extend each other; repeated declarations
  do not count against the bound.  Messages are lost independently of each other.
- EndorseCommand: two entities, two `-P` options (`MaxPermissions`), a name that is
  a role, a verb or both; configs with inheritance, an undeclared entity and an
  undefined verb; an input certificate with an endorsement that can be parsed to its end or not.
- CommandLine: `MaxOptions` = 3 of eighteen options: an option, its repetition or its
  contradiction, and one more before, between or after; `-R` with a number that is not
  one (0) and with two that are.
- Records: certificates of 0 to 3 bytes and fields of 1 and 2, so that a file has 12
  to 15 bytes; each length below and one above are tried, each byte is changed, each cut is
  spliced with another file.  Off-by-one errors of an offset or a size move a
  boundary by one byte and show at these sizes as at the real ones.  Lengths are
  natural numbers: the one subtraction that could wrap (`certificate_decrypt.c`:122)
  comes after the check that excludes it, which `SizesAgree` is about.

### Fairness

`RelFairSpec` assumes weak fairness of the whole
next-state relation: sequential code in a process that the OS schedules.
`ReadPassword!FairSpec` assumes it of the function's own steps and of the Enter
key (`Type(NL)`): a user who walks away lets `read()` block forever, as it should.
No fairness is assumed of signals or of hanging up.  The other
specifications have no liveness properties and assume none.

Deadlock is checked in every run: each model has one explicit final step
for the states in which the program has ended.

## 4. Proofs

Eight modules hold theorems that TLAPS proves for every value of the constants.  In
each the argument is the same: an inductive invariant is stated as a conjunction of named
parts (TLC has checked each on the instance of the run before it was proved), every
action keeps every part, and the properties follow from the invariant.  No
theorem has a bound on sizes: any names, configs, options, processes, signals,
certificates; the bounds of the runs (`MaxSignals`, `MaxTyped`, `MaxOptions`,
`MaxPermissions`, `MaxMeddling`, `MaxRead`) are constants that may have any value.

| module | theorem | statement |
|---|---|---|
| `EndorseAnalyzeProofs` | `TypeCorrect` | `Spec => []TypeOK` |
| | `Inductive` | `Spec => []IInv` |
| | `VerdictCorrect` | `Spec => []Verdict` |
| | `InheritanceCorrect` | `Spec => []InheritedVerbs` |
| | `NoNullVerb` | `Spec => []NoNullVerbOnSuccess` |
| | `FaultsAreReported` | `Spec => []EveryFaultReported` |
| | `CompleteStaysFinal` | `Spec => CompleteIsFinal` |
| | `ImplementsContract` | `Spec => Implements` |
| `EndorseReleaseProofs` | `ReleaseInvariant` | `RelSpec => []RelInv` |
| | `ReleaseTypeCorrect` | `RelSpec => []RelTypeOK` |
| | `NoUseAfterFree` | `RelSpec => []NoReleaseAfterFree` |
| | `NothingLeaksEver` | `RelSpec => []NothingLeaks` |
| `EndorseCommandProofs` | `CommandInvariant` | `CmdSpec => []IInv` |
| | `CommandTypeCorrect` | `CmdSpec => []CmdTypeOK` |
| | `ResourcesAreReleased` | `CmdSpec => []EverythingReleased` |
| | `AllAreGrantedOrNone` | `CmdSpec => []AllOrNothing` |
| | `SilenceMeansExactness` | `CmdSpec => []SilentEndorseExact` |
| | `OthersAreRespected` | `CmdSpec => OthersFileStays` |
| `KeyToolsProofs` | `ToolsInvariant` | `ToolsSpec => []ToolsInv` |
| | `ToolsTypeCorrect` | `ToolsSpec => []ToolsTypeOK` |
| | `SilenceMeansSuccess` | `ToolsSpec => []SilentSuccess` |
| | `NothingIsClobbered` | `ToolsSpec => NoClobber` |
| `ReadPasswordProofs` | `ReadPasswordInv` | `Spec => []IInv` |
| | `ReadPasswordTypeCorrect` | `Spec => []TypeOK` |
| | `TerminalIsGivenBack` | `Spec => []TerminalGivenBack` |
| | `ReadsWithEchoOff` | `Spec => []EchoOff` |
| | `ReturnsWhatWasTyped` | `Spec => []PasswordExact` |
| | `SignalMakesItFail` | `Spec => []SignalAborts` |
| `MainProofs` | `MainInvariant` | `MainSpec => []MainInv` |
| | `MainTypeCorrect` | `MainSpec => []MainTypeOK` |
| | `BlocksAreFreed` | `MainSpec => []EveryBlockFreed` |
| | `OwnersComeFirst` | `MainSpec => []OwnersOutlive` |
| | `ParentIsToldTheTruth` | `MainSpec => []ExitTellsSuccess` |
| | `OptionsAreExact` | `MainSpec => []OptionsExact` |
| `RecordsProofs` | `TablesAreDisciplined` | `RecordsSpec => []Disciplined(body)` |
| | `RecordsBalanced` | `RecordsSpec => []Balanced` |
| | `RecordsTypeCorrect` | `RecordsSpec => []RecordsTypeOK` |
| | `SizesAlwaysAgree` | `RecordsSpec => []SizesAgree` |
| | `OnlyTheSealedOpens` | `RecordsSpec => []OpensWhatWasSealed` |
| | `HeadersOpen` | `RecordsSpec => []HeaderOpens` |
| `EndorseParseProofs` | `ParseInvariant` | `CtxSpec => [](ParseInv /\ CtxInv)` |
| | `ContextTypeCorrect` | `CtxSpec => []ContextTypeOK` |
| | `SilentParseIsExact` | `CtxSpec => []SilentParseExact` |
| | `NothingElseIsInConfig` | `CtxSpec => []OnlyWhatWasRead` |
| | `ContextIsGivenBack` | `CtxSpec => []ContextGivenBack` |
| | `LookupsAreSafe` | `CtxSpec => []LookupSafe` |
| | `MergedIsNeverLost` | `CtxSpec => MergedStays` |

### The analyzer

Assumptions: names are natural numbers (ranks), `NULL` is no name of a role,
and `Configs` are syntax trees.

`Verdict` is not inductive: at the return nothing in `fail`
alone tells why it is set.  `IInv` therefore adds

- the heap: an incomplete role's tree is as the parser left it and its
  `extends_role` is NULL; a complete role holds verbs of its lineage as
  objects of its lineage, all of them unless a copy failed and was reported, linked where the entity has the verb, and the role it
  extends is complete;
- the pass: a role the pass has been at is complete, or was put off with an incomplete base
  and `incomplete_types_found` set; a pass that completed nothing therefore
  leaves a set of roles each of which extends one of the set, which is what
  `~Acyclic` says;
- soundness so far: `fail` is clear only if every entity and role dealt with so
  far is as `WellFormed` asks and has all its verbs, and set only if one is not or has not;
- the status at the end.

That a role completed after its base holds verbs of `VerbsOf`, and all of them if its base does and
nothing is lost, follows from one lemma
(`LineageOfHeir`): the lineage of a role is the role and the lineage of its
base.  The lineage is defined as an intersection of closed sets and not by recursion,
so that it can be reasoned about without induction over data.

`FaultsAreReported` needs two more parts: `MessagesInv`, that the messages so far are
the faults of the entities visited and of the roles completed, and `CircularInv`,
that in an entity that is done with the incomplete roles all extend incomplete
ones (`Stuck`) and one of them has been named.  `CompletableIsComplete` closes the gap to
the property: of a stuck entity, the roles completed are those whose lineage
does not run into a loop.

### The release

One more assumption, `FiniteAssumption`: the objects of a config are finitely many, so
that pointers can be counted (a file is finite).  `Counted` says that each
`reference_count` is the number of pointers to the object: one from the config
to an entity, one for each live object whose fields point to it (`Users`),
and one for each place on the release's stack where it waits (`Waits`).  `PointersInv` says what the
fields of objects look like, `FreedInv` that an object is reclaimed when its
count is 0.  An object that waits thus has a positive count, so it is not freed yet: `NoUseAfterFree`.
At the end nothing waits; that nothing is left then is `NoRoleCycle`: since no
set of roles extends itself in a circle (`extends_role` of a role in a loop stays NULL), what
is left would have to be held by roles without end.

### The endorse command

Assumptions: those of EndorseAst, verbs have ids, and `NONE` is not one
(`UuidsAssumption`), and the input certificates are certificates (`InputCertsAssumption`).  `Control` says which resources
are held at each of the thirteen calls and that each label releases just what was acquired
before its goto.  `Data` follows the data: as long as there was no message, the
dictionary has the ids of the `-D` options visited (`DictInv`), and the working
set together with what the `-P` options that are left grant is what all of
them grant (`SetInv`).  `AllOrNothing` and `SilentEndorseExact` read the end of this
(`ResultInv`).  The analyzer is its contract here, which `ImplementsContract` proves of it.

### Keygen and pubkey

Assumptions: keygens, pubkeys and the program outside are different processes, `NONE`
is none of them, and a whole certificate has a size (`ToolsAssumption`,
`ProcsAssumption`, `NoneAssumption`, `SizeAssumption`).  `ToolsInv` has a
part for each process that speaks of its own variables and its own file
(`GenLocal`, `PubLocal`), and `FilesInv`, that contents are genuine.  The
interference is in one formula, `Polite`: a step of one process changes no name that
stands for a file and no file but its own.  From it each process keeps its part while the others
move, and `NoClobber` follows.

### readpassword

Assumptions: `PASSWORD_MAX` is positive, the fatal signals and those that get a handler are signals
(nothing relates the two), and a character
of a passphrase is neither Enter nor the initial value of `ch`.  `ProgressInv` ties the installed handlers and `retval` to the statement,
`TermInv` says where the terminal must be raw and where it must not, `SignalInv` that a
signal after the setup leaves the flag or an error behind, and `BufferInv`
that the buffer is the line typed so far, with the stale `ch` after a failed `read` as a case of its own,
unless a handler ran in raw mode and a Ctrl-D was read.

### main and the command line

Assumptions: `CommandLineAssumption`, `LibraryErrorsAssumption` (the status of a
failure in a library is a positive number; its low byte may be 0, which `ExitTellsSuccess`
names as the one case in which a failure looks like success).  `StageInv`
ties the stage of main to that of the options, `HeapInv` says that the heap
holds what the commands on the stack and the root own, and besides only copies of split arguments,
`UpInv` that the parts that are up are the first few, `RetvalInv` that `retval` is
0 just as long as nothing failed.

`OptionsExact` compares the end of the loop with the whole list of options; its
invariant `ExactInv` says the same of the options seen so far (`SeenOf`): the last
`-R` counts (`RoundsInv`), the dictionary has the entries of the `-D` options and
no key twice (`DictInv`), each `-P` stands at its place among those of its
kind (`PermissionsInv`), and unless memory was short each file name is the
only one of its kind (`FilenamesInv`).  A refusal without a lack of memory
has its reason in the option at hand and one seen before.  The assumption that
`NULL`, the word that is not there, is no command is needed here only.

### The parser and its context

Assumptions: names are natural numbers, `NULL` is no name of a role, and `MaxRead`
is a natural number; the file may be of any length.

`SilentParseExact` is not inductive, since it speaks only of the end.  Its invariant keeps the
books while the parser reads.  What is in the open block or in the config was
read (`SoundInv`), and as long as there was no error what was read is in one of
them (`CompleteInv`).  Each role there has the verbs that were read, and the `extends` or, if it is in
`forgotten`, none, unless a name was repeated (`RolesInv`).  As long as there was no error, a name is
repeated just when it will keep the open block from being merged (`ClashInv`):
a duplicate is noticed by the merge and not before, so this is what makes a silent
end mean that there was none.  `MessagesInv` says that the first error ends the
parse, and that a duplicate is reported only if there is one; `CountInv` is the config's
reference count.  A merge, be it whole or ended halfway by a helper that fails, is one
formula, `PartMerged`: the config gets some of the block's objects.  `MergedStays`
and `OnlyWhatWasRead` need no more than this of it.

Of the context, `LiveInv` says what is allocated at each step and whether the
release of the user context is hooked in, `ListInv` that the list has only messages that were
set, and only while it is allocated, `RootInv` that the config is counted for as long as it is the
context's root, and that only a failed merge leaves it with the count of the stack.

### Routines

`Disciplined` says how a table has to be written: each failure goes to the label
from which exactly what was acquired before is released, success to the one from
which all but the results is.  That a disciplined table is `Balanced`, whichever of
its calls and releases fail, is the invariant `LadderInv`: what is held at each
call and at each label; `MarksInv` adds the range of the marks.  That each of the program's tables is disciplined is
proved table by table: its calls are shown to climb the labels one by one (`Climb`, `ClimbOn`), and
`ClimbIsDisciplined` concludes for tables of any length.  The table of
`endorse_emit_public_certificate_fields` grows with the certificate; it is built
with a recursive function and needs an induction, for which `SetInduction` serves: the
library's induction theorems take a predicate, this one takes the set of numbers for which it holds.

### What the records contain

Assumptions: keys, ivs and MACs have a positive size, and a certificate is a sequence
(`RecordsAssumption`, `CertsAssumption`); sizes, certificates and passphrases are otherwise any.
A routine follows a script (`Script`): what is in the record and what the MAC has been given
after each number of calls.  `Meant` says what the script has to come to: a sealed
certificate, the certificate that was sealed, a header.  `ContentsInv` has three parts:

- `ScriptInv`: there is such a script, and the routine is at some place of it that fits
  the call it is at; after a success it is at the end;
- `RefusedInv`: if it was a check that ended the routine, the table has a check that fails for
  this file and this passphrase;
- `FileInv`: the file that is decrypted was sealed by `certificate_encrypt` and then damaged,
  and the table of `certificate_decrypt` is the one for this file.

`SizesAgree` then is arithmetic, table by table (`FillsItsRecord`), and for
`certificate_decrypt` a question of the length that its first check lets
through.  For `OpensWhatWasSealed` it has to be shown that a file
that is opened is one that was sealed.  The damages are too many to be compared one by
one; the argument goes by the last byte (`LastByteTells`).  A byte of a MAC
is a term that names its key and all that the MAC was computed of.  The last byte of a file whose
MAC matches is such a byte, so it is neither noise nor a byte of what comes before a MAC;
it is the last of a sealed file, and the key and the bytes
it names are those of that file (`OnlySealedMatches`).  For `HeaderOpens`,
`HeaderTells` takes a whole header apart by its offsets.
Terms are ideal: two of them are equal only when they are made of the same
parts.  What is proved is thus about the use that the code makes of
vccrypt, the order and the extent of what it authenticates and checks, and
nothing about the strength of the algorithms.

### Only model-checked

- Liveness (`EventuallyReleased`, `Ends`): the prover handles neither `ENABLED` nor
  fairness.

## 5. Not modelled

- The scanner (`endorse.l`): tokens are taken as given, but for the copies of identifiers that
  find no memory.  What a parse does after an object has lost its name is undefined and not followed
  (if no other name is compared with it, the parse may go on); EndorseCommand leaves such a parse out,
  since nothing has been written before it.
- The ids of verbs in EndorseParse, and strings and emptied trees that the
  parser leaks on success, as the `-D` and `-P` split leaks its copy when it
  fails: no property is about them.
- The subject of an endorsement.  It is the artifact id of the input certificate, or what was on the
  stack when none is found before the first field that cannot be parsed.
- The fields of certificates other than their number and order; the algorithms of
  vccrypt, vccert and rcpr; getopt's treatment of `argv`; the text of the help.
- `file_lseek` and `file_fsync`, which no command uses, and the result of
  `close` in keygen and pubkey, which ignore it.
- The `MODEL_ASSERT` macros, which a bounded model checker of C uses and a build leaves out.
- In ReadPassword, signals that cannot be caught, which for the terminal are like those without a
  handler, and a Ctrl-D typed ahead, before line mode is turned off, which a driver may still deliver.
- Crashes and restarts of the tool itself: it persists only the files it writes once,
  and reads none of them back to resume.  A file cut off by a crash is one of the
  truncated files of KeyTools and Records.

## 6. Plan

Written, in this order: EndorseAst, EndorseAnalyze, EndorseContract,
EndorseRelease, the proofs, ReadPassword, Files, Keygen, Pubkey, KeyTools,
EndorseParse, EndorseCommand, CommandLine, Main, Ladder, Records,
EndorseRoutines, RecordsProofs, EndorseContext, ReadPasswordProofs, KeyToolsProofs,
EndorseReleaseProofs, MainProofs, EndorseCommandProofs, EndorseParseProofs; and in
RecordsProofs the discipline of each table and what the records contain.

Left: see "Only model-checked" above.
