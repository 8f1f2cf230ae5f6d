------------------------------ MODULE KeyTools ------------------------------
(***************************************************************************)
(* keygen and pubkey processes and programs outside vctool at work in one  *)
(* directory, in any interleaving of their calls.                          *)
(***************************************************************************)
EXTENDS Keygen, Pubkey

ASSUME ToolsAssumption == Procs = Keygens \cup Pubkeys /\ Keygens \cap Pubkeys = {}

toolVars == <<fileVars, genVars, pubVars>>

ToolsTypeOK == FilesTypeOK /\ KeygenTypeOK /\ PubkeyTypeOK

ToolsInit == FilesInit /\ KeygenInit /\ PubkeyInit

ToolsDone ==
  /\ \A p \in Keygens : gen_pc[p] = "done"
  /\ \A p \in Pubkeys : pub_pc[p] \in {"done", "crashed"}

ToolsNext ==
  \/ \E p \in Keygens : KeygenNext(p) /\ UNCHANGED pubVars
  \/ \E p \in Pubkeys : PubkeyNext(p) /\ UNCHANGED genVars
  \/ ~ToolsDone /\ Meddle /\ UNCHANGED <<genVars, pubVars>>
  \/ ToolsDone /\ UNCHANGED toolVars

ToolsSpec == ToolsInit /\ [][ToolsNext]_toolVars

-----------------------------------------------------------------------------
(* A command that returns success and prints no error has done its work:   *)
(* keygen has written its whole key pair, encrypted if a passphrase was    *)
(* given and there was memory, and pubkey a whole public certificate, of   *)
(* whatever key the file held when it was read; although the files may     *)
(* change between any two calls.                                           *)
SilentSuccess == KeygenSilentSuccess /\ PubkeySilentSuccess

(* The process that takes a step. *)
Moves(p) ==
  \/ p \in Keygens /\ gen_pc'[p] # gen_pc[p]
  \/ p \in Pubkeys /\ pub_pc'[p] # pub_pc[p]

(* No command ever clobbers a file: a command gives a file to a name only  *)
(* where there is none, and changes no contents but those of the file that *)
(* it created itself, although any number of processes and other programs  *)
(* may act between its file_stat and its file_open.                        *)
NoClobber ==
  [][meddled' = meddled =>
       /\ \A n \in Names : Exists(n) => directory'[n] = directory[n]
       /\ \A f \in FileIds : contents'[f] # contents[f] => f \in Procs /\ Moves(f)]_toolVars
=============================================================================
