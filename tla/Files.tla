------------------------------- MODULE Files -------------------------------
(***************************************************************************)
(* The file interface (file_stat, file_open, file_read, file_write) and    *)
(* the directory behind it, shared by every process that runs a command    *)
(* and by programs outside vctool.                                         *)
(*                                                                         *)
(* A run of a command creates at most one file, so the file is named after *)
(* the process that created it; Outsider names the file other programs put *)
(* into the directory.  Of a file's contents only this is kept: what kind  *)
(* of certificate they are, whose key pair it holds, and how much of it is *)
(* there, from 0 to WHOLE.                                                 *)
(***************************************************************************)
EXTENDS Naturals

CONSTANTS
  Names,        \* the file names in use
  Procs,        \* the processes that run a command
  Outsider,     \* the programs outside vctool
  NONE,         \* no file
  WHOLE,        \* the size of a complete certificate
  MaxMeddling   \* bound: what outside programs do to the directory

ASSUME ProcsAssumption == Outsider \notin Procs
ASSUME NoneAssumption == NONE \notin Procs \cup {Outsider}
ASSUME SizeAssumption == WHOLE \in Nat \ {0} /\ MaxMeddling \in Nat

VARIABLES
  directory,  \* the file each name stands for
  contents,   \* what each file holds
  mode,       \* permission bits: "owner" (S_IRUSR only), "shared" (any of the
              \* bad bits) or "unreadable"
  meddled     \* what outside programs have done so far

fileVars == <<directory, contents, mode, meddled>>

FileIds == Procs \cup {Outsider}
Kinds == {"empty", "plain", "encrypted", "public"}
Contents == [kind : Kinds, of : FileIds \cup {NONE}, size : 0 .. WHOLE]
Empty == [kind |-> "empty", of |-> NONE, size |-> 0]
Modes == {"owner", "shared", "unreadable"}

FilesTypeOK ==
  /\ directory \in [Names -> FileIds \cup {NONE}]
  /\ contents \in [FileIds -> Contents]
  /\ mode \in [FileIds -> Modes]
  /\ meddled \in 0 .. MaxMeddling

FilesInit ==
  /\ directory = [n \in Names |-> NONE]
  /\ contents = [f \in FileIds |-> Empty]
  /\ mode = [f \in FileIds |-> "owner"]
  /\ meddled = 0

Exists(n) == directory[n] # NONE

-----------------------------------------------------------------------------
(* What file_stat may return: the error codes other than NO_ENTRY are all  *)
(* treated alike by the commands.                                          *)
StatResults(n) == {IF Exists(n) THEN "SUCCESS" ELSE "NO_ENTRY", "FILE_ERROR"}

(* Mutant: without O_EXCL an existing file is opened and written over. *)
OpenNewNoExcl(p, n, result) ==
  /\ result = "SUCCESS"
  /\ directory' = IF Exists(n) THEN directory ELSE [directory EXCEPT ![n] = p]
  /\ contents' = [contents EXCEPT ![IF Exists(n) THEN directory[n] ELSE p] = Empty]
  /\ UNCHANGED <<mode, meddled>>

(* file_open with O_CREAT | O_EXCL | O_WRONLY and mode S_IRUSR. *)
OpenNew(p, n, result) ==
  \/ /\ result = "SUCCESS"
     /\ ~Exists(n)
     /\ directory' = [directory EXCEPT ![n] = p]
     /\ contents' = [contents EXCEPT ![p] = Empty]
     /\ mode' = [mode EXCEPT ![p] = "owner"]
     /\ UNCHANGED meddled
  \/ /\ result = "FILE_ERROR" \/ (result = "EXISTS" /\ Exists(n))
     /\ UNCHANGED fileVars

(* file_open with O_RDONLY. *)
OpenReadResults(n) ==
  {"FILE_ERROR"} \cup (IF Exists(n) THEN {"SUCCESS"} ELSE {"NO_ENTRY"})

(* file_write of a whole certificate: an error, or a prefix written. *)
Write(p, kind, of, result, wrote) ==
  /\ result \in {"SUCCESS", "FILE_ERROR"}
  /\ wrote \in 0 .. WHOLE
  /\ result = "FILE_ERROR" => wrote = 0
  /\ contents' = [contents EXCEPT ![p] =
                    IF wrote = 0 THEN @ ELSE [kind |-> kind, of |-> of, size |-> wrote]]
  /\ UNCHANGED <<directory, mode, meddled>>

(* file_read into a buffer of the given size: how much may be read. *)
ReadSizes(f, size) ==
  {n \in 0 .. size : n <= contents[f].size}

Prefix(c, size) == IF size = 0 THEN Empty ELSE [c EXCEPT !.size = size]

-----------------------------------------------------------------------------
(* Programs outside vctool, which the commands know nothing about. *)
PutFile(n, c) ==
  /\ ~Exists(n)
  /\ directory' = [directory EXCEPT ![n] = Outsider]
  /\ contents' = [contents EXCEPT ![Outsider] = c]
  /\ UNCHANGED mode

RemoveFile(n) ==
  /\ Exists(n)
  /\ directory' = [directory EXCEPT ![n] = NONE]
  /\ UNCHANGED <<contents, mode>>

Chmod(n, m) ==
  /\ Exists(n)
  /\ mode' = [mode EXCEPT ![directory[n]] = m]
  /\ UNCHANGED <<directory, contents>>

Meddle ==
  /\ meddled < MaxMeddling
  /\ meddled' = meddled + 1
  /\ \E n \in Names :
       \/ \E c \in {[kind |-> k, of |-> Outsider, size |-> WHOLE] :
                      k \in {"plain", "encrypted"}} : PutFile(n, c)
       \/ RemoveFile(n)
       \/ \E m \in Modes : Chmod(n, m)
=============================================================================
