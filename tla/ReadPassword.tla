---------------------------- MODULE ReadPassword ----------------------------
(***************************************************************************)
(* readpassword: reading a passphrase from the terminal with echo off,     *)
(* while signals may arrive between any two of its steps.                  *)
(*                                                                         *)
(* The function saves the terminal attributes, installs a handler for the  *)
(* signals 1 to 32, turns off echo and line editing, reads one character   *)
(* at a time until Enter, and gives terminal and handlers back.  The       *)
(* handler restores the attributes and sets exit_loop_error.  A handler    *)
(* runs to its end before the function goes on, so it is one step here.    *)
(*                                                                         *)
(* While a handler has the terminal back in line mode, the user's Ctrl-D   *)
(* hands out what was typed, or, when all of that was read, an end of      *)
(* file; without line mode it is a character like any other.  A Ctrl-D     *)
(* typed ahead, before the function turns line mode off, is not modelled.  *)
(***************************************************************************)
EXTENDS Naturals, Sequences

CONSTANTS
  Signals,       \* the numbers of the signals
  Handled,       \* those from 1 to 32 for which sigaction installs a handler
  Fatal,         \* those whose saved disposition ends the process
  Chars,         \* the characters a passphrase may have
  NUL, NL,       \* the initial value of ch; the character of the Enter key
  PASSWORD_MAX,  \* password_max
  MaxSignals,    \* bound: signals that arrive
  MaxTyped       \* bound: characters typed before Enter

ASSUME SignalsAssumption ==
  Signals \subseteq Nat /\ Handled \subseteq Signals /\ Fatal \subseteq Signals
ASSUME CharsAssumption == NL \notin Chars /\ NUL \notin Chars /\ NUL # NL
ASSUME BoundsAssumption ==
  PASSWORD_MAX \in Nat \ {0} /\ MaxSignals \in Nat /\ MaxTyped \in Nat

VARIABLES
  pc,               \* the next statement of readpassword
  todo,             \* signals the loop over the handlers has yet to reach
  retval,
  ch,
  password_buffer,  \* its first password_offset characters
  passbuffer,       \* the caller's buffer
  exit_loop_error,
  term,             \* attributes of the terminal: "saved" or "raw"
  installed,        \* signals with readpassword's handler
  typed,            \* what the user has typed
  consumed,         \* how many of these read() has returned
  pushed,           \* how many of these a Ctrl-D has handed out in line mode
  eof,              \* a read() is to return 0 once those are read
  eof_read,         \* history: a read() has returned 0 for a Ctrl-D
  hungup,           \* the terminal was hung up
  caught,           \* history: the statements at which the handler ran
  restore_failed,   \* history: a tcsetattr with the saved attributes failed
  arrived           \* signals that have arrived

program == <<todo, retval, ch, password_buffer, passbuffer>>
terminal == <<typed, consumed, pushed, eof, eof_read, hungup>>
signals == <<installed, caught, arrived>>
vars == <<pc, program, exit_loop_error, term, restore_failed, terminal, signals>>

Setup == {"install", "set", "malloc", "undo", "reset"}
Reading == {"loop", "read", "blocked", "append"}
Status == {"SUCCESS", "NOT_A_TERMINAL", "TCSETATTR", "OUT_OF_MEMORY", "READ"}

(* Where the terminal is still as the caller had it. *)
BeforeRaw == {"start", "install", "set"}

Statements == {"start", "restore", "uninstall", "verdict", "copy"} \cup Setup \cup Reading

TypeOK ==
  /\ pc \in Statements \cup {"done", "killed", "unhandled"}
  /\ todo \in SUBSET Handled
  /\ retval \in Status
  /\ ch \in Chars \cup {NUL, NL}
  /\ password_buffer \in Seq(Chars \cup {NUL})
  /\ Len(password_buffer) <= PASSWORD_MAX
  /\ passbuffer \in Seq(Chars \cup {NUL})
  /\ exit_loop_error \in BOOLEAN
  /\ term \in {"saved", "raw"}
  /\ installed \in SUBSET Handled
  /\ typed \in Seq(Chars \cup {NL})
  /\ consumed \in 0 .. Len(typed)
  /\ pushed \in 0 .. Len(typed)
  /\ {eof, eof_read} \subseteq BOOLEAN
  /\ hungup \in BOOLEAN
  /\ caught \in SUBSET Statements
  /\ restore_failed \in BOOLEAN
  /\ arrived \in 0 .. MaxSignals

Init ==
  /\ pc = "start"
  /\ todo = {}
  /\ retval = "SUCCESS"
  /\ ch = NUL
  /\ password_buffer = <<>>
  /\ passbuffer = <<>>
  /\ exit_loop_error \in BOOLEAN   \* left over from an earlier call
  /\ term = "saved"
  /\ installed = {}
  /\ typed = <<>>
  /\ consumed = 0
  /\ pushed = 0
  /\ eof = FALSE
  /\ eof_read = FALSE
  /\ hungup = FALSE
  /\ caught = {}
  /\ restore_failed = FALSE
  /\ arrived = 0

-----------------------------------------------------------------------------
(* tcgetattr, which fails when standard input is not a terminal. *)
GetTermAttrs ==
  /\ pc = "start"
  /\ \/ /\ pc' = "install" /\ todo' = Handled
        /\ UNCHANGED retval
     \/ /\ pc' = "done" /\ retval' = "NOT_A_TERMINAL"
        /\ UNCHANGED todo
  /\ UNCHANGED <<ch, password_buffer, passbuffer, exit_loop_error, term,
                 restore_failed, terminal, signals>>

(* An iteration of a loop over the signals, in the order of their numbers. *)
NextSignal(s) == s \in todo /\ \A t \in todo : s <= t

InstallHandler(s) ==
  /\ pc = "install"
  /\ NextSignal(s)
  /\ todo' = todo \ {s}
  /\ installed' = installed \cup {s}
  /\ UNCHANGED <<pc, retval, ch, password_buffer, passbuffer, exit_loop_error,
                 term, restore_failed, terminal, caught, arrived>>

HandlersInstalled ==
  /\ pc = "install"
  /\ todo = {}
  /\ pc' = "set"
  /\ UNCHANGED <<program, exit_loop_error, term, restore_failed, terminal, signals>>

(* Mutant: the result of tcsetattr is not looked at. *)
SetTermAttrsUnchecked ==
  /\ pc = "set"
  /\ term' \in {"raw", "saved"}
  /\ pc' = "malloc"
  /\ UNCHANGED <<program, exit_loop_error, restore_failed, terminal, signals>>

(* readpassword_set_termattrs; when it fails the handlers are removed. *)
SetTermAttrs ==
  /\ pc = "set"
  /\ \/ /\ term' = "raw" /\ pc' = "malloc"
        /\ UNCHANGED <<todo, retval>>
     \/ /\ pc' = "uninstall" /\ todo' = Handled /\ retval' = "TCSETATTR"
        /\ UNCHANGED term
  /\ UNCHANGED <<ch, password_buffer, passbuffer, exit_loop_error,
                 restore_failed, terminal, signals>>

Malloc ==
  /\ pc = "malloc"
  /\ \/ pc' = "reset" /\ UNCHANGED retval
     \/ pc' = "undo" /\ retval' = "OUT_OF_MEMORY"
  /\ UNCHANGED <<todo, ch, password_buffer, passbuffer, exit_loop_error, term,
                 restore_failed, terminal, signals>>

(* tcsetattr with the saved attributes, which may fail. *)
RestoreTermAttrs(ok) ==
  /\ term' = IF ok THEN "saved" ELSE term
  /\ restore_failed' = (restore_failed \/ ~ok)

(* Out of memory: the terminal is restored, with the result ignored. *)
UndoTermAttrs ==
  /\ pc = "undo"
  /\ \E ok \in BOOLEAN : RestoreTermAttrs(ok)
  /\ pc' = "uninstall" /\ todo' = Handled
  /\ UNCHANGED <<retval, ch, password_buffer, passbuffer, exit_loop_error,
                 terminal, signals>>

ResetFlag ==
  /\ pc = "reset"
  /\ exit_loop_error' = FALSE
  /\ pc' = "loop"
  /\ UNCHANGED <<program, term, restore_failed, terminal, signals>>

-----------------------------------------------------------------------------
(* Mutant: the loop tests only the flag. *)
LoopEndsFlagOnly == exit_loop_error

LoopEnds == exit_loop_error \/ ch = NL

LoopTest ==
  /\ pc = "loop"
  /\ pc' = IF LoopEnds THEN "restore" ELSE "read"
  /\ UNCHANGED <<program, exit_loop_error, term, restore_failed, terminal, signals>>

(* The call of read(), until then not a place where a signal interrupts it.*)
EnterRead ==
  /\ pc = "read"
  /\ pc' = "blocked"
  /\ UNCHANGED <<program, exit_loop_error, term, restore_failed, terminal, signals>>

AtEndOfFile == eof /\ consumed = pushed

(* In line mode the terminal hands out a line when it is complete, or cut  *)
(* off by Ctrl-D.                                                          *)
Readable ==
  /\ consumed < Len(typed) /\ ~AtEndOfFile
  /\ term = "saved" =>
       consumed < pushed \/ \E i \in consumed + 1 .. Len(typed) : typed[i] = NL

ReadChar ==
  /\ pc = "blocked"
  /\ Readable
  /\ ch' = typed[consumed + 1]
  /\ consumed' = consumed + 1
  /\ pc' = "append"
  /\ UNCHANGED <<todo, retval, password_buffer, passbuffer, exit_loop_error,
                 term, restore_failed, typed, pushed, eof, eof_read, hungup, signals>>

(* After a Ctrl-D the terminal gives an end of file once, after a hang-up  *)
(* each time.                                                              *)
EndsInput ==
  \/ AtEndOfFile /\ eof' = FALSE /\ eof_read' = TRUE
  \/ ~Readable /\ hungup /\ UNCHANGED <<eof, eof_read>>

(* Mutant: end of file is taken for the end of the passphrase. *)
ReadEofEnds ==
  /\ pc = "blocked"
  /\ EndsInput
  /\ ch' = NL
  /\ pc' = "append"
  /\ UNCHANGED <<todo, retval, password_buffer, passbuffer, exit_loop_error,
                 term, restore_failed, typed, consumed, pushed, hungup, signals>>

(* read() returns 0: ch keeps its value, and is appended once more. *)
ReadEof ==
  /\ pc = "blocked"
  /\ EndsInput
  /\ pc' = "append"
  /\ UNCHANGED <<program, exit_loop_error, term, restore_failed, typed, consumed,
                 pushed, hungup, signals>>

(* read() fails on a terminal that was hung up. *)
ReadError ==
  /\ pc = "blocked"
  /\ hungup
  /\ exit_loop_error' = TRUE
  /\ pc' = "append"
  /\ UNCHANGED <<program, term, restore_failed, terminal, signals>>

(* Mutant: the buffer is taken to be full one character too late. *)
AppendOffByOne ==
  /\ pc = "append"
  /\ pc' = "loop"
  /\ password_buffer' = IF ch = NL THEN password_buffer ELSE Append(password_buffer, ch)
  /\ exit_loop_error' = (exit_loop_error \/ Len(password_buffer') > PASSWORD_MAX)
  /\ UNCHANGED <<todo, retval, ch, passbuffer, term, restore_failed, terminal, signals>>

AppendChar ==
  /\ pc = "append"
  /\ pc' = "loop"
  /\ password_buffer' = IF ch = NL THEN password_buffer ELSE Append(password_buffer, ch)
  /\ exit_loop_error' = (exit_loop_error \/
                           (ch # NL /\ Len(password_buffer') >= PASSWORD_MAX))
  /\ UNCHANGED <<todo, retval, ch, passbuffer, term, restore_failed, terminal, signals>>

-----------------------------------------------------------------------------
(* Mutant: the handlers are removed while the terminal is still raw. *)
RestoreLast ==
  /\ pc = "restore"
  /\ pc' = "uninstall" /\ todo' = Handled
  /\ UNCHANGED <<retval, ch, password_buffer, passbuffer, exit_loop_error,
                 term, restore_failed, terminal, signals>>

Restore ==
  /\ pc = "restore"
  /\ \E ok \in BOOLEAN :
       /\ RestoreTermAttrs(ok)
       /\ retval' = IF ok THEN "SUCCESS" ELSE "TCSETATTR"
  /\ pc' = "uninstall" /\ todo' = Handled
  /\ UNCHANGED <<ch, password_buffer, passbuffer, exit_loop_error, terminal, signals>>

UninstallHandler(s) ==
  /\ pc = "uninstall"
  /\ NextSignal(s)
  /\ todo' = todo \ {s}
  /\ installed' = installed \ {s}
  /\ UNCHANGED <<pc, retval, ch, password_buffer, passbuffer, exit_loop_error,
                 term, restore_failed, terminal, caught, arrived>>

(* An error met before goes to the caller; otherwise the flag is looked at.*)
HandlersRestored ==
  /\ pc = "uninstall"
  /\ todo = {}
  /\ pc' = IF retval = "SUCCESS" THEN "verdict" ELSE "done"
  /\ UNCHANGED <<program, exit_loop_error, term, restore_failed, terminal, signals>>

(* Mutant: the flag is not looked at after the loop. *)
VerdictIgnoresFlag ==
  /\ pc = "verdict"
  /\ pc' = "copy"
  /\ UNCHANGED <<program, exit_loop_error, term, restore_failed, terminal, signals>>

Verdict ==
  /\ pc = "verdict"
  /\ IF exit_loop_error THEN pc' = "done" /\ retval' = "READ"
                        ELSE pc' = "copy" /\ UNCHANGED retval
  /\ UNCHANGED <<todo, ch, password_buffer, passbuffer, exit_loop_error, term,
                 restore_failed, terminal, signals>>

(* vccrypt_buffer_init and memcpy. *)
CopyPassword ==
  /\ pc = "copy"
  /\ \/ passbuffer' = password_buffer /\ UNCHANGED retval
     \/ retval' = "OUT_OF_MEMORY" /\ UNCHANGED passbuffer
  /\ pc' = "done"
  /\ UNCHANGED <<todo, ch, password_buffer, exit_loop_error, term,
                 restore_failed, terminal, signals>>

-----------------------------------------------------------------------------
(* The user. *)
Running == pc \notin {"done", "killed", "unhandled"}

Type(c) ==
  /\ Running /\ ~hungup
  /\ \A i \in DOMAIN typed : typed[i] # NL
  /\ c # NL => Len(typed) < MaxTyped
  /\ typed' = Append(typed, c)
  /\ UNCHANGED <<pc, program, exit_loop_error, term, restore_failed, consumed,
                 pushed, eof, eof_read, hungup, signals>>

(* Ctrl-D in line mode, at most one of which is unread.                    *)
EndOfFile ==
  /\ Running /\ pc \notin BeforeRaw /\ ~hungup
  /\ term = "saved" /\ ~eof
  /\ \A i \in DOMAIN typed : typed[i] # NL
  /\ pushed' = Len(typed)
  /\ eof' = (Len(typed) \in {consumed, pushed})
  /\ UNCHANGED <<pc, program, exit_loop_error, term, restore_failed, typed,
                 consumed, eof_read, hungup, signals>>

HangUp ==
  /\ Running /\ ~hungup
  /\ hungup' = TRUE
  /\ UNCHANGED <<pc, program, exit_loop_error, term, restore_failed, typed,
                 consumed, pushed, eof, eof_read, signals>>

(* readpassword_sig_handler. *)
Handler ==
  /\ exit_loop_error' = TRUE
  /\ \E ok \in BOOLEAN : RestoreTermAttrs(ok)

(* A read() that is waiting for input fails when a handler has run. *)
CatchSignal(s) ==
  /\ Running
  /\ arrived < MaxSignals
  /\ s \in installed
  /\ Handler
  /\ caught' = caught \cup {pc}
  /\ pc' = IF pc = "blocked" /\ ~Readable /\ ~AtEndOfFile THEN "append" ELSE pc
  /\ arrived' = arrived + 1
  /\ UNCHANGED <<program, terminal, installed>>

(* A signal whose saved disposition is in force, as it always is for one   *)
(* that readpassword has no handler for; one that is not fatal is ignored. *)
FatalSignal(s) ==
  /\ Running
  /\ arrived < MaxSignals
  /\ s \in Fatal \ installed
  /\ pc' = IF s \in Handled THEN "killed" ELSE "unhandled"
  /\ arrived' = arrived + 1
  /\ UNCHANGED <<program, exit_loop_error, term, restore_failed, terminal,
                 installed, caught>>

-----------------------------------------------------------------------------
Program ==
  \/ GetTermAttrs
  \/ \E s \in Handled : InstallHandler(s) \/ UninstallHandler(s)
  \/ HandlersInstalled \/ SetTermAttrs \/ Malloc \/ UndoTermAttrs \/ ResetFlag
  \/ LoopTest \/ EnterRead \/ ReadChar \/ ReadEof \/ ReadError \/ AppendChar
  \/ Restore \/ HandlersRestored \/ Verdict \/ CopyPassword

Ended == ~Running /\ UNCHANGED vars

Next ==
  \/ Program
  \/ \E c \in Chars \cup {NL} : Type(c)
  \/ EndOfFile \/ HangUp
  \/ \E s \in Signals : CatchSignal(s) \/ FatalSignal(s)
  \/ Ended

Spec == Init /\ [][Next]_vars

(* The process is scheduled, and the user presses Enter sooner or later,   *)
(* unless the terminal is hung up.  No signal need ever arrive.            *)
FairSpec == Spec /\ WF_vars(Program) /\ WF_vars(Type(NL))

-----------------------------------------------------------------------------
Finished == ~Running

(* However readpassword ends, by any return path or killed by one of the   *)
(* signals it handles, the terminal has its attributes back, unless        *)
(* tcsetattr failed; it never claims success with the echo still off, and  *)
(* every return path gives back the signal handlers.  (A fatal signal that *)
(* it does not handle, one above 32, may leave the terminal raw.)          *)
TerminalGivenBack ==
  /\ Finished /\ pc # "unhandled" => term = "saved" \/ restore_failed
  /\ pc = "done" /\ retval = "SUCCESS" => term = "saved"
  /\ pc = "done" => installed = {}

(* The passphrase is read with the echo off, unless a handler ran after it *)
(* was turned off: one that ran while it was being turned off has not left *)
(* it on.                                                                  *)
EchoOff == pc \in Reading /\ caught \subseteq BeforeRaw => term = "raw"

(* On success the caller gets what was typed before Enter, every character *)
(* once and in order, whatever stale value ch has after a failed read;     *)
(* otherwise a handler has run after the echo was turned off, and a Ctrl-D *)
(* was read.  It always gets less than a full buffer.                      *)
PasswordExact ==
  pc = "done" /\ retval = "SUCCESS" =>
    /\ consumed > 0
    /\ eof_read \/ typed = Append(passbuffer, NL)
    /\ eof_read => ~(caught \subseteq BeforeRaw)
    /\ Len(passbuffer) < PASSWORD_MAX

(* A signal caught once the loop has begun makes readpassword fail.        *)
SignalAborts ==
  pc = "done" /\ caught \ Setup # {} => retval # "SUCCESS"

(* The header readpassword.h: on success passbuffer holds "the password /  *)
(* passphrase that has been read".                                         *)
PasswordAsTyped ==
  pc = "done" /\ retval = "SUCCESS" => typed = Append(passbuffer, NL)

(* readpassword comes to an end when the user presses Enter or hangs up.   *)
Ends == <>Finished
=============================================================================
