------------------------- MODULE ReadPasswordProofs -------------------------
(***************************************************************************)
(* That readpassword gives terminal and handlers back, returns what was    *)
(* typed but for the ends of file it reads after a handler ran, and fails  *)
(* after a signal in its loop: for any signals, handled or not, any        *)
(* characters, buffer size, and number of signals that arrive.             *)
(***************************************************************************)
EXTENDS ReadPassword, SequenceTheorems, TLAPS

(* Statements at which the terminal has been set raw by this call.  *)
RawStatements == {"malloc", "undo", "reset", "restore"} \cup Reading

(* The statement tells which handlers are installed, and what retval is.   *)
ProgressInv ==
  /\ pc \in {"start", "verdict", "copy", "done"} => installed = {}
  /\ pc = "install" => installed = Handled \ todo
  /\ pc \in {"set"} \cup RawStatements => installed = Handled
  /\ pc = "uninstall" => installed = todo
  /\ pc \in {"start", "install", "set", "malloc", "reset", "restore", "verdict", "copy"} \cup Reading
       => retval = "SUCCESS"
  /\ pc = "undo" => retval = "OUT_OF_MEMORY"

(* Where the terminal may be raw, and where it must be; only in line mode  *)
(* can the user have typed an end of file.                                 *)
TermInv ==
  /\ pc \notin RawStatements \cup {"unhandled"} => term = "saved" \/ restore_failed
  /\ pc \in BeforeRaw => term = "saved" /\ ~eof
  /\ pc \in {"uninstall", "verdict", "copy", "done"} /\ retval = "SUCCESS" => term = "saved"
  /\ pc \in RawStatements /\ caught \subseteq BeforeRaw => term = "raw" /\ ~eof
  /\ eof_read => ~(caught \subseteq BeforeRaw)

(* From the loop on, a signal leaves the flag set or an error behind.      *)
SignalInv ==
  /\ pc \in {"start"} \cup Setup => caught \subseteq Setup
  /\ pc \in {"restore", "uninstall", "verdict"} \cup Reading =>
       caught \subseteq Setup \/ exit_loop_error \/ retval # "SUCCESS"
  /\ pc \in {"copy", "done"} => caught \subseteq Setup \/ retval # "SUCCESS"

(* The first n characters typed are in the buffer, and nothing else.       *)
Buffered(n) ==
  /\ n \in 0 .. Len(typed)
  /\ Len(password_buffer) = n
  /\ \A i \in 1 .. n : password_buffer[i] = typed[i]

(* Everything up to the Enter key was read, and is in the buffer unless an *)
(* end of file was read as well.                                           *)
LineRead ==
  /\ ch = NL
  /\ consumed > 0
  /\ eof_read \/ (typed[consumed] = NL /\ Buffered(consumed - 1))

(* An end of file has been read, or the terminal has nothing more to give  *)
(* and the loop goes round until the buffer is full.                       *)
AtEof == ch # NL /\ (eof_read \/ (hungup /\ ~Readable))

(* What the buffer holds while no error has been noticed. *)
BufferInv ==
  /\ \A i \in DOMAIN typed : typed[i] = NL => i = Len(typed)
  /\ pc \in {"start"} \cup Setup =>
       password_buffer = <<>> /\ consumed = 0 /\ ch = NUL
  /\ pc \in {"read", "blocked"} => ch # NL
  /\ pc \in {"read", "blocked", "append"} => Len(password_buffer) < PASSWORD_MAX
  /\ ~exit_loop_error =>
       /\ pc \in Reading => Len(password_buffer) < PASSWORD_MAX
       /\ pc = "loop" => LineRead \/ (ch # NL /\ Buffered(consumed)) \/ AtEof
       /\ pc \in {"read", "blocked"} => Buffered(consumed) \/ AtEof
       /\ pc = "append" =>
            \/ LineRead \/ AtEof
            \/ consumed > 0 /\ ch = typed[consumed] /\ ch # NL /\ Buffered(consumed - 1)
       /\ pc \in {"restore", "uninstall", "verdict"} /\ retval = "SUCCESS" =>
            LineRead /\ Len(password_buffer) < PASSWORD_MAX
  /\ pc = "copy" => LineRead /\ Len(password_buffer) < PASSWORD_MAX
  /\ pc = "done" /\ retval = "SUCCESS" => PasswordExact

IInv == TypeOK /\ ProgressInv /\ TermInv /\ SignalInv /\ BufferInv

-----------------------------------------------------------------------------
(* The actions of the program, the user and the kernel, one by one: what   *)
(* every invariant below is checked against.                               *)
LEMMA NextCases ==
  ASSUME [Next]_vars, NEW P,
         GetTermAttrs => P,
         \A s \in Handled : InstallHandler(s) \/ UninstallHandler(s) => P,
         HandlersInstalled => P, SetTermAttrs => P, Malloc => P, UndoTermAttrs => P,
         ResetFlag => P, LoopTest => P, EnterRead => P, ReadChar => P, ReadEof => P,
         ReadError => P, AppendChar => P, Restore => P, HandlersRestored => P,
         Verdict => P, CopyPassword => P,
         \A c \in Chars \cup {NL} : Type(c) => P,
         EndOfFile => P, HangUp => P,
         \A s \in Signals : CatchSignal(s) \/ FatalSignal(s) => P,
         UNCHANGED vars => P
  PROVE  P
BY DEF Next, Program, Ended

(* readpassword starts with every variable in its type.                    *)
LEMMA InitType == Init => TypeOK
<1>1. \A S : <<>> \in Seq(S) /\ Len(<<>>) = 0
  BY EmptySeq
<1>2. 0 <= PASSWORD_MAX /\ 0 \in 0 .. MaxSignals /\ 0 \in 0 .. 0
  BY BoundsAssumption
<1> QED
  BY <1>1, <1>2 DEF Init, TypeOK, Statements, BeforeRaw, Setup, Reading, Status

(* No step leaves the types; that the buffer has room for the character    *)
(* read before the end of the loop tests it is what BufferInv is for.      *)
LEMMA NextType == TypeOK /\ ProgressInv /\ BufferInv /\ [Next]_vars => TypeOK'
<1> SUFFICES ASSUME TypeOK, ProgressInv, BufferInv, [Next]_vars PROVE TypeOK'
  OBVIOUS
<1> USE DEF TypeOK, Statements, BeforeRaw, Setup, Reading, Status, vars, program, terminal, signals
<1>1. CASE GetTermAttrs
  BY <1>1 DEF GetTermAttrs
<1>2. ASSUME NEW s \in Handled, InstallHandler(s) \/ UninstallHandler(s)
      PROVE  TypeOK'
  BY <1>2 DEF InstallHandler, UninstallHandler
<1>3. CASE HandlersInstalled \/ SetTermAttrs \/ Malloc
  BY <1>3 DEF HandlersInstalled, SetTermAttrs, Malloc
<1>4. CASE UndoTermAttrs \/ ResetFlag \/ LoopTest
  BY <1>4 DEF UndoTermAttrs, ResetFlag, LoopTest, RestoreTermAttrs
<1>5. CASE ReadChar
  <2>1. typed[consumed + 1] \in Chars \cup {NL} /\ consumed + 1 \in 0 .. Len(typed)
    BY <1>5, ElementOfSeq DEF ReadChar, Readable
  <2> QED
    BY <1>5, <2>1 DEF ReadChar
<1>6. CASE EnterRead \/ ReadEof \/ ReadError
  BY <1>6 DEF EnterRead, ReadEof, EndsInput, ReadError
<1>7. CASE AppendChar
  <2>1. Len(password_buffer) < PASSWORD_MAX
    BY <1>7 DEF AppendChar, BufferInv
  <2>2. CASE ch = NL
    BY <1>7, <2>2 DEF AppendChar
  <2>3. CASE ch # NL
    <3>1. password_buffer' = Append(password_buffer, ch) /\ ch \in Chars \cup {NUL}
      BY <1>7, <2>3 DEF AppendChar
    <3>2. /\ password_buffer' \in Seq(Chars \cup {NUL})
          /\ Len(password_buffer') = Len(password_buffer) + 1
      BY <3>1, AppendProperties
    <3> QED
      BY <1>7, <2>1, <3>2, LenProperties, BoundsAssumption DEF AppendChar
  <2> QED
    BY <2>2, <2>3
<1>8. CASE Restore \/ HandlersRestored \/ Verdict \/ CopyPassword
  BY <1>8 DEF Restore, HandlersRestored, Verdict, CopyPassword, RestoreTermAttrs
<1>9. ASSUME NEW c \in Chars \cup {NL}, Type(c)
      PROVE  TypeOK'
  <2>1. typed' \in Seq(Chars \cup {NL}) /\ Len(typed') = Len(typed) + 1
    BY <1>9, AppendProperties DEF Type
  <2> QED
    BY <1>9, <2>1, LenProperties DEF Type
<1>10. CASE EndOfFile
  <2>1. pushed' \in 0 .. Len(typed) /\ eof' \in BOOLEAN
    BY <1>10, LenProperties DEF EndOfFile
  <2> QED
    BY <1>10, <2>1 DEF EndOfFile
<1>14. CASE HangUp
  BY <1>14 DEF HangUp
<1>11. ASSUME NEW s \in Signals, CatchSignal(s)
       PROVE  TypeOK'
  BY <1>11, BoundsAssumption DEF CatchSignal, Handler, RestoreTermAttrs, Running
<1>12. ASSUME NEW s \in Signals, FatalSignal(s)
       PROVE  TypeOK'
  BY <1>12, BoundsAssumption DEF FatalSignal, Running
<1>13. CASE UNCHANGED vars
  BY <1>13
<1> QED
  BY <1>1, <1>2, <1>3, <1>4, <1>5, <1>6, <1>7, <1>8, <1>9, <1>10, <1>11, <1>12, <1>13, <1>14, NextCases

(* The loops over the handlers install and remove them all, and each       *)
(* return path has set retval.                                             *)
LEMMA NextProgress == TypeOK /\ ProgressInv /\ [Next]_vars => ProgressInv'
<1> SUFFICES ASSUME TypeOK, ProgressInv, [Next]_vars PROVE ProgressInv'
  OBVIOUS
<1> USE DEF TypeOK, ProgressInv, RawStatements, Statements, BeforeRaw, Setup, Reading, Status, vars,
            program, terminal, signals
<1>1. CASE GetTermAttrs
  BY <1>1 DEF GetTermAttrs
<1>2. ASSUME NEW s \in Handled, InstallHandler(s) \/ UninstallHandler(s)
      PROVE  ProgressInv'
  BY <1>2 DEF InstallHandler, UninstallHandler, NextSignal
<1>3. CASE HandlersInstalled \/ SetTermAttrs \/ Malloc
  BY <1>3 DEF HandlersInstalled, SetTermAttrs, Malloc
<1>4. CASE UndoTermAttrs \/ ResetFlag \/ LoopTest
  BY <1>4 DEF UndoTermAttrs, ResetFlag, LoopTest
<1>5. CASE EnterRead \/ ReadChar \/ ReadEof \/ ReadError \/ AppendChar
  BY <1>5 DEF EnterRead, ReadChar, ReadEof, EndsInput, ReadError, AppendChar
<1>6. CASE Restore \/ HandlersRestored \/ Verdict \/ CopyPassword
  BY <1>6 DEF Restore, HandlersRestored, Verdict, CopyPassword
<1>7. ASSUME NEW c \in Chars \cup {NL}, Type(c)
      PROVE  ProgressInv'
  BY <1>7 DEF Type
<1>8. CASE EndOfFile \/ HangUp
  BY <1>8 DEF EndOfFile, HangUp
<1>9. ASSUME NEW s \in Signals, CatchSignal(s) \/ FatalSignal(s)
      PROVE  ProgressInv'
  BY <1>9 DEF CatchSignal, FatalSignal
<1>10. CASE UNCHANGED vars
  BY <1>10
<1> QED
  BY <1>1, <1>2, <1>3, <1>4, <1>5, <1>6, <1>7, <1>8, <1>9, <1>10, NextCases

(* The terminal is raw only between the two tcsetattr of readpassword,     *)
(* whether the handler or the function itself restores it.                 *)
LEMMA NextTerm == TypeOK /\ ProgressInv /\ TermInv /\ [Next]_vars => TermInv'
<1> SUFFICES ASSUME TypeOK, ProgressInv, TermInv, [Next]_vars PROVE TermInv'
  OBVIOUS
<1> USE DEF TypeOK, ProgressInv, TermInv, RawStatements, Statements, BeforeRaw, Setup, Reading, Status,
            vars, program, terminal, signals
<1>1. CASE GetTermAttrs
  BY <1>1 DEF GetTermAttrs
<1>2. ASSUME NEW s \in Handled, InstallHandler(s) \/ UninstallHandler(s)
      PROVE  TermInv'
  BY <1>2 DEF InstallHandler, UninstallHandler
<1>3. CASE HandlersInstalled \/ Malloc
  BY <1>3 DEF HandlersInstalled, Malloc
<1>4. CASE SetTermAttrs
  BY <1>4 DEF SetTermAttrs
<1>5. CASE UndoTermAttrs
  BY <1>5 DEF UndoTermAttrs, RestoreTermAttrs
<1>14. CASE Restore
  BY <1>14 DEF Restore, RestoreTermAttrs
<1>6. CASE ResetFlag \/ LoopTest
  BY <1>6 DEF ResetFlag, LoopTest
<1>7. CASE EnterRead \/ ReadChar \/ ReadEof \/ ReadError \/ AppendChar
  BY <1>7 DEF EnterRead, ReadChar, ReadEof, EndsInput, AtEndOfFile, ReadError, AppendChar
<1>8. CASE HandlersRestored \/ Verdict \/ CopyPassword
  BY <1>8 DEF HandlersRestored, Verdict, CopyPassword
<1>9. ASSUME NEW c \in Chars \cup {NL}, Type(c)
      PROVE  TermInv'
  BY <1>9 DEF Type
<1>10. CASE EndOfFile \/ HangUp
  BY <1>10 DEF EndOfFile, HangUp
<1>11. ASSUME NEW s \in Signals, CatchSignal(s)
       PROVE  TermInv'
  BY <1>11 DEF CatchSignal, Handler, RestoreTermAttrs, Running
<1>12. ASSUME NEW s \in Signals, FatalSignal(s)
       PROVE  TermInv'
  BY <1>12 DEF FatalSignal, Running
<1>13. CASE UNCHANGED vars
  BY <1>13
<1> QED
  BY <1>1, <1>2, <1>3, <1>4, <1>5, <1>6, <1>7, <1>8, <1>9, <1>10, <1>11, <1>12, <1>13, <1>14, NextCases

(* A handler that ran since the flag was reset leaves the flag set until   *)
(* it is looked at, and no handler is left to run after that.              *)
LEMMA NextSignalInv == TypeOK /\ ProgressInv /\ SignalInv /\ [Next]_vars => SignalInv'
<1> SUFFICES ASSUME TypeOK, ProgressInv, SignalInv, [Next]_vars PROVE SignalInv'
  OBVIOUS
<1> USE DEF TypeOK, ProgressInv, SignalInv, RawStatements, Statements, BeforeRaw, Setup, Reading, Status,
            vars, program, terminal, signals
<1>1. CASE GetTermAttrs
  BY <1>1 DEF GetTermAttrs
<1>2. ASSUME NEW s \in Handled, InstallHandler(s) \/ UninstallHandler(s)
      PROVE  SignalInv'
  BY <1>2 DEF InstallHandler, UninstallHandler
<1>3. CASE HandlersInstalled \/ SetTermAttrs \/ Malloc
  BY <1>3 DEF HandlersInstalled, SetTermAttrs, Malloc
<1>4. CASE UndoTermAttrs \/ ResetFlag \/ LoopTest
  BY <1>4 DEF UndoTermAttrs, ResetFlag, LoopTest
<1>5. CASE EnterRead \/ ReadChar \/ ReadEof \/ ReadError \/ AppendChar
  BY <1>5 DEF EnterRead, ReadChar, ReadEof, EndsInput, ReadError, AppendChar
<1>6. CASE Restore
  BY <1>6 DEF Restore
<1>7. CASE HandlersRestored \/ Verdict \/ CopyPassword
  BY <1>7 DEF HandlersRestored, Verdict, CopyPassword
<1>8. ASSUME NEW c \in Chars \cup {NL}, Type(c)
      PROVE  SignalInv'
  BY <1>8 DEF Type
<1>9. CASE EndOfFile \/ HangUp
  BY <1>9 DEF EndOfFile, HangUp
<1>10. ASSUME NEW s \in Signals, CatchSignal(s)
       PROVE  SignalInv'
  BY <1>10 DEF CatchSignal, Handler, Running
<1>11. ASSUME NEW s \in Signals, FatalSignal(s)
       PROVE  SignalInv'
  BY <1>11 DEF FatalSignal, Running
<1>12. CASE UNCHANGED vars
  BY <1>12
<1> QED
  BY <1>1, <1>2, <1>3, <1>4, <1>5, <1>6, <1>7, <1>8, <1>9, <1>10, <1>11, <1>12, NextCases

(* The buffer holds what has been read, unless the flag is set or the loop *)
(* goes round at the end of the input, which ends only when it is full.    *)
LEMMA NextBuffer ==
  TypeOK /\ ProgressInv /\ TermInv /\ BufferInv /\ [Next]_vars => BufferInv'
<1> SUFFICES ASSUME TypeOK, ProgressInv, TermInv, BufferInv, [Next]_vars PROVE BufferInv'
  OBVIOUS
<1> USE DEF Statements, BeforeRaw, Setup, Reading, Status, RawStatements
<1>1. CASE GetTermAttrs
  BY <1>1 DEF GetTermAttrs, TypeOK, BufferInv, PasswordExact, terminal
<1>2. ASSUME NEW s \in Handled, InstallHandler(s) \/ UninstallHandler(s)
      PROVE  BufferInv'
  BY <1>2 DEF InstallHandler, UninstallHandler, BufferInv, LineRead, Buffered, terminal
<1>3. CASE HandlersInstalled \/ SetTermAttrs \/ Malloc
  BY <1>3 DEF HandlersInstalled, SetTermAttrs, Malloc, BufferInv, terminal, program
<1>4. CASE UndoTermAttrs
  BY <1>4 DEF UndoTermAttrs, BufferInv, ProgressInv, terminal
<1>5. CASE ResetFlag
  BY <1>5, BoundsAssumption, CharsAssumption, EmptySeq
     DEF ResetFlag, TypeOK, BufferInv, Buffered, terminal, program
<1>6. CASE LoopTest
  BY <1>6 DEF LoopTest, LoopEnds, TypeOK, BufferInv, LineRead, Buffered, AtEof, Readable,
              AtEndOfFile, ProgressInv, terminal, program
<1>7. CASE EnterRead
  BY <1>7 DEF EnterRead, BufferInv, Buffered, AtEof, Readable, AtEndOfFile, terminal,
             program
<1>8. CASE ReadChar
  <2>1. consumed' - 1 = consumed /\ consumed' > 0 /\ ch' = typed'[consumed']
    BY <1>8 DEF ReadChar, TypeOK
  <2>2. Buffered(consumed) => Buffered(consumed - 1)'
    BY <1>8, <2>1 DEF ReadChar, Buffered
  <2> QED
    BY <1>8, <2>1, <2>2 DEF ReadChar, BufferInv, LineRead, AtEof
<1>9. CASE ReadEof
  <2>1. ch # NL /\ AtEof'
    BY <1>9 DEF ReadEof, EndsInput, BufferInv, AtEof, AtEndOfFile, Readable, program
  <2> QED
    BY <1>9, <2>1 DEF ReadEof, BufferInv, program
<1>10. CASE ReadError
  BY <1>10 DEF ReadError, BufferInv, terminal, program
<1>11. CASE AppendChar /\ ch = NL
  BY <1>11 DEF AppendChar, BufferInv, LineRead, Buffered, AtEof, terminal
<1>12. CASE AppendChar /\ ch # NL
  <2>1. /\ Len(password_buffer') = Len(password_buffer) + 1
        /\ \A i \in 1 .. Len(password_buffer) : password_buffer'[i] = password_buffer[i]
        /\ password_buffer'[Len(password_buffer) + 1] = ch
    <3>1. ch \in Chars \cup {NUL} /\ password_buffer \in Seq(Chars \cup {NUL})
      BY <1>12 DEF TypeOK
    <3>2. password_buffer' = Append(password_buffer, ch)
      BY <1>12 DEF AppendChar
    <3> QED
      BY <3>1, <3>2, AppendProperties
  <2>2. consumed > 0 /\ ch = typed[consumed] /\ Buffered(consumed - 1) => Buffered(consumed)'
    <3> SUFFICES ASSUME consumed > 0, ch = typed[consumed], Buffered(consumed - 1)
                 PROVE  Buffered(consumed)'
      OBVIOUS
    <3>1. typed' = typed /\ consumed' = consumed /\ consumed \in 0 .. Len(typed)
      BY <1>12 DEF AppendChar, TypeOK, terminal
    <3>2. Len(password_buffer) = consumed - 1
      BY DEF Buffered
    <3>3. \A i \in 1 .. consumed : password_buffer'[i] = typed[i]
      BY <2>1, <3>1, <3>2 DEF Buffered
    <3> QED
      BY <2>1, <3>1, <3>2, <3>3 DEF Buffered
  <2>3. AtEof => AtEof'
    BY <1>12 DEF AppendChar, AtEof, Readable, AtEndOfFile, terminal
  <2>4. ~exit_loop_error' => ~exit_loop_error /\ Len(password_buffer') < PASSWORD_MAX
    <3>1. Len(password_buffer') \in Nat
      BY <2>1, LenProperties DEF TypeOK
    <3>2. exit_loop_error \/ Len(password_buffer') >= PASSWORD_MAX => exit_loop_error'
      BY <1>12 DEF AppendChar
    <3> QED
      BY <3>1, <3>2, BoundsAssumption
  <2>5. ~exit_loop_error' => (ch # NL /\ Buffered(consumed))' \/ AtEof'
    BY <1>12, <2>2, <2>3, <2>4 DEF AppendChar, BufferInv, LineRead
  <2> QED
    BY <1>12, <2>4, <2>5 DEF AppendChar, BufferInv, terminal
<1>13. CASE Restore
  BY <1>13 DEF Restore, BufferInv, ProgressInv, LineRead, Buffered, terminal
<1>14. CASE HandlersRestored \/ Verdict
  BY <1>14 DEF HandlersRestored, Verdict, BufferInv, ProgressInv, LineRead, Buffered,
               terminal, program
<1>15. CASE CopyPassword
  <2>1. LineRead /\ Len(password_buffer) < PASSWORD_MAX
    BY <1>15 DEF CopyPassword, BufferInv
  <2>2. ASSUME ~eof_read PROVE typed = Append(password_buffer, NL)
    <3>1. /\ typed \in Seq(Chars \cup {NL, NUL}) /\ password_buffer \in Seq(Chars \cup {NL, NUL})
          /\ consumed \in 0 .. Len(typed)
      BY SeqMonotonic, SeqDef DEF TypeOK
    <3>2. consumed = Len(typed) /\ Len(password_buffer) = Len(typed) - 1
      BY <2>1, <2>2, <3>1, LenProperties DEF LineRead, Buffered, BufferInv
    <3>3. /\ Append(password_buffer, NL) \in Seq(Chars \cup {NL, NUL})
          /\ Len(Append(password_buffer, NL)) = Len(password_buffer) + 1
          /\ \A i \in 1 .. Len(password_buffer) :
               Append(password_buffer, NL)[i] = password_buffer[i]
          /\ Append(password_buffer, NL)[Len(password_buffer) + 1] = NL
      BY <3>1, AppendProperties
    <3>4. \A i \in 1 .. Len(typed) : typed[i] = Append(password_buffer, NL)[i]
      BY <2>1, <2>2, <3>2, <3>3, <3>1, LenProperties DEF LineRead, Buffered
    <3> QED
      BY <3>1, <3>2, <3>3, <3>4, LenProperties, SeqEqual
  <2>3. eof_read => ~(caught \subseteq BeforeRaw)
    BY DEF TermInv
  <2> QED
    BY <1>15, <2>1, <2>2, <2>3
       DEF CopyPassword, BufferInv, PasswordExact, LineRead, terminal, signals
<1>16. ASSUME NEW c \in Chars \cup {NL}, Type(c)
       PROVE  BufferInv'
  <2>1. /\ Len(typed') = Len(typed) + 1
        /\ \A i \in 1 .. Len(typed) : typed'[i] = typed[i]
        /\ DOMAIN typed = 1 .. Len(typed) /\ DOMAIN typed' = 1 .. Len(typed')
        /\ Len(typed) \in Nat
    BY <1>16, AppendProperties, LenProperties DEF Type, TypeOK
  <2>2. \A i \in 1 .. Len(typed) : typed[i] # NL
    BY <1>16, <2>1 DEF Type
  <2>3. LineRead => LineRead'
    BY <1>16, <2>1, <2>2 DEF LineRead, Type, TypeOK, program
  <2>4. \A n : Buffered(n) => Buffered(n)'
    BY <1>16, <2>1 DEF Buffered, Type, program
  <2>5. AtEof => AtEof'
    BY <1>16 DEF AtEof, Type, program
  <2>6. typed'[consumed] = typed[consumed] \/ consumed = 0
    BY <2>1 DEF TypeOK
  <2>7. \A i \in DOMAIN typed' : typed'[i] = NL => i = Len(typed')
    BY <2>1, <2>2
  <2> QED
    BY <1>16, <2>3, <2>4, <2>5, <2>6, <2>7 DEF Type, Running, BufferInv, program, TypeOK
<1>17. CASE HangUp
  BY <1>17 DEF HangUp, Running, BufferInv, LineRead, Buffered, AtEof, Readable, AtEndOfFile,
               program
<1>21. CASE EndOfFile
  BY <1>21 DEF EndOfFile, Running, BufferInv, LineRead, Buffered, AtEof, program
<1>18. ASSUME NEW s \in Signals, CatchSignal(s)
       PROVE  BufferInv'
  BY <1>18 DEF CatchSignal, Handler, Running, TypeOK, BufferInv, ProgressInv, LineRead,
               Buffered, program, terminal
<1>19. ASSUME NEW s \in Signals, FatalSignal(s)
       PROVE  BufferInv'
  BY <1>19 DEF FatalSignal, BufferInv, terminal, program
<1>20. CASE UNCHANGED vars
  BY <1>20 DEF vars, program, terminal, signals, BufferInv, LineRead, Buffered, AtEof,
               Readable, AtEndOfFile, PasswordExact
<1> QED
  BY <1>1, <1>2, <1>3, <1>4, <1>5, <1>6, <1>7, <1>8, <1>9, <1>10, <1>11, <1>12, <1>13,
     <1>14, <1>15, <1>16, <1>17, <1>18, <1>19, <1>20, <1>21, NextCases

(* The invariant holds when readpassword is called.                        *)
LEMMA InitIInv == Init => IInv
<1> SUFFICES ASSUME Init PROVE IInv
  OBVIOUS
<1>1. TypeOK
  BY InitType
<1>2. \A S : <<>> \in Seq(S) /\ Len(<<>>) = 0
  BY EmptySeq
<1>3. ProgressInv /\ TermInv /\ SignalInv
  BY DEF Init, ProgressInv, TermInv, SignalInv, RawStatements, Setup, Reading
<1>4. BufferInv
  BY <1>2 DEF Init, BufferInv, Setup, Reading
<1> QED
  BY <1>1, <1>3, <1>4 DEF IInv

(* The invariant the theorems below are read off: readpassword's statement *)
(* tells the handlers installed, the terminal's state, what a caught       *)
(* signal has left behind and what the buffer holds.                       *)
THEOREM ReadPasswordInv == Spec => []IInv
<1>1. Init => IInv
  BY InitIInv
<1>2. IInv /\ [Next]_vars => IInv'
  BY NextType, NextProgress, NextTerm, NextSignalInv, NextBuffer DEF IInv
<1> QED
  BY <1>1, <1>2, PTL DEF Spec

(* Every variable of readpassword keeps to its type, and password_buffer   *)
(* never holds more than password_max characters.                          *)
THEOREM ReadPasswordTypeCorrect == Spec => []TypeOK
<1>1. IInv => TypeOK
  BY DEF IInv
<1> QED
  BY <1>1, ReadPasswordInv, PTL

(* By every return path, and also when one of the signals it handles ends  *)
(* the process, the terminal has its saved attributes unless tcsetattr     *)
(* failed; a success never leaves it raw, and a return leaves none of the  *)
(* handlers installed.  Of the other signals nothing is said.              *)
THEOREM TerminalIsGivenBack == Spec => []TerminalGivenBack
<1>1. IInv => TerminalGivenBack
  BY DEF IInv, TermInv, ProgressInv, TerminalGivenBack, Finished, Running, RawStatements,
         Setup, Reading
<1> QED
  BY <1>1, ReadPasswordInv, PTL

(* Unless a handler ran once readpassword had turned the echo off, every   *)
(* character is read from a terminal that does not echo it.                *)
THEOREM ReadsWithEchoOff == Spec => []EchoOff
<1>1. IInv => EchoOff
  BY DEF IInv, TermInv, EchoOff, RawStatements
<1> QED
  BY <1>1, ReadPasswordInv, PTL

(* A readpassword that succeeds returns what was typed before Enter, each  *)
(* character once and in order, whatever ch held when a read failed or the *)
(* terminal was hung up; or else a handler ran after the echo was turned   *)
(* off, and a Ctrl-D was read.                                             *)
THEOREM ReturnsWhatWasTyped == Spec => []PasswordExact
<1>1. IInv => PasswordExact
  BY DEF IInv, BufferInv, PasswordExact
<1> QED
  BY <1>1, ReadPasswordInv, PTL

(* Once the handlers' signal has been caught in the loop or later,         *)
(* readpassword returns an error.                                          *)
THEOREM SignalMakesItFail == Spec => []SignalAborts
<1>1. IInv => SignalAborts
  BY DEF IInv, SignalInv, SignalAborts
<1> QED
  BY <1>1, ReadPasswordInv, PTL
=============================================================================
