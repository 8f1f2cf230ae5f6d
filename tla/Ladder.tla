------------------------------- MODULE Ladder -------------------------------
(***************************************************************************)
(* The shape that nearly every routine of the program has: calls that      *)
(* acquire resources, each followed by a test of its status and a goto to  *)
(* the label that releases what has been acquired so far; then the labels, *)
(* which fall through from the first to the last.                          *)
(*                                                                         *)
(* A routine is a table.  A call has the resources it acquires when it     *)
(* succeeds, the outcomes it may have, and the label for when it does not  *)
(* succeed.  A label is named by the resource released there; "done"       *)
(* stands for the return.  The release of a resource in `cascades' may     *)
(* fail, and then its status becomes the routine's.  A successful routine  *)
(* jumps to the label `exit' and leaves `results' to its caller; those in  *)
(* `saves' have a label further down, which passes over them as long as    *)
(* all is well.  A call that is a routine itself is one step here.         *)
(***************************************************************************)
EXTENDS Integers, Sequences

VARIABLES
  body,         \* the routine that runs
  at,           \* the next of its calls, or of its labels
  pc,           \* "calls", "releases", "returned" or "crashed"
  held,         \* the resources that are acquired
  retval,       \* "success" or "error"
  unnoticed,    \* history: a call failed, and retval was left as it was
  misreleased   \* history: something was released that was not held

ladderVars == <<body, at, pc, held, retval, unnoticed, misreleased>>

-----------------------------------------------------------------------------
(* Calls.  A call may be a check of the routine's own, write bytes or a    *)
(* MAC to a record, feed the MAC, read parts of a file, or store a record. *)

(* A call that may fail with an error. *)
Do(fails) ==
  [acquires |-> {}, fails |-> fails, outcomes |-> {"ok", "error"}, check |-> FALSE,
   writes |-> <<>>, mac |-> <<>>, digests |-> <<>>, reads |-> {}, stores |-> FALSE]

Acquire(resources, fails) == [Do(fails) EXCEPT !.acquires = resources]

May(outcome, call) == [call EXCEPT !.outcomes = @ \cup {outcome}]

(* malloc or strdup, after which nobody sets retval. *)
Malloc(resource, fails) ==
  [Acquire({resource}, fails) EXCEPT !.outcomes = {"ok", "unnoticed"}]

(* An if of the routine's own, whose outcome is known. *)
Check(holds, fails) ==
  [Do(fails) EXCEPT !.check = TRUE, !.outcomes = {IF holds THEN "ok" ELSE "error"}]

Table(name, calls, releases, exit, results) ==
  [name |-> name, calls |-> calls, releases |-> releases, exit |-> exit, results |-> results,
   cascades |-> {}, saves |-> {}, size |-> 0, input |-> <<>>]

-----------------------------------------------------------------------------
Call == body.calls[at]

Last(b) == Len(b.releases)

(* Where the labels start that a goto to this one runs through. *)
Label(b, label) ==
  CHOOSE i \in 1 .. Last(b) + 1 :
    IF label = "done" THEN i = Last(b) + 1 ELSE i <= Last(b) /\ b.releases[i] = label

From(b, i) == {b.releases[k] : k \in i .. Last(b)}

Acquired(b, n) == UNION {b.calls[i].acquires : i \in 1 .. n}

(* How a table has to be written: no resource has two labels; a call that  *)
(* may fail goes to the label from which exactly the resources acquired    *)
(* before it are released; success goes to a label from which everything   *)
(* is but the results, and if a release may fail there, all of the results *)
(* are saved, further down.                                                *)
Disciplined(b) ==
  /\ Len(b.calls) \in Nat /\ Last(b) \in Nat
  /\ \A i, j \in 1 .. Last(b) : b.releases[i] = b.releases[j] => i = j
  /\ \A i \in 1 .. Len(b.calls) :
       b.calls[i].outcomes # {"ok"} =>
         /\ Label(b, b.calls[i].fails) \in 1 .. Last(b) + 1
         /\ From(b, Label(b, b.calls[i].fails)) = Acquired(b, i - 1)
  /\ Label(b, b.exit) \in 1 .. Last(b) + 1
  /\ Acquired(b, Len(b.calls)) = From(b, Label(b, b.exit)) \cup b.results
  /\ b.results \cap From(b, Label(b, b.exit)) = b.saves
  /\ \A i \in Label(b, b.exit) .. Last(b) :
       b.releases[i] \in b.cascades =>
         b.results \subseteq {b.releases[k] : k \in i + 1 .. Last(b)}

LadderInit(bodies) ==
  /\ body \in bodies
  /\ at = 1 /\ pc = "calls" /\ held = {}
  /\ retval = "success" /\ unnoticed = FALSE /\ misreleased = FALSE

(* The caller of a routine has taken its results and calls the next one. *)
Enter(b) ==
  /\ pc = "returned"
  /\ body' = b
  /\ at' = 1 /\ pc' = "calls" /\ held' = {}
  /\ retval' = "success" /\ unnoticed' = FALSE
  /\ UNCHANGED misreleased

GoTo(label) == at' = Label(body, label) /\ pc' = "releases"

Succeed ==
  /\ pc = "calls" /\ at <= Len(body.calls)
  /\ "ok" \in Call.outcomes
  /\ held' = held \cup Call.acquires
  /\ at' = at + 1
  /\ UNCHANGED <<body, pc, retval, unnoticed, misreleased>>

Fail ==
  /\ pc = "calls" /\ at <= Len(body.calls)
  /\ \/ "error" \in Call.outcomes /\ retval' = "error" /\ UNCHANGED unnoticed
     \/ "unnoticed" \in Call.outcomes /\ unnoticed' = TRUE /\ UNCHANGED retval
  /\ GoTo(Call.fails)
  /\ UNCHANGED <<body, held, misreleased>>

(* What the call does is undefined. *)
Crash ==
  /\ pc = "calls" /\ at <= Len(body.calls)
  /\ "crash" \in Call.outcomes
  /\ pc' = "crashed"
  /\ UNCHANGED <<body, at, held, retval, unnoticed, misreleased>>

Done ==
  /\ pc = "calls" /\ at = Len(body.calls) + 1
  /\ GoTo(body.exit)
  /\ UNCHANGED <<body, held, retval, unnoticed, misreleased>>

AllIsWell == retval = "success" /\ ~unnoticed

PassOver ==
  /\ pc = "releases" /\ at <= Last(body)
  /\ body.releases[at] \in body.saves /\ AllIsWell
  /\ at' = at + 1
  /\ UNCHANGED <<body, pc, held, retval, unnoticed, misreleased>>

Release ==
  /\ pc = "releases" /\ at <= Last(body)
  /\ ~(body.releases[at] \in body.saves /\ AllIsWell)
  /\ misreleased' = (misreleased \/ body.releases[at] \notin held)
  /\ held' = held \ {body.releases[at]}
  /\ \/ UNCHANGED retval
     \/ body.releases[at] \in body.cascades /\ retval' = "error"
  /\ at' = at + 1
  /\ UNCHANGED <<body, pc, unnoticed>>

Return ==
  /\ pc = "releases" /\ at > Last(body)
  /\ pc' = "returned"
  /\ UNCHANGED <<body, at, held, retval, unnoticed, misreleased>>

Succeeded == pc = "returned" /\ AllIsWell

(* Whichever call fails, each routine releases only what it holds, each    *)
(* thing once, and returns holding its results and nothing else when it    *)
(* succeeded, and nothing at all when it did not; even if a release fails. *)
Balanced ==
  /\ ~misreleased
  /\ pc = "returned" => held = IF Succeeded THEN body.results ELSE {}
=============================================================================
