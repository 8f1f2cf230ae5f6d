--------------------------- MODULE RecordsProofs ----------------------------
(***************************************************************************)
(* That a routine which is written like a ladder is balanced, whatever its *)
(* calls are, how many there are, and which of them fails; and that all of *)
(* the program's tables are written like ladders.                          *)
(*                                                                         *)
(* And what the routines put into their records: each follows a script,    *)
(* which says what is written and digested after how many calls.  From the *)
(* scripts it follows that the sizes agree, that only what was sealed is   *)
(* opened, and that the header of a backup tells its key.                  *)
(***************************************************************************)
EXTENDS Records, TLAPS, WellFoundedInduction

(* What is left to the caller by a routine that is on its way out. *)
Kept == IF AllIsWell THEN body.results ELSE {}

(* While calls are made, what is held is what the calls have acquired;     *)
(* after a goto it is what the labels still ahead release, and the results *)
(* if all is well, which it is only beyond the label of success.           *)
LadderInv ==
  /\ pc \in {"calls", "releases", "returned", "crashed"}
  /\ ~misreleased
  /\ pc = "calls" =>
       /\ at \in 1 .. Len(body.calls) + 1
       /\ held = Acquired(body, at - 1)
       /\ AllIsWell
  /\ pc = "releases" =>
       /\ at \in 1 .. Last(body) + 1
       /\ held = From(body, at) \cup Kept
       /\ AllIsWell => Label(body, body.exit) <= at
  /\ pc = "returned" => held = Kept

(* A set that has 0, and with a number the next one, has all numbers.      *)
LEMMA SetInduction ==
  ASSUME NEW S, 0 \in S, \A n \in Nat : n \in S => n + 1 \in S
  PROVE  \A n \in Nat : n \in S
<1> DEFINE T == Nat \ S
           R == {ss \in Nat \X Nat : ss[1] < ss[2]}
<1>1. SUFFICES ASSUME T # {} PROVE FALSE
  OBVIOUS
<1>2. IsWellFoundedOn(R, Nat)
  BY NatLessThanWellFounded DEF OpToRel
<1>3. PICK x \in T : \A y \in T : ~(<<y, x>> \in R)
  <2>1. T \subseteq Nat
    OBVIOUS
  <2> HIDE DEF T, R
  <2> QED
    BY <1>1, <1>2, <2>1, WFMin
<1>4. x # 0 /\ x \in Nat /\ x \notin S
  OBVIOUS
<1>5. x - 1 \in Nat /\ (x - 1) + 1 = x /\ x - 1 < x
  BY <1>4
<1>6. x - 1 \in S
  BY <1>3, <1>4, <1>5
<1> QED
  BY <1>4, <1>5, <1>6

(* Before the first call nothing is acquired, and each call adds its own   *)
(* resources.                                                              *)
LEMMA AcquiredSoFar ==
  ASSUME NEW b, Len(b.calls) \in Nat
  PROVE  /\ Acquired(b, 0) = {}
         /\ \A n \in 1 .. Len(b.calls) :
              Acquired(b, n) = Acquired(b, n - 1) \cup b.calls[n].acquires
<1>1. Acquired(b, 0) = {}
  BY DEF Acquired
<1>2. ASSUME NEW n \in 1 .. Len(b.calls)
      PROVE  Acquired(b, n) = Acquired(b, n - 1) \cup b.calls[n].acquires
  <2>1. 1 .. n = (1 .. n - 1) \cup {n}
    OBVIOUS
  <2> QED
    BY <2>1 DEF Acquired
<1> QED
  BY <1>1, <1>2

(* The labels after this one are those from it on, without it.             *)
LEMMA FromNext ==
  ASSUME NEW b, Last(b) \in Nat, NEW i \in 1 .. Last(b),
         \A j, k \in 1 .. Last(b) : b.releases[j] = b.releases[k] => j = k
  PROVE  /\ From(b, i) = From(b, i + 1) \cup {b.releases[i]}
         /\ b.releases[i] \notin From(b, i + 1)
<1>1. i .. Last(b) = ((i + 1) .. Last(b)) \cup {i}
  OBVIOUS
<1>2. From(b, i) = From(b, i + 1) \cup {b.releases[i]}
  BY <1>1 DEF From
<1>3. b.releases[i] \notin From(b, i + 1)
  <2>1. SUFFICES ASSUME NEW k \in (i + 1) .. Last(b), b.releases[i] = b.releases[k]
                 PROVE  FALSE
    BY DEF From
  <2>2. k \in 1 .. Last(b) /\ k # i
    BY <2>1
  <2> QED
    BY <2>1, <2>2
<1> QED
  BY <1>2, <1>3

(* A routine starts with nothing held.                                      *)
LEMMA LadderInvInit ==
  ASSUME NEW bodies, LadderInit(bodies), Disciplined(body)
  PROVE  LadderInv
<1>1. Acquired(body, 0) = {} /\ 1 \in 1 .. Len(body.calls) + 1
  BY AcquiredSoFar DEF Disciplined
<1> QED
  BY <1>1 DEF LadderInit, LadderInv, AllIsWell

(* Each kind of step keeps the invariant: a call enters its own routine,    *)
LEMMA EnterKeeps ==
  ASSUME LadderInv, NEW b, Enter(b), Disciplined(body)'
  PROVE  LadderInv'
<1>1. Len(body'.calls) \in Nat
  BY DEF Disciplined
<1>2. Acquired(body, at - 1)' = {} /\ at' \in 1 .. Len(body'.calls) + 1
  BY <1>1 DEF Acquired, Enter
<1> QED
  BY <1>2 DEF LadderInv, Enter, AllIsWell

(* a call succeeds and its resources are held,                              *)
LEMMA SucceedKeeps ==
  ASSUME LadderInv, Disciplined(body), Succeed
  PROVE  LadderInv'
<1>1. /\ at \in 1 .. Len(body.calls) /\ Len(body.calls) \in Nat
      /\ held' = Acquired(body, at - 1) \cup body.calls[at].acquires
  BY DEF LadderInv, Succeed, Call, Disciplined
<1>2. held' = Acquired(body, at)
  BY <1>1, AcquiredSoFar
<1>3. at' \in 1 .. Len(body.calls) + 1 /\ at' - 1 = at
  BY <1>1 DEF Succeed
<1> QED
  BY <1>2, <1>3 DEF LadderInv, Succeed, AllIsWell

(* a call fails and goes to its label,                                      *)
LEMMA FailKeeps ==
  ASSUME LadderInv, Disciplined(body), Fail
  PROVE  LadderInv'
<1>1. /\ at \in 1 .. Len(body.calls)
      /\ body.calls[at].outcomes # {"ok"}
      /\ held = Acquired(body, at - 1)
  BY DEF LadderInv, Fail, Call, Disciplined
<1>2. /\ at' \in 1 .. Last(body) + 1
      /\ From(body, at') = held
  BY <1>1 DEF Fail, GoTo, Call, Disciplined
<1>3. ~AllIsWell'
  BY DEF Fail, AllIsWell
<1>4. Kept' = {}
  BY <1>3 DEF Kept
<1> QED
  BY <1>2, <1>3, <1>4 DEF LadderInv, Fail, GoTo, From, Last

(* the last call is done,                                                   *)
LEMMA DoneKeeps ==
  ASSUME LadderInv, Disciplined(body), Done
  PROVE  LadderInv'
<1>1. held = Acquired(body, Len(body.calls)) /\ AllIsWell
  BY DEF LadderInv, Done, Disciplined
<1>2. /\ at' \in 1 .. Last(body) + 1 /\ at' = Label(body, body.exit)
      /\ held = From(body, at') \cup body.results
  BY <1>1 DEF Done, GoTo, Disciplined
<1>3. Kept' = body.results
  BY <1>1 DEF Kept, Done, AllIsWell
<1>4. Label(body, body.exit)' <= at'
  BY <1>2 DEF Done, Label, Last
<1> QED
  BY <1>2, <1>3, <1>4 DEF LadderInv, Done, GoTo, From, Last

(* a label passes over what it does not release,                            *)
LEMMA PassOverKeeps ==
  ASSUME LadderInv, Disciplined(body), PassOver
  PROVE  LadderInv'
<1>1. /\ at \in 1 .. Last(body) /\ Last(body) \in Nat
      /\ held = From(body, at) \cup body.results
      /\ Label(body, body.exit) \in 1 .. Last(body) + 1
      /\ Label(body, body.exit) <= at
      /\ body.releases[at] \in body.results
  BY DEF LadderInv, PassOver, Disciplined, Kept
<1>2. From(body, at) = From(body, at + 1) \cup {body.releases[at]}
  BY <1>1, FromNext DEF Disciplined
<1>3. held = From(body, at + 1) \cup body.results
  BY <1>1, <1>2
<1>4. /\ Kept' = body.results /\ From(body, at)' = From(body, at + 1)
      /\ Label(body, body.exit)' = Label(body, body.exit)
  BY DEF Kept, PassOver, From, Last, AllIsWell, Label
<1>5. at' \in 1 .. Last(body)' + 1 /\ Label(body, body.exit) <= at'
  BY <1>1 DEF PassOver, Last
<1> QED
  BY <1>3, <1>4, <1>5 DEF LadderInv, PassOver

(* A label whose release may fail comes before those of all the results.   *)
LEMMA ReleaseKeeps ==
  ASSUME LadderInv, Disciplined(body), Release
  PROVE  LadderInv'
<1> DEFINE r == body.releases[at]
<1>1. /\ at \in 1 .. Last(body) /\ Last(body) \in Nat
      /\ held = From(body, at) \cup Kept
      /\ AllIsWell => Label(body, body.exit) <= at
      /\ Label(body, body.exit) \in 1 .. Last(body) + 1
  BY DEF LadderInv, Release, Disciplined
<1>2. /\ From(body, at) = From(body, at + 1) \cup {r}
      /\ r \notin From(body, at + 1)
  BY <1>1, FromNext DEF Disciplined
<1>3. ~misreleased'
  BY <1>1, <1>2 DEF Release, LadderInv
<1>4. ASSUME AllIsWell PROVE r \notin body.results
  <2>1. r \in From(body, Label(body, body.exit))
    BY <1>1, <1>4 DEF From
  <2> QED
    BY <1>4, <2>1 DEF Disciplined, Release
<1>5. held' = From(body, at + 1) \cup Kept
  BY <1>1, <1>2, <1>4 DEF Release, Kept
<1>6. CASE AllIsWell' = AllIsWell
  <2>1. /\ Kept' = Kept /\ From(body, at)' = From(body, at + 1)
        /\ Label(body, body.exit)' = Label(body, body.exit)
    BY <1>6 DEF Kept, Release, From, Last, Label
  <2>2. at' \in 1 .. Last(body)' + 1 /\ (AllIsWell' => Label(body, body.exit) <= at')
    BY <1>1, <1>6 DEF Release, Last
  <2>3. pc' = "releases"
    BY DEF Release
  <2> QED
    BY <1>3, <1>5, <2>1, <2>2, <2>3 DEF LadderInv
<1>7. CASE AllIsWell' # AllIsWell
  <2>1. AllIsWell /\ ~AllIsWell' /\ r \in body.cascades
    BY <1>7 DEF AllIsWell, Release
  <2>2. body.results \subseteq From(body, at + 1)
    BY <1>1, <2>1 DEF Disciplined, From
  <2>3. held' = From(body, at + 1)
    BY <1>5, <2>2 DEF Kept
  <2>4. Kept' = {} /\ From(body, at)' = From(body, at + 1)
    BY <2>1 DEF Kept, Release, From, Last
  <2>5. at' \in 1 .. Last(body)' + 1 /\ pc' = "releases"
    BY <1>1 DEF Release, Last
  <2> QED
    BY <1>3, <2>1, <2>3, <2>4, <2>5 DEF LadderInv
<1> QED
  BY <1>6, <1>7

(* the routine returns after its last label.                                *)
LEMMA ReturnKeeps ==
  ASSUME LadderInv, Disciplined(body), Return
  PROVE  LadderInv'
<1>1. at = Last(body) + 1 /\ Last(body) \in Nat
  BY DEF LadderInv, Return, Disciplined
<1>2. From(body, at) = {}
  BY <1>1 DEF From
<1>3. held' = Kept'
  BY <1>2 DEF LadderInv, Return, Kept, AllIsWell
<1> QED
  BY <1>3 DEF LadderInv, Return

(* Every step of a routine, whatever it is, keeps the invariant.            *)
LEMMA RecordsStepKeeps ==
  ASSUME LadderInv, Disciplined(body), Disciplined(body)', [RecordsNext]_recordVars
  PROVE  LadderInv'
<1>1. CASE RunCall
  BY <1>1, SucceedKeeps DEF RunCall
<1>2. CASE FailCall
  BY <1>2, FailKeeps DEF FailCall
<1>3. CASE CleanUp
  <2>1. CASE Crash
    BY <2>1 DEF Crash, LadderInv
  <2> QED
    BY <1>3, <2>1, DoneKeeps, PassOverKeeps, ReleaseKeeps, ReturnKeeps DEF CleanUp
<1>4. CASE ReadBack
  <2>1. PICK p \in Passphrases : Enter(CertificateDecrypt(stored', p))
    BY <1>4 DEF ReadBack
  <2> QED
    BY <2>1, EnterKeeps
<1>5. CASE UNCHANGED recordVars
  BY <1>5 DEF recordVars, ladderVars, LadderInv, Kept, From, Last, Acquired, Label,
             AllIsWell
<1> QED
  BY <1>1, <1>2, <1>3, <1>4, <1>5 DEF RecordsNext, Finished

(* The invariant implies that the routine is balanced at its return.        *)
LEMMA LadderInvBalanced == LadderInv => Balanced
BY DEF LadderInv, Balanced, Kept, Succeeded, AllIsWell

-----------------------------------------------------------------------------
(* That the program's tables are disciplined.                              *)

(* A call at the label d goes there when it fails, or returns if there is  *)
(* nothing to release.                                                     *)
Fits(labels, c, d) ==
  \/ c.outcomes = {"ok"}
  \/ c.fails = "done" /\ d = Len(labels) + 1
  \/ c.fails # "done" /\ d \in 1 .. Len(labels) /\ labels[d] = c.fails

(* A sequence of calls climbs the labels, from the last one upwards: each  *)
(* call acquires what the labels it passes release, and goes to the label  *)
(* below it when it fails.  Nothing fails at one of the first `top' labels,*)
(* which stand for results that the table does not release.                *)
Rungs(labels, top, s, rung) ==
  \A i \in 1 .. Len(s) :
    /\ rung[i + 1] <= rung[i] /\ top < rung[i]
    /\ s[i].acquires = {labels[k] : k \in rung[i + 1] .. rung[i] - 1}
    /\ Fits(labels, s[i], rung[i])

Climb(labels, top, s, d, e) ==
  \E rung \in [1 .. Len(s) + 1 -> 1 .. Len(labels) + 1] :
    rung[1] = d /\ rung[Len(s) + 1] = e /\ Rungs(labels, top, s, rung)

(* What a call acquires, and where it goes.                                *)
LEMMA CallFacts ==
  /\ \A f : /\ Do(f).acquires = {} /\ Do(f).fails = f /\ Do(f).outcomes = {"ok", "error"}
  /\ \A r, f : /\ Acquire(r, f).acquires = r /\ Acquire(r, f).fails = f
  /\ \A r, f : /\ Malloc(r, f).acquires = {r} /\ Malloc(r, f).fails = f
  /\ \A h, f : /\ Check(h, f).acquires = {} /\ Check(h, f).fails = f
  /\ \A b, f : /\ Digest(b, f).acquires = {} /\ Digest(b, f).fails = f
  /\ \A b : Write(b).acquires = {} /\ Write(b).outcomes = {"ok"}
  /\ \A k, n : WriteMac(k, n).acquires = {} /\ WriteMac(k, n).outcomes = {"ok"}
  /\ \A f : MayBeShort(f).acquires = {} /\ MayBeShort(f).fails = f
  /\ \A o, r, f : May(o, Acquire(r, f)).acquires = r /\ May(o, Acquire(r, f)).fails = f
  /\ \A f, w : [Do(f) EXCEPT !.writes = w].acquires = {} /\ [Do(f) EXCEPT !.writes = w].fails = f
  /\ \A f, o : [Do(f) EXCEPT !.outcomes = o].acquires = {} /\ [Do(f) EXCEPT !.outcomes = o].fails = f
  /\ \A f, v : Add(f, v).acquires = {} /\ Add(f, v).fails = "builder"
  /\ \A o, f : May(o, Do(f)).acquires = {} /\ May(o, Do(f)).fails = f
  /\ \A r, f, o : /\ [Acquire(r, f) EXCEPT !.outcomes = o].acquires = r
                  /\ [Acquire(r, f) EXCEPT !.outcomes = o].outcomes = o
BY DEF Add, May, MayBeShort, Do, Acquire, Malloc, Check, Digest, Write, WriteMac

IsSequence(s) == \E S : s \in Seq(S)

(* What is read or written makes no difference to that.                    *)
LEMMA ReadFacts ==
  /\ \A a, n, h, f : /\ Read(a, n, Check(h, f)).acquires = {}
                    /\ Read(a, n, Check(h, f)).fails = f
  /\ \A a, n, r, f : /\ Read(a, n, Acquire(r, f)).acquires = r
                    /\ Read(a, n, Acquire(r, f)).fails = f
  /\ \A a, n, i, m, r, f : /\ Read(a, n, Read(i, m, Acquire(r, f))).acquires = r
                          /\ Read(a, n, Read(i, m, Acquire(r, f))).fails = f
  /\ \A a, n, b, f : /\ Read(a, n, Digest(b, f)).acquires = {}
                    /\ Read(a, n, Digest(b, f)).fails = f
  /\ \A a, n, f : Read(a, n, Do(f)).acquires = {} /\ Read(a, n, Do(f)).fails = f
  /\ \A a, n, w, f : /\ Read(a, n, [Do(f) EXCEPT !.writes = w]).acquires = {}
                    /\ Read(a, n, [Do(f) EXCEPT !.writes = w]).fails = f
BY DEF Read, Check, Acquire, Digest, Do

(* Calls that climb further from where others stopped climb all the way.   *)
LEMMA ClimbOn ==
  ASSUME NEW labels, NEW top, Len(labels) \in Nat,
         NEW s, IsSequence(s), NEW t, IsSequence(t),
         NEW d, NEW e, NEW f, Climb(labels, top, s, d, e), Climb(labels, top, t, e, f)
  PROVE  Climb(labels, top, s \o t, d, f) /\ IsSequence(s \o t)
<1>0. PICK S, T : s \in Seq(S) /\ t \in Seq(T)
  BY DEF IsSequence
<1> DEFINE m == Len(s)
           n == Len(t)
           Places == 1 .. Len(labels) + 1
<1>1. m \in Nat /\ n \in Nat
  BY <1>0
<1>2. /\ IsSequence(s \o t) /\ Len(s \o t) = m + n
      /\ \A i \in 1 .. m : (s \o t)[i] = s[i]
      /\ \A i \in 1 .. n : (s \o t)[m + i] = t[i]
  <2>1. s \in Seq(S \cup T) /\ t \in Seq(S \cup T)
    BY <1>0
  <2>2. s \o t \in Seq(S \cup T)
    BY <2>1
  <2> QED
    BY <2>1, <2>2 DEF IsSequence
<1>3. PICK p \in [1 .. m + 1 -> Places] :
        p[1] = d /\ p[m + 1] = e /\ Rungs(labels, top, s, p)
  BY DEF Climb
<1>4. PICK q \in [1 .. n + 1 -> Places] :
        q[1] = e /\ q[n + 1] = f /\ Rungs(labels, top, t, q)
  BY DEF Climb
<1> DEFINE r == [i \in 1 .. m + n + 1 |-> IF i <= m THEN p[i] ELSE q[i - m]]
<1>5. \A i \in 1 .. m + 1 : r[i] = p[i]
  BY <1>1, <1>3, <1>4
<1>6. \A i \in 1 .. n + 1 : r[m + i] = q[i]
  <2> SUFFICES ASSUME NEW i \in 1 .. n + 1 PROVE r[m + i] = q[i]
    OBVIOUS
  <2>1. m + i \in 1 .. m + n + 1 /\ ~(m + i <= m) /\ (m + i) - m = i
    BY <1>1
  <2> QED
    BY <2>1
<1>7. r \in [1 .. Len(s \o t) + 1 -> Places]
  <2> SUFFICES ASSUME NEW i \in 1 .. m + n + 1 PROVE r[i] \in Places
    BY <1>2
  <2>1. CASE i <= m
    <3>1. i \in 1 .. m + 1
      BY <1>1, <2>1
    <3> QED
      BY <1>3, <2>1, <3>1
  <2>2. CASE ~(i <= m)
    <3>1. i - m \in 1 .. n + 1
      BY <1>1, <2>2
    <3> QED
      BY <1>4, <2>2, <3>1
  <2> QED
    BY <2>1, <2>2
<1>8. r[1] = d /\ r[Len(s \o t) + 1] = f
  <2>1. 1 \in 1 .. m + 1 /\ n + 1 \in 1 .. n + 1 /\ (m + n) + 1 = m + (n + 1)
    BY <1>1
  <2> HIDE DEF r
  <2> QED
    BY <1>2, <1>3, <1>4, <1>5, <1>6, <2>1
<1>9. ASSUME NEW i \in 1 .. Len(s \o t)
      PROVE  /\ r[i + 1] <= r[i] /\ top < r[i]
             /\ (s \o t)[i].acquires = {labels[k] : k \in r[i + 1] .. r[i] - 1}
             /\ Fits(labels, (s \o t)[i], r[i])
  <2>1. CASE i <= m
    <3>1. i \in 1 .. m /\ i \in 1 .. m + 1 /\ i + 1 \in 1 .. m + 1
      BY <1>1, <1>2, <2>1
    <3>2. r[i] = p[i] /\ r[i + 1] = p[i + 1] /\ (s \o t)[i] = s[i]
      BY <1>2, <1>5, <3>1
    <3> HIDE DEF r
    <3> QED
      BY <1>3, <3>1, <3>2 DEF Rungs
  <2>2. CASE ~(i <= m)
    <3> DEFINE j == i - m
    <3>1. /\ j \in 1 .. n /\ j \in 1 .. n + 1 /\ j + 1 \in 1 .. n + 1
          /\ i = m + j /\ i + 1 = m + (j + 1)
      BY <1>1, <1>2, <2>2
    <3> HIDE DEF j, r
    <3>2. r[i] = q[j] /\ r[i + 1] = q[j + 1] /\ (s \o t)[i] = t[j]
      BY <1>2, <1>6, <3>1
    <3> QED
      BY <1>4, <3>1, <3>2 DEF Rungs
  <2> QED
    BY <2>1, <2>2
<1> HIDE DEF r
<1>10. Rungs(labels, top, s \o t, r)
  BY <1>9 DEF Rungs
<1> QED
  BY <1>2, <1>7, <1>8, <1>10 DEF Climb

(* Success goes to the label x.                                            *)
Exits(b, x) ==
  \/ b.exit = "done" /\ x = Last(b) + 1
  \/ b.exit # "done" /\ x \in 1 .. Last(b) /\ b.releases[x] = b.exit

Releases(labels, d) == {labels[k] : k \in d .. Len(labels)}

(* A label is where its resource is, "done" is behind them all.            *)
LEMMA LabelIs ==
  ASSUME NEW b, Last(b) \in Nat,
         \A i, j \in 1 .. Last(b) : b.releases[i] = b.releases[j] => i = j
  PROVE  /\ Label(b, "done") = Last(b) + 1
         /\ \A i \in 1 .. Last(b) : b.releases[i] # "done" => Label(b, b.releases[i]) = i
<1>1. Label(b, "done") = Last(b) + 1
  BY DEF Label
<1>2. ASSUME NEW i \in 1 .. Last(b), b.releases[i] # "done" PROVE Label(b, b.releases[i]) = i
  <2> DEFINE l == b.releases[i]
             Is(k) == IF l = "done" THEN k = Last(b) + 1 ELSE k <= Last(b) /\ b.releases[k] = l
  <2>1. i \in 1 .. Last(b) + 1 /\ Is(i)
    BY <1>2
  <2>2. \A k \in 1 .. Last(b) + 1 : Is(k) => k = i
    BY <1>2
  <2>3. Label(b, l) = CHOOSE k \in 1 .. Last(b) + 1 : Is(k)
    BY DEF Label
  <2> HIDE DEF Is
  <2> QED
    BY <2>1, <2>2, <2>3
<1> QED
  BY <1>1, <1>2

(* What the calls have acquired is what is released from where they are.   *)
LEMMA ClimbAcquires ==
  ASSUME NEW b, NEW labels, NEW top, Len(b.calls) \in Nat, Len(labels) \in Nat,
         NEW rung \in [1 .. Len(b.calls) + 1 -> 1 .. Len(labels) + 1],
         rung[1] = Len(labels) + 1, Rungs(labels, top, b.calls, rung)
  PROVE  \A n \in 0 .. Len(b.calls) : Acquired(b, n) = Releases(labels, rung[n + 1])
<1> DEFINE S == {n \in Nat : n \in 0 .. Len(b.calls) => Acquired(b, n) = Releases(labels, rung[n + 1])}
<1>1. 0 \in S
  <2>1. Acquired(b, 0) = {}
    BY AcquiredSoFar
  <2>2. Releases(labels, Len(labels) + 1) = {}
    BY DEF Releases
  <2> QED
    BY <2>1, <2>2
<1>2. ASSUME NEW n \in Nat, n \in S PROVE n + 1 \in S
  <2> SUFFICES ASSUME n + 1 \in 0 .. Len(b.calls)
               PROVE  Acquired(b, n + 1) = Releases(labels, rung[n + 2])
    OBVIOUS
  <2>1. n \in 0 .. Len(b.calls) /\ n + 1 \in 1 .. Len(b.calls) /\ (n + 1) - 1 = n
        /\ n + 1 \in 1 .. Len(b.calls) + 1 /\ n + 2 \in 1 .. Len(b.calls) + 1
        /\ (n + 1) + 1 = n + 2
    OBVIOUS
  <2>2. Acquired(b, n + 1) = Releases(labels, rung[n + 1]) \cup b.calls[n + 1].acquires
    BY <1>2, <2>1, AcquiredSoFar
  <2>3. b.calls[n + 1].acquires = {labels[k] : k \in rung[n + 2] .. rung[n + 1] - 1}
    BY <2>1 DEF Rungs
  <2>4. rung[n + 2] <= rung[n + 1] /\ rung[n + 2] \in 1 .. Len(labels) + 1
        /\ rung[n + 1] \in 1 .. Len(labels) + 1
    BY <2>1 DEF Rungs
  <2>5. rung[n + 2] .. Len(labels) = (rung[n + 1] .. Len(labels)) \cup (rung[n + 2] .. rung[n + 1] - 1)
    BY <2>4
  <2> QED
    BY <2>2, <2>3, <2>5 DEF Releases
<1>3. \A n \in Nat : n \in S
  <2> HIDE DEF S
  <2> QED
    BY <1>1, <1>2, SetInduction
<1> QED
  BY <1>3

(* The labels are those of the table, below those of what it never         *)
(* releases, and no two are the same.                                      *)
Labelled(b, labels, top) ==
  /\ Len(b.calls) \in Nat /\ Last(b) \in Nat /\ Len(labels) = top + Last(b)
  /\ \A i \in 1 .. Last(b) : labels[top + i] = b.releases[i] /\ b.releases[i] # "done"
  /\ \A i, j \in 1 .. Last(b) : b.releases[i] = b.releases[j] => i = j

(* From the label e on is what was acquired; success releases it from x on *)
(* and leaves the results.                                                 *)
Leaves(b, labels, e, x) ==
  /\ Exits(b, x)
  /\ Releases(labels, e) = From(b, x) \cup b.results
  /\ b.results \cap From(b, x) = b.saves
  /\ \A i \in x .. Last(b) :
       b.releases[i] \in b.cascades => b.results \subseteq From(b, i + 1)

(* A table whose calls climb, and which leaves its results, is disciplined.*)
LEMMA ClimbIsDisciplined ==
  ASSUME NEW b, NEW labels, NEW top \in Nat, NEW e, NEW x,
         Labelled(b, labels, top),
         Climb(labels, top, b.calls, Len(labels) + 1, e),
         Leaves(b, labels, e, x)
  PROVE  Disciplined(b)
<1> USE DEF Labelled, Leaves
<1>1. PICK rung \in [1 .. Len(b.calls) + 1 -> 1 .. Len(labels) + 1] :
        /\ rung[1] = Len(labels) + 1 /\ rung[Len(b.calls) + 1] = e
        /\ Rungs(labels, top, b.calls, rung)
  BY DEF Climb
<1>2. \A n \in 0 .. Len(b.calls) : Acquired(b, n) = Releases(labels, rung[n + 1])
  <2>1. Len(labels) \in Nat
    OBVIOUS
  <2>2. rung[1] = Len(labels) + 1 /\ Rungs(labels, top, b.calls, rung)
    BY <1>1
  <2>3. rung \in [1 .. Len(b.calls) + 1 -> 1 .. Len(labels) + 1]
    OBVIOUS
  <2>4. Len(b.calls) \in Nat
    OBVIOUS
  <2> QED
    BY ONLY <2>1, <2>2, <2>3, <2>4, ClimbAcquires, Zenon
<1>3. \A d \in top + 1 .. Len(labels) + 1 : Releases(labels, d) = From(b, d - top)
  <2> SUFFICES ASSUME NEW d \in top + 1 .. Len(labels) + 1
               PROVE  Releases(labels, d) = From(b, d - top)
    OBVIOUS
  <2>1. \A k \in d .. Len(labels) : k - top \in d - top .. Last(b) /\ labels[k] = b.releases[k - top]
    <3> SUFFICES ASSUME NEW k \in d .. Len(labels)
                 PROVE  k - top \in d - top .. Last(b) /\ labels[k] = b.releases[k - top]
      OBVIOUS
    <3>1. k - top \in 1 .. Last(b) /\ top + (k - top) = k /\ k - top \in d - top .. Last(b)
      OBVIOUS
    <3> QED
      BY <3>1
  <2>2. \A k \in d - top .. Last(b) : k + top \in d .. Len(labels) /\ labels[k + top] = b.releases[k]
    <3> SUFFICES ASSUME NEW k \in d - top .. Last(b)
                 PROVE  k + top \in d .. Len(labels) /\ labels[k + top] = b.releases[k]
      OBVIOUS
    <3>1. k \in 1 .. Last(b) /\ top + k = k + top /\ k + top \in d .. Len(labels)
      OBVIOUS
    <3> QED
      BY <3>1
  <2>3. ASSUME NEW r \in Releases(labels, d) PROVE r \in From(b, d - top)
    <3>1. PICK k \in d .. Len(labels) : r = labels[k]
      BY <2>3 DEF Releases
    <3> QED
      BY <2>1, <3>1 DEF From
  <2>4. ASSUME NEW r \in From(b, d - top) PROVE r \in Releases(labels, d)
    <3>1. PICK k \in d - top .. Last(b) : r = b.releases[k]
      BY <2>4 DEF From
    <3> QED
      BY <2>2, <3>1 DEF Releases
  <2> QED
    BY <2>3, <2>4
<1>4. Label(b, b.exit) = x /\ x \in 1 .. Last(b) + 1
  BY LabelIs DEF Exits
<1>5. ASSUME NEW i \in 1 .. Len(b.calls), b.calls[i].outcomes # {"ok"}
      PROVE  /\ Label(b, b.calls[i].fails) \in 1 .. Last(b) + 1
             /\ From(b, Label(b, b.calls[i].fails)) = Acquired(b, i - 1)
  <2> DEFINE d == rung[i]
             c == b.calls[i]
  <2>1. /\ i \in 1 .. Len(b.calls) + 1 /\ d \in top + 1 .. Len(labels) + 1
        /\ Fits(labels, c, d)
    <3>1. i \in 1 .. Len(b.calls) + 1
      OBVIOUS
    <3>2. d \in 1 .. Len(labels) + 1 /\ top < d /\ Fits(labels, c, d)
      BY <1>1, <3>1 DEF Rungs
    <3> HIDE DEF d
    <3> QED
      BY <3>1, <3>2
  <2>2. Acquired(b, i - 1) = From(b, d - top)
    <3>1. i - 1 \in 0 .. Len(b.calls) /\ (i - 1) + 1 = i
      OBVIOUS
    <3>2. Acquired(b, i - 1) = Releases(labels, d)
      BY <1>2, <3>1
    <3> HIDE DEF d
    <3> QED
      BY <1>3, <2>1, <3>2
  <2>3. d - top \in 1 .. Last(b) + 1
    BY <2>1
  <2>4. Label(b, c.fails) = d - top
    <3>1. CASE c.fails = "done" /\ d = Len(labels) + 1
      <4>1. d - top = Last(b) + 1
        BY <3>1
      <4> QED
        BY <3>1, <4>1, LabelIs
    <3>2. CASE c.fails # "done" /\ d \in 1 .. Len(labels) /\ labels[d] = c.fails
      <4>1. d - top \in 1 .. Last(b) /\ top + (d - top) = d
        BY <2>1, <3>2
      <4>2. b.releases[d - top] = c.fails
        BY <3>2, <4>1
      <4> HIDE DEF d, c
      <4> QED
        BY <3>2, <4>1, <4>2, LabelIs
    <3> QED
      BY <1>5, <2>1, <3>1, <3>2 DEF Fits
  <2> HIDE DEF d
  <2> QED
    BY <2>2, <2>3, <2>4
<1>6. Acquired(b, Len(b.calls)) = From(b, x) \cup b.results
  BY <1>1, <1>2
<1>7. \A i \in x .. Last(b) :
        b.releases[i] \in b.cascades => b.results \subseteq {b.releases[k] : k \in i + 1 .. Last(b)}
  BY DEF From
<1> QED
  BY <1>4, <1>5, <1>6, <1>7 DEF Disciplined

(* The parts of a table.                                                   *)
LEMMA TableFacts ==
  \A n, c, r, x, s :
    LET t == Table(n, c, r, x, s)
    IN  /\ t.calls = c /\ t.releases = r /\ t.exit = x /\ t.results = s
        /\ t.cascades = {} /\ t.saves = {}
BY DEF Table

(* The table of certfile_create is disciplined.                            *)
LEMMA CertfileCreateDisciplined ==
  Disciplined(CertfileCreate)
<1> SUFFICES ASSUME NEW b, b = CertfileCreate PROVE Disciplined(b)
  OBVIOUS
<1> DEFINE labels == <<"filename", "certfile">>
           rung == <<3, 2, 1>>
<1>1. /\ b.calls = <<Acquire({"certfile"}, "done"),
                     Acquire({"filename"}, "certfile")>>
      /\ b.releases = <<"certfile">>
      /\ b.exit = "done" /\ b.results = {"certfile", "filename"}
      /\ b.cascades = {"certfile"} /\ b.saves = {}
  BY TableFacts DEF CertfileCreate, Cascading, Table
<1>2. Labelled(b, labels, 1)
  BY <1>1 DEF Labelled, Last
<1>3. Climb(labels, 1, b.calls, Len(labels) + 1, 1)
  <2>1. rung \in [1 .. 3 -> 1 .. 3]
    OBVIOUS
  <2>2. Rungs(labels, 1, b.calls, rung)
    BY <1>1, CallFacts DEF Rungs, Fits
  <2>3. Len(b.calls) = 2 /\ Len(labels) = 2 /\ rung[1] = 3 /\ rung[3] = 1
    BY <1>1
  <2> HIDE DEF labels, rung
  <2> QED
    BY <2>1, <2>2, <2>3 DEF Climb
<1>4. Leaves(b, labels, 1, 2)
  <2>1. From(b, 2) = {}
    BY <1>1 DEF From, Last
  <2> QED
    BY <1>1, <2>1 DEF Leaves, Exits, Last, Releases
<1> HIDE DEF labels
<1> QED
  BY <1>2, <1>3, <1>4, ClimbIsDisciplined

(* The table of endorse_get_key_file is disciplined.                       *)
LEMMA GetKeyFileDisciplined ==
  ASSUME NEW given, NEW mode
  PROVE  Disciplined(GetKeyFile(given, mode))
<1> SUFFICES ASSUME NEW b, b = GetKeyFile(given, mode) PROVE Disciplined(b)
  OBVIOUS
<1> DEFINE labels == <<"key_file">>
           rung == <<2, 2, 2, 2, 2, 1>>
<1>1. /\ b.releases = <<>> /\ b.exit = "done" /\ b.results = {"key_file"}
      /\ b.cascades = {} /\ b.saves = {}
  BY TableFacts DEF GetKeyFile
<1>c. PICK h, c : /\ c.acquires = {} /\ c.fails = "done"
                   /\ b.calls = <<Check(given, "done"), Do("done"), Check(h, "done"),
                                  c, Acquire({"key_file"}, "done")>>
  <2>1. b.calls = <<Check(given, "done"), Do("done"), Check(mode # "shared", "done"),
                    [Do("done") EXCEPT !.outcomes =
                       {IF mode = "unreadable" THEN "unnoticed" ELSE "ok"}],
                    Acquire({"key_file"}, "done")>>
    BY Zenon DEF GetKeyFile, Table
  <2>2. \A o : LET c == [Do("done") EXCEPT !.outcomes = o] IN c.acquires = {} /\ c.fails = "done"
    BY CallFacts
  <2> QED
    BY <2>1, <2>2, Zenon
<1>2. Labelled(b, labels, 1)
  BY <1>1, <1>c DEF Labelled, Last
<1>3. Climb(labels, 1, b.calls, Len(labels) + 1, 1)
  <2>1. rung \in [1 .. 6 -> 1 .. 2]
    OBVIOUS
  <2>2. Rungs(labels, 1, b.calls, rung)
    BY <1>1, <1>c, CallFacts DEF Rungs, Fits
  <2>3. Len(b.calls) = 5 /\ Len(labels) = 1 /\ rung[1] = 2 /\ rung[6] = 1
    BY <1>1, <1>c
  <2> HIDE DEF labels, rung
  <2> QED
    BY <2>1, <2>2, <2>3 DEF Climb
<1>4. Leaves(b, labels, 1, 1)
  <2>1. From(b, 1) = {}
    BY <1>1 DEF From, Last
  <2> QED
    BY <1>1, <2>1 DEF Leaves, Exits, Last, Releases
<1> HIDE DEF labels
<1> QED
  BY <1>2, <1>3, <1>4, ClimbIsDisciplined

(* The table of endorse_get_input_file is disciplined.                     *)
LEMMA GetInputFileDisciplined ==
  ASSUME NEW given
  PROVE  Disciplined(GetInputFile(given))
<1> SUFFICES ASSUME NEW b, b = GetInputFile(given) PROVE Disciplined(b)
  OBVIOUS
<1> DEFINE labels == <<"input_file">>
           rung == <<2, 2, 2, 1>>
<1>1. /\ b.calls = <<Check(given, "done"),
                     Do("done"),
                     Acquire({"input_file"}, "done")>>
      /\ b.releases = <<>>
      /\ b.exit = "done" /\ b.results = {"input_file"}
      /\ b.cascades = {} /\ b.saves = {}
  BY TableFacts DEF GetInputFile
<1>2. Labelled(b, labels, 1)
  BY <1>1 DEF Labelled, Last
<1>3. Climb(labels, 1, b.calls, Len(labels) + 1, 1)
  <2>1. rung \in [1 .. 4 -> 1 .. 2]
    OBVIOUS
  <2>2. Rungs(labels, 1, b.calls, rung)
    BY <1>1, CallFacts DEF Rungs, Fits
  <2>3. Len(b.calls) = 3 /\ Len(labels) = 1 /\ rung[1] = 2 /\ rung[4] = 1
    BY <1>1
  <2> HIDE DEF labels, rung
  <2> QED
    BY <2>1, <2>2, <2>3 DEF Climb
<1>4. Leaves(b, labels, 1, 1)
  <2>1. From(b, 1) = {}
    BY <1>1 DEF From, Last
  <2> QED
    BY <1>1, <2>1 DEF Leaves, Exits, Last, Releases
<1> HIDE DEF labels
<1> QED
  BY <1>2, <1>3, <1>4, ClimbIsDisciplined

(* The table of endorse_get_endorse_config_file is disciplined.            *)
LEMMA GetConfigFileDisciplined ==
  ASSUME NEW given
  PROVE  Disciplined(GetConfigFile(given))
<1> SUFFICES ASSUME NEW b, b = GetConfigFile(given) PROVE Disciplined(b)
  OBVIOUS
<1> DEFINE labels == <<"endorse_config_file">>
           rung == <<2, 2, 2, 1>>
<1>1. /\ b.calls = <<Check(given, "done"),
                     Do("done"),
                     Acquire({"endorse_config_file"}, "done")>>
      /\ b.releases = <<>>
      /\ b.exit = "done" /\ b.results = {"endorse_config_file"}
      /\ b.cascades = {} /\ b.saves = {}
  BY TableFacts DEF GetConfigFile
<1>2. Labelled(b, labels, 1)
  BY <1>1 DEF Labelled, Last
<1>3. Climb(labels, 1, b.calls, Len(labels) + 1, 1)
  <2>1. rung \in [1 .. 4 -> 1 .. 2]
    OBVIOUS
  <2>2. Rungs(labels, 1, b.calls, rung)
    BY <1>1, CallFacts DEF Rungs, Fits
  <2>3. Len(b.calls) = 3 /\ Len(labels) = 1 /\ rung[1] = 2 /\ rung[4] = 1
    BY <1>1
  <2> HIDE DEF labels, rung
  <2> QED
    BY <2>1, <2>2, <2>3 DEF Climb
<1>4. Leaves(b, labels, 1, 1)
  <2>1. From(b, 1) = {}
    BY <1>1 DEF From, Last
  <2> QED
    BY <1>1, <2>1 DEF Leaves, Exits, Last, Releases
<1> HIDE DEF labels
<1> QED
  BY <1>2, <1>3, <1>4, ClimbIsDisciplined

(* The table of endorse_get_pubkey_file is disciplined.                    *)
LEMMA GetPubkeyFileDisciplined ==
  Disciplined(GetPubkeyFile)
<1> SUFFICES ASSUME NEW b, b = GetPubkeyFile PROVE Disciplined(b)
  OBVIOUS
<1> DEFINE labels == <<"key_file">>
           rung == <<2, 2, 1>>
<1>1. /\ b.calls = <<Do("done"),
                     Acquire({"key_file"}, "done")>>
      /\ b.releases = <<>>
      /\ b.exit = "done" /\ b.results = {"key_file"}
      /\ b.cascades = {} /\ b.saves = {}
  BY TableFacts DEF GetPubkeyFile
<1>2. Labelled(b, labels, 1)
  BY <1>1 DEF Labelled, Last
<1>3. Climb(labels, 1, b.calls, Len(labels) + 1, 1)
  <2>1. rung \in [1 .. 3 -> 1 .. 2]
    OBVIOUS
  <2>2. Rungs(labels, 1, b.calls, rung)
    BY <1>1, CallFacts DEF Rungs, Fits
  <2>3. Len(b.calls) = 2 /\ Len(labels) = 1 /\ rung[1] = 2 /\ rung[3] = 1
    BY <1>1
  <2> HIDE DEF labels, rung
  <2> QED
    BY <2>1, <2>2, <2>3 DEF Climb
<1>4. Leaves(b, labels, 1, 1)
  <2>1. From(b, 1) = {}
    BY <1>1 DEF From, Last
  <2> QED
    BY <1>1, <2>1 DEF Leaves, Exits, Last, Releases
<1> HIDE DEF labels
<1> QED
  BY <1>2, <1>3, <1>4, ClimbIsDisciplined

(* The table of endorse_read_password_and_decrypt_certfile is disciplined. *)
LEMMA DecryptCertfileDisciplined ==
  Disciplined(DecryptCertfile)
<1> SUFFICES ASSUME NEW b, b = DecryptCertfile PROVE Disciplined(b)
  OBVIOUS
<1> DEFINE labels == <<"decrypted_cert", "password">>
           rung == <<3, 2, 1>>
<1>1. /\ b.calls = <<Acquire({"password"}, "done"),
                     May("crash", Acquire({"decrypted_cert"}, "password"))>>
      /\ b.releases = <<"password">>
      /\ b.exit = "password" /\ b.results = {"decrypted_cert"}
      /\ b.cascades = {} /\ b.saves = {}
  BY TableFacts DEF DecryptCertfile
<1>2. Labelled(b, labels, 1)
  BY <1>1 DEF Labelled, Last
<1>3. Climb(labels, 1, b.calls, Len(labels) + 1, 1)
  <2>1. rung \in [1 .. 3 -> 1 .. 3]
    OBVIOUS
  <2>2. Rungs(labels, 1, b.calls, rung)
    BY <1>1, CallFacts DEF Rungs, Fits
  <2>3. Len(b.calls) = 2 /\ Len(labels) = 2 /\ rung[1] = 3 /\ rung[3] = 1
    BY <1>1
  <2> HIDE DEF labels, rung
  <2> QED
    BY <2>1, <2>2, <2>3 DEF Climb
<1>4. Leaves(b, labels, 1, 1)
  <2>1. From(b, 1) = {"password"}
    BY <1>1 DEF From, Last
  <2> QED
    BY <1>1, <2>1 DEF Leaves, Exits, Last, Releases
<1> HIDE DEF labels
<1> QED
  BY <1>2, <1>3, <1>4, ClimbIsDisciplined

(* The table of endorse_get_pubkey_id is disciplined.                      *)
LEMMA GetPubkeyIdDisciplined ==
  ASSUME NEW right
  PROVE  Disciplined(GetPubkeyId(right))
<1> SUFFICES ASSUME NEW b, b = GetPubkeyId(right) PROVE Disciplined(b)
  OBVIOUS
<1> DEFINE labels == <<"parser", "parser_opts", "fd", "file_buffer">>
           rung == <<5, 4, 3, 3, 2, 1, 1, 1>>
<1>1. /\ b.calls = <<Acquire({"file_buffer"}, "done"),
                     Acquire({"fd"}, "file_buffer"),
                     MayBeShort("fd"),
                     Acquire({"parser_opts"}, "fd"),
                     Acquire({"parser"}, "parser_opts"),
                     Do("parser"),
                     Check(right, "parser")>>
      /\ b.releases = <<"parser", "parser_opts", "fd", "file_buffer">>
      /\ b.exit = "parser" /\ b.results = {}
      /\ b.cascades = {"fd"} /\ b.saves = {}
  BY TableFacts DEF GetPubkeyId, Cascading, Table
<1>2. Labelled(b, labels, 0)
  BY <1>1 DEF Labelled, Last
<1>3. Climb(labels, 0, b.calls, Len(labels) + 1, 1)
  <2>1. rung \in [1 .. 8 -> 1 .. 5]
    OBVIOUS
  <2>2. Rungs(labels, 0, b.calls, rung)
    BY <1>1, CallFacts DEF Rungs, Fits
  <2>3. Len(b.calls) = 7 /\ Len(labels) = 4 /\ rung[1] = 5 /\ rung[8] = 1
    BY <1>1
  <2> HIDE DEF labels, rung
  <2> QED
    BY <2>1, <2>2, <2>3 DEF Climb
<1>4. Leaves(b, labels, 1, 1)
  <2>1. From(b, 1) = {"parser", "parser_opts", "fd", "file_buffer"}
    BY <1>1 DEF From, Last
  <2> QED
    BY <1>1, <2>1 DEF Leaves, Exits, Last, Releases
<1> HIDE DEF labels
<1> QED
  BY <1>2, <1>3, <1>4, ClimbIsDisciplined

(* The table of endorse_get_endorser_details is disciplined.               *)
LEMMA GetEndorserDetailsDisciplined ==
  ASSUME NEW id, NEW key
  PROVE  Disciplined(GetEndorserDetails(id, key))
<1> SUFFICES ASSUME NEW b, b = GetEndorserDetails(id, key) PROVE Disciplined(b)
  OBVIOUS
<1> DEFINE labels == <<"private_key", "parser", "parser_options">>
           rung == <<4, 3, 2, 2, 2, 2, 2, 1>>
<1>1. /\ b.calls = <<Acquire({"parser_options"}, "done"),
                     Acquire({"parser"}, "parser_options"),
                     Do("parser"),
                     Check(id, "parser"),
                     Do("parser"),
                     Check(key, "parser"),
                     Acquire({"private_key"}, "parser")>>
      /\ b.releases = <<"parser", "parser_options">>
      /\ b.exit = "parser" /\ b.results = {"private_key"}
      /\ b.cascades = {} /\ b.saves = {}
  BY TableFacts DEF GetEndorserDetails
<1>2. Labelled(b, labels, 1)
  BY <1>1 DEF Labelled, Last
<1>3. Climb(labels, 1, b.calls, Len(labels) + 1, 1)
  <2>1. rung \in [1 .. 8 -> 1 .. 4]
    OBVIOUS
  <2>2. Rungs(labels, 1, b.calls, rung)
    BY <1>1, CallFacts DEF Rungs, Fits
  <2>3. Len(b.calls) = 7 /\ Len(labels) = 3 /\ rung[1] = 4 /\ rung[8] = 1
    BY <1>1
  <2> HIDE DEF labels, rung
  <2> QED
    BY <2>1, <2>2, <2>3 DEF Climb
<1>4. Leaves(b, labels, 1, 1)
  <2>1. From(b, 1) = {"parser", "parser_options"}
    BY <1>1 DEF From, Last
  <2> QED
    BY <1>1, <2>1 DEF Leaves, Exits, Last, Releases
<1> HIDE DEF labels
<1> QED
  BY <1>2, <1>3, <1>4, ClimbIsDisciplined

(* The table of crypt_cipher_mac_init_from_password is disciplined.        *)
LEMMA CipherMacInitDisciplined ==
  Disciplined(CipherMacInit)
<1> SUFFICES ASSUME NEW b, b = CipherMacInit PROVE Disciplined(b)
  OBVIOUS
<1> DEFINE labels == <<"cipher", "mac", "key_derivation", "derived_key">>
           rung == <<5, 4, 3, 3, 2, 1>>
<1>1. /\ b.calls = <<Acquire({"derived_key"}, "done"),
                     Acquire({"key_derivation"}, "derived_key"),
                     Do("key_derivation"),
                     Acquire({"mac"}, "key_derivation"),
                     Acquire({"cipher"}, "mac")>>
      /\ b.releases = <<"mac", "key_derivation", "derived_key">>
      /\ b.exit = "key_derivation" /\ b.results = {"mac", "cipher"}
      /\ b.cascades = {} /\ b.saves = {}
  BY TableFacts DEF CipherMacInit
<1>2. Labelled(b, labels, 1)
  BY <1>1 DEF Labelled, Last
<1>3. Climb(labels, 1, b.calls, Len(labels) + 1, 1)
  <2>1. rung \in [1 .. 6 -> 1 .. 5]
    OBVIOUS
  <2>2. Rungs(labels, 1, b.calls, rung)
    BY <1>1, CallFacts DEF Rungs, Fits
  <2>3. Len(b.calls) = 5 /\ Len(labels) = 4 /\ rung[1] = 5 /\ rung[6] = 1
    BY <1>1
  <2> HIDE DEF labels, rung
  <2> QED
    BY <2>1, <2>2, <2>3 DEF Climb
<1>4. Leaves(b, labels, 1, 2)
  <2>1. From(b, 2) = {"key_derivation", "derived_key"}
    BY <1>1 DEF From, Last
  <2> QED
    BY <1>1, <2>1 DEF Leaves, Exits, Last, Releases
<1> HIDE DEF labels
<1> QED
  BY <1>2, <1>3, <1>4, ClimbIsDisciplined

(* The table of pubkey_certificate_create is disciplined.                  *)
LEMMA PubkeyCertificateCreateDisciplined ==
  Disciplined(PubkeyCertificateCreate)
<1> SUFFICES ASSUME NEW b, b = PubkeyCertificateCreate PROVE Disciplined(b)
  OBVIOUS
<1> DEFINE labels == <<"cert", "builder">>
           rung == <<3, 2, 2, 2, 2, 2, 2, 2, 1>>
<1>1. /\ b.calls = <<Acquire({"builder"}, "done"),
                     Add("version", "0x00010000"),
                     Add("type", "public"),
                     Add("suite", "VELO_V1"),
                     Add("artifact_id", "uuid"),
                     Add("public_encryption_key", "agreement"),
                     Add("public_signing_key", "signature"),
                     Acquire({"cert"}, "builder")>>
      /\ b.releases = <<"builder">>
      /\ b.exit = "builder" /\ b.results = {"cert"}
      /\ b.cascades = {} /\ b.saves = {}
  BY TableFacts DEF PubkeyCertificateCreate, Table
<1>2. Labelled(b, labels, 1)
  BY <1>1 DEF Labelled, Last
<1>3. Climb(labels, 1, b.calls, Len(labels) + 1, 1)
  <2>1. rung \in [1 .. 9 -> 1 .. 3]
    OBVIOUS
  <2>2. Rungs(labels, 1, b.calls, rung)
    BY <1>1, CallFacts DEF Rungs, Fits
  <2>3. Len(b.calls) = 8 /\ Len(labels) = 2 /\ rung[1] = 3 /\ rung[9] = 1
    BY <1>1
  <2> HIDE DEF labels, rung
  <2> QED
    BY <2>1, <2>2, <2>3 DEF Climb
<1>4. Leaves(b, labels, 1, 1)
  <2>1. From(b, 1) = {"builder"}
    BY <1>1 DEF From, Last
  <2> QED
    BY <1>1, <2>1 DEF Leaves, Exits, Last, Releases
<1> HIDE DEF labels
<1> QED
  BY <1>2, <1>3, <1>4, ClimbIsDisciplined

(* The table of endorse_build_output_file is disciplined.                  *)
LEMMA BuildOutputFileDisciplined ==
  ASSUME NEW fields, NEW set
  PROVE  Disciplined(BuildOutputFile(fields, set))
<1> SUFFICES ASSUME NEW b, b = BuildOutputFile(fields, set) PROVE Disciplined(b)
  OBVIOUS
<1> DEFINE labels == <<"fd", "builder", "builder_opts", "private_key">>
           rung == <<5, 4, 3, 2, 2, 2, 2, 1, 1>>
<1>1. /\ b.calls = <<Acquire({"private_key"}, "done"),
                     Acquire({"builder_opts"}, "private_key"),
                     Acquire({"builder"}, "builder_opts"),
                     [Do("builder") EXCEPT !.writes = fields],
                     [Do("builder") EXCEPT !.writes = [i \in 1 .. set |-> <<"endorsement", i>>]],
                     [Do("builder") EXCEPT !.writes = << <<"signer", "id">>, <<"signature", "bytes">> >>],
                     Acquire({"fd"}, "builder"),
                     MayBeShort("fd")>>
      /\ b.releases = <<"fd", "builder", "builder_opts", "private_key">>
      /\ b.exit = "fd" /\ b.results = {}
      /\ b.cascades = {} /\ b.saves = {}
  BY TableFacts DEF BuildOutputFile, Table
<1>2. Labelled(b, labels, 0)
  BY <1>1 DEF Labelled, Last
<1>3. Climb(labels, 0, b.calls, Len(labels) + 1, 1)
  <2>1. rung \in [1 .. 9 -> 1 .. 5]
    OBVIOUS
  <2>2. Rungs(labels, 0, b.calls, rung)
    BY <1>1, CallFacts DEF Rungs, Fits, Do
  <2>3. Len(b.calls) = 8 /\ Len(labels) = 4 /\ rung[1] = 5 /\ rung[9] = 1
    BY <1>1
  <2> HIDE DEF labels, rung
  <2> QED
    BY <2>1, <2>2, <2>3 DEF Climb
<1>4. Leaves(b, labels, 1, 1)
  <2>1. From(b, 1) = {"fd", "builder", "builder_opts", "private_key"}
    BY <1>1 DEF From, Last
  <2> QED
    BY <1>1, <2>1 DEF Leaves, Exits, Last, Releases
<1> HIDE DEF labels
<1> QED
  BY <1>2, <1>3, <1>4, ClimbIsDisciplined

(* The table of endorse_get_output_filename is disciplined.                *)
LEMMA GetOutputFilenameDisciplined ==
  ASSUME NEW given \in BOOLEAN
  PROVE  Disciplined(GetOutputFilename(given))
<1> SUFFICES ASSUME NEW b, b = GetOutputFilename(given) PROVE Disciplined(b)
  OBVIOUS
<1>1. CASE given
  <2> DEFINE labels == <<"output_filename">>
             rung == <<2, 1>>
  <2>1. /\ b.calls = <<Malloc("output_filename", "done")>>
        /\ b.releases = <<"output_filename">>
        /\ b.exit = "done" /\ b.results = {"output_filename"}
        /\ b.cascades = {} /\ b.saves = {}
    BY <1>1, TableFacts DEF GetOutputFilename
  <2>2. Labelled(b, labels, 0)
    BY <2>1 DEF Labelled, Last
  <2>3. Climb(labels, 0, b.calls, Len(labels) + 1, 1)
    <3>1. rung \in [1 .. 2 -> 1 .. 2]
      OBVIOUS
    <3>2. Rungs(labels, 0, b.calls, rung)
      BY <2>1, CallFacts DEF Rungs, Fits
    <3>3. Len(b.calls) = 1 /\ Len(labels) = 1 /\ rung[1] = 2 /\ rung[2] = 1
      BY <2>1
    <3> HIDE DEF labels, rung
    <3> QED
      BY <3>1, <3>2, <3>3 DEF Climb
  <2>4. Leaves(b, labels, 1, 2)
    <3>1. From(b, 2) = {}
      BY <2>1 DEF From, Last
    <3> QED
      BY <2>1, <3>1 DEF Leaves, Exits, Last, Releases
  <2> HIDE DEF labels
  <2> QED
    BY <2>2, <2>3, <2>4, ClimbIsDisciplined
<1>2. CASE ~given
  <2> DEFINE labels == <<"output_filename">>
             rung == <<2, 1, 1>>
  <2>1. /\ b.calls = <<Acquire({"output_filename"}, "done"),
                       Do("output_filename")>>
        /\ b.releases = <<"output_filename">>
        /\ b.exit = "done" /\ b.results = {"output_filename"}
        /\ b.cascades = {} /\ b.saves = {}
    BY <1>2, TableFacts DEF GetOutputFilename
  <2>2. Labelled(b, labels, 0)
    BY <2>1 DEF Labelled, Last
  <2>3. Climb(labels, 0, b.calls, Len(labels) + 1, 1)
    <3>1. rung \in [1 .. 3 -> 1 .. 2]
      OBVIOUS
    <3>2. Rungs(labels, 0, b.calls, rung)
      BY <2>1, CallFacts DEF Rungs, Fits
    <3>3. Len(b.calls) = 2 /\ Len(labels) = 1 /\ rung[1] = 2 /\ rung[3] = 1
      BY <2>1
    <3> HIDE DEF labels, rung
    <3> QED
      BY <3>1, <3>2, <3>3 DEF Climb
  <2>4. Leaves(b, labels, 1, 2)
    <3>1. From(b, 2) = {}
      BY <2>1 DEF From, Last
    <3> QED
      BY <2>1, <3>1 DEF Leaves, Exits, Last, Releases
  <2> HIDE DEF labels
  <2> QED
    BY <2>2, <2>3, <2>4, ClimbIsDisciplined
<1> QED
  BY <1>1, <1>2

(* The table of endorse_uuid_dictionary_add is disciplined.                *)
LEMMA DictionaryAddDisciplined ==
  ASSUME NEW copied \in BOOLEAN, NEW empty \in BOOLEAN
  PROVE  Disciplined(DictionaryAdd(copied, empty))
<1> SUFFICES ASSUME NEW b, b = DictionaryAdd(copied, empty) PROVE Disciplined(b)
  OBVIOUS
<1>1. CASE copied
  <2> DEFINE labels == <<"key", "entry">>
             rung == <<3, 2, 1, 1>>
  <2>1. /\ b.calls = <<Acquire({"entry"}, "done"),
                       [Acquire({"key"}, "done") EXCEPT !.outcomes = {"ok"}],
                       Do("key")>>
        /\ b.releases = <<"key", "entry">>
        /\ b.exit = "done" /\ b.results = {"entry", "key"}
        /\ b.cascades = {"entry"} /\ b.saves = {}
    BY <1>1, TableFacts DEF DictionaryAdd, Cascading, Table
  <2>c. PICK c : /\ c.acquires = {"key"} /\ c.outcomes = {"ok"}
                 /\ b.calls = <<Acquire({"entry"}, "done"), c, Do("key")>>
    <3> DEFINE c == [Acquire({"key"}, "done") EXCEPT !.outcomes = {"ok"}]
    <3>1. c.acquires = {"key"} /\ c.outcomes = {"ok"}
      BY CallFacts
    <3>2. b.calls = <<Acquire({"entry"}, "done"), c, Do("key")>>
      BY <2>1
    <3> HIDE DEF c
    <3> QED
      BY <3>1, <3>2
  <2>2. Labelled(b, labels, 0)
    BY <2>1 DEF Labelled, Last
  <2>3. Climb(labels, 0, b.calls, Len(labels) + 1, 1)
    <3>1. rung \in [1 .. 4 -> 1 .. 3]
      OBVIOUS
    <3>2. Rungs(labels, 0, b.calls, rung)
      BY <2>c, CallFacts DEF Rungs, Fits
    <3>3. Len(b.calls) = 3 /\ Len(labels) = 2 /\ rung[1] = 3 /\ rung[4] = 1
      BY <2>1
    <3> HIDE DEF labels, rung
    <3> QED
      BY <3>1, <3>2, <3>3 DEF Climb
  <2>4. Leaves(b, labels, 1, 3)
    <3>1. From(b, 3) = {}
      BY <2>1 DEF From, Last
    <3> QED
      BY <2>1, <3>1 DEF Leaves, Exits, Last, Releases
  <2> HIDE DEF labels
  <2> QED
    BY <2>2, <2>3, <2>4, ClimbIsDisciplined
<1>2. CASE ~copied /\ empty
  <2> DEFINE labels == <<"key", "entry">>
             rung == <<3, 2, 2, 2>>
  <2>1. /\ b.calls = <<Acquire({"entry"}, "done"),
                       [Acquire({}, "done") EXCEPT !.outcomes = {"ok"}],
                       Do("entry")>>
        /\ b.releases = <<"key", "entry">>
        /\ b.exit = "done" /\ b.results = {"entry"}
        /\ b.cascades = {"entry"} /\ b.saves = {}
    BY <1>2, TableFacts DEF DictionaryAdd, Cascading, Table
  <2>c. PICK c : /\ c.acquires = {} /\ c.outcomes = {"ok"}
                 /\ b.calls = <<Acquire({"entry"}, "done"), c, Do("entry")>>
    <3> DEFINE c == [Acquire({}, "done") EXCEPT !.outcomes = {"ok"}]
    <3>1. c.acquires = {} /\ c.outcomes = {"ok"}
      BY CallFacts
    <3>2. b.calls = <<Acquire({"entry"}, "done"), c, Do("entry")>>
      BY <2>1
    <3> HIDE DEF c
    <3> QED
      BY <3>1, <3>2
  <2>2. Labelled(b, labels, 0)
    BY <2>1 DEF Labelled, Last
  <2>3. Climb(labels, 0, b.calls, Len(labels) + 1, 2)
    <3>1. rung \in [1 .. 4 -> 1 .. 3]
      OBVIOUS
    <3>2. Rungs(labels, 0, b.calls, rung)
      BY <2>c, CallFacts DEF Rungs, Fits
    <3>3. Len(b.calls) = 3 /\ Len(labels) = 2 /\ rung[1] = 3 /\ rung[4] = 2
      BY <2>1
    <3> HIDE DEF labels, rung
    <3> QED
      BY <3>1, <3>2, <3>3 DEF Climb
  <2>4. Leaves(b, labels, 2, 3)
    <3>1. From(b, 3) = {}
      BY <2>1 DEF From, Last
    <3> QED
      BY <2>1, <3>1 DEF Leaves, Exits, Last, Releases
  <2> HIDE DEF labels
  <2> QED
    BY <2>2, <2>3, <2>4, ClimbIsDisciplined
<1>3. CASE ~copied /\ ~empty
  <2> DEFINE labels == <<"key", "entry">>
             rung == <<3, 2, 2, 2>>
  <2>1. /\ b.calls = <<Acquire({"entry"}, "done"),
                       [Acquire({}, "done") EXCEPT !.outcomes = {"ok"}],
                       May("crash", Do("entry"))>>
        /\ b.releases = <<"key", "entry">>
        /\ b.exit = "done" /\ b.results = {"entry"}
        /\ b.cascades = {"entry"} /\ b.saves = {}
    BY <1>3, TableFacts DEF DictionaryAdd, Cascading, Table
  <2>c. PICK c : /\ c.acquires = {} /\ c.outcomes = {"ok"}
                 /\ b.calls = <<Acquire({"entry"}, "done"), c, May("crash", Do("entry"))>>
    <3> DEFINE c == [Acquire({}, "done") EXCEPT !.outcomes = {"ok"}]
    <3>1. c.acquires = {} /\ c.outcomes = {"ok"}
      BY CallFacts
    <3>2. b.calls = <<Acquire({"entry"}, "done"), c, May("crash", Do("entry"))>>
      BY <2>1
    <3> HIDE DEF c
    <3> QED
      BY <3>1, <3>2
  <2>2. Labelled(b, labels, 0)
    BY <2>1 DEF Labelled, Last
  <2>3. Climb(labels, 0, b.calls, Len(labels) + 1, 2)
    <3>1. rung \in [1 .. 4 -> 1 .. 3]
      OBVIOUS
    <3>2. Rungs(labels, 0, b.calls, rung)
      BY <2>c, CallFacts DEF Rungs, Fits
    <3>3. Len(b.calls) = 3 /\ Len(labels) = 2 /\ rung[1] = 3 /\ rung[4] = 2
      BY <2>1
    <3> HIDE DEF labels, rung
    <3> QED
      BY <3>1, <3>2, <3>3 DEF Climb
  <2>4. Leaves(b, labels, 2, 3)
    <3>1. From(b, 3) = {}
      BY <2>1 DEF From, Last
    <3> QED
      BY <2>1, <3>1 DEF Leaves, Exits, Last, Releases
  <2> HIDE DEF labels
  <2> QED
    BY <2>2, <2>3, <2>4, ClimbIsDisciplined
<1> QED
  BY <1>1, <1>2, <1>3

(* The table of endorse_working_set_add_verb_capability is disciplined.    *)
LEMMA AddVerbCapabilityDisciplined ==
  ASSUME NEW exists \in BOOLEAN
  PROVE  Disciplined(AddVerbCapability(exists))
<1> SUFFICES ASSUME NEW b, b = AddVerbCapability(exists) PROVE Disciplined(b)
  OBVIOUS
<1>1. CASE exists
  <2> DEFINE labels == <<"entry">>
             rung == [i \in 1 .. 1 |-> 2]
  <2>1. /\ b.calls = <<>>
        /\ b.releases = <<"entry">>
        /\ b.exit = "done" /\ b.results = {}
        /\ b.cascades = {"entry"} /\ b.saves = {}
    BY <1>1, TableFacts DEF AddVerbCapability, Cascading, Table
  <2>2. Labelled(b, labels, 0)
    BY <2>1 DEF Labelled, Last
  <2>3. Climb(labels, 0, b.calls, Len(labels) + 1, 2)
    <3>1. rung \in [1 .. 1 -> 1 .. 2]
      OBVIOUS
    <3>2. Rungs(labels, 0, b.calls, rung)
      BY <2>1, CallFacts DEF Rungs, Fits
    <3>3. Len(b.calls) = 0 /\ Len(labels) = 1 /\ rung[1] = 2 /\ rung[1] = 2
      BY <2>1
    <3> HIDE DEF labels, rung
    <3> QED
      BY <3>1, <3>2, <3>3 DEF Climb
  <2>4. Leaves(b, labels, 2, 2)
    <3>1. From(b, 2) = {}
      BY <2>1 DEF From, Last
    <3> QED
      BY <2>1, <3>1 DEF Leaves, Exits, Last, Releases
  <2> HIDE DEF labels
  <2> QED
    BY <2>2, <2>3, <2>4, ClimbIsDisciplined
<1>2. CASE ~exists
  <2> DEFINE labels == <<"entry">>
             rung == <<2, 1, 1>>
  <2>1. /\ b.calls = <<Acquire({"entry"}, "done"),
                       Do("entry")>>
        /\ b.releases = <<"entry">>
        /\ b.exit = "done" /\ b.results = {"entry"}
        /\ b.cascades = {"entry"} /\ b.saves = {}
    BY <1>2, TableFacts DEF AddVerbCapability, Cascading, Table
  <2>2. Labelled(b, labels, 0)
    BY <2>1 DEF Labelled, Last
  <2>3. Climb(labels, 0, b.calls, Len(labels) + 1, 1)
    <3>1. rung \in [1 .. 3 -> 1 .. 2]
      OBVIOUS
    <3>2. Rungs(labels, 0, b.calls, rung)
      BY <2>1, CallFacts DEF Rungs, Fits
    <3>3. Len(b.calls) = 2 /\ Len(labels) = 1 /\ rung[1] = 2 /\ rung[3] = 1
      BY <2>1
    <3> HIDE DEF labels, rung
    <3> QED
      BY <3>1, <3>2, <3>3 DEF Climb
  <2>4. Leaves(b, labels, 1, 2)
    <3>1. From(b, 2) = {}
      BY <2>1 DEF From, Last
    <3> QED
      BY <2>1, <3>1 DEF Leaves, Exits, Last, Releases
  <2> HIDE DEF labels
  <2> QED
    BY <2>2, <2>3, <2>4, ClimbIsDisciplined
<1> QED
  BY <1>1, <1>2

EncryptLabels == <<"encrypted_cert_data", "encrypted_cert", "cipher", "mac", "prng", "mac_buffer",
                   "iv", "salt">>
DecryptLabels == <<"cert_data", "cert", "cipher", "mac", "salt", "mac_buffer">>
HeaderLabels == <<"mac", "block", "key", "mac_buffer", "record", "encrypted_key", "st_key",
                  "lt_key", "salt", "iv", "prng">>
KeypairLabels == <<"cert", "builder", "signature_pubkey", "signature_privkey", "signature",
                   "agreement_pubkey", "agreement_privkey", "agreement", "uuid", "prng">>

(* The calls that set up certificate_encrypt climb to the top,             *)
LEMMA EncryptSetUpClimbs ==
  Climb(EncryptLabels, 0, EncryptSetUp, 9, 1) /\ IsSequence(EncryptSetUp)
<1> DEFINE rung == <<9, 8, 7, 6, 5, 5, 5, 3, 2, 1>>
<1>1. rung \in [1 .. 10 -> 1 .. 9]
  OBVIOUS
<1>2. Rungs(EncryptLabels, 0, EncryptSetUp, rung)
  BY CallFacts DEF Rungs, Fits, EncryptLabels, EncryptSetUp
<1>3. Len(EncryptSetUp) = 9 /\ Len(EncryptLabels) = 8 /\ rung[1] = 9 /\ rung[10] = 1
  BY DEF EncryptLabels, EncryptSetUp
<1>4. IsSequence(EncryptSetUp)
  <2>1. EncryptSetUp \in Seq({EncryptSetUp[i] : i \in 1 .. 9})
    BY DEF EncryptSetUp
  <2> QED
    BY <2>1 DEF IsSequence
<1> HIDE DEF rung
<1> QED
  BY <1>1, <1>2, <1>3, <1>4 DEF Climb

(* where those that fill in the record stay.                               *)
LEMMA EncryptRecordClimbs ==
  ASSUME NEW c, NEW p, NEW r
  PROVE  Climb(EncryptLabels, 0, EncryptRecord(c, p, r), 1, 1) /\ IsSequence(EncryptRecord(c, p, r))
<1> DEFINE rung == <<1, 1, 1, 1, 1, 1, 1, 1, 1, 1, 1, 1>>
           s == EncryptRecord(c, p, r)
<1>1. rung \in [1 .. 12 -> 1 .. 9]
  OBVIOUS
<1>2. Len(s) = 11 /\ Len(EncryptLabels) = 8 /\ rung[1] = 1 /\ rung[12] = 1
  BY DEF EncryptLabels, EncryptRecord
<1>3. s[1].acquires = {} /\ s[1].outcomes = {"ok"}
  BY CallFacts, ReadFacts DEF EncryptRecord
<1>4. s[2].acquires = {} /\ s[2].fails = "encrypted_cert_data"
  BY CallFacts, ReadFacts DEF EncryptRecord
<1>5. s[3].acquires = {} /\ s[3].outcomes = {"ok"}
  BY CallFacts, ReadFacts DEF EncryptRecord
<1>6. s[4].acquires = {} /\ s[4].fails = "encrypted_cert_data"
  BY CallFacts, ReadFacts DEF EncryptRecord
<1>7. s[5].acquires = {} /\ s[5].outcomes = {"ok"}
  BY CallFacts, ReadFacts DEF EncryptRecord
<1>8. s[6].acquires = {} /\ s[6].fails = "encrypted_cert_data"
  BY CallFacts, ReadFacts DEF EncryptRecord
<1>9. s[7].acquires = {} /\ s[7].fails = "encrypted_cert_data"
  BY CallFacts, ReadFacts DEF EncryptRecord, Do
<1>10. s[8].acquires = {} /\ s[8].fails = "encrypted_cert_data"
  BY CallFacts, ReadFacts DEF EncryptRecord, Do
<1>11. s[9].acquires = {} /\ s[9].fails = "encrypted_cert_data"
  BY CallFacts, ReadFacts DEF EncryptRecord
<1>12. s[10].acquires = {} /\ s[10].fails = "encrypted_cert_data"
  BY CallFacts, ReadFacts DEF EncryptRecord
<1>13. s[11].acquires = {} /\ s[11].outcomes = {"ok"}
  BY CallFacts, ReadFacts DEF EncryptRecord
<1>14. IsSequence(s)
  <2>1. s \in Seq({s[i] : i \in 1 .. 11})
    BY DEF EncryptRecord
  <2> QED
    BY <2>1 DEF IsSequence
<1> HIDE DEF s
<1>15. Rungs(EncryptLabels, 0, s, rung)
  BY <1>2, <1>3, <1>4, <1>5, <1>6, <1>7, <1>8, <1>9, <1>10, <1>11, <1>12, <1>13 DEF Rungs, Fits, EncryptLabels
<1> HIDE DEF rung
<1>16. Climb(EncryptLabels, 0, s, 1, 1)
  BY <1>1, <1>2, <1>15 DEF Climb
<1> QED
  BY <1>14, <1>16 DEF s

(* Those of certificate_decrypt climb up to the certificate,               *)
LEMMA DecryptHeaderClimbs ==
  ASSUME NEW file
  PROVE  Climb(DecryptLabels, 0, DecryptHeader(file), 7, 2) /\ IsSequence(DecryptHeader(file))
<1> DEFINE rung == <<7, 6, 5, 5, 5, 3, 2>>
           s == DecryptHeader(file)
<1>1. rung \in [1 .. 7 -> 1 .. 7]
  OBVIOUS
<1>2. Len(s) = 6 /\ Len(DecryptLabels) = 6 /\ rung[1] = 7 /\ rung[7] = 2
  BY DEF DecryptLabels, DecryptHeader
<1>3. s[1].acquires = {"mac_buffer"} /\ s[1].fails = "done"
  BY CallFacts, ReadFacts DEF DecryptHeader
<1>4. s[2].acquires = {"salt"} /\ s[2].fails = "mac_buffer"
  BY CallFacts, ReadFacts DEF DecryptHeader
<1>5. s[3].acquires = {} /\ s[3].fails = "salt"
  BY CallFacts, ReadFacts DEF DecryptHeader
<1>6. s[4].acquires = {} /\ s[4].fails = "salt"
  BY CallFacts, ReadFacts DEF DecryptHeader
<1>7. s[5].acquires = {"cipher", "mac"} /\ s[5].fails = "salt"
  BY CallFacts, ReadFacts DEF DecryptHeader
<1>8. s[6].acquires = {"cert"} /\ s[6].fails = "cipher"
  BY CallFacts, ReadFacts DEF DecryptHeader
<1>9. IsSequence(s)
  <2>1. s \in Seq({s[i] : i \in 1 .. 6})
    BY DEF DecryptHeader
  <2> QED
    BY <2>1 DEF IsSequence
<1> HIDE DEF s
<1>10. Rungs(DecryptLabels, 0, s, rung)
  BY <1>2, <1>3, <1>4, <1>5, <1>6, <1>7, <1>8 DEF Rungs, Fits, DecryptLabels
<1> HIDE DEF rung
<1>11. Climb(DecryptLabels, 0, s, 7, 2)
  BY <1>1, <1>2, <1>10 DEF Climb
<1> QED
  BY <1>9, <1>11 DEF s

(* whose buffer is the first of what the others acquire.                   *)
LEMMA DecryptRecordClimbs ==
  ASSUME NEW file, NEW p
  PROVE  Climb(DecryptLabels, 0, DecryptRecord(file, p), 2, 1) /\ IsSequence(DecryptRecord(file, p))
<1> DEFINE rung == <<2, 1, 1, 1, 1, 1, 1>>
           s == DecryptRecord(file, p)
<1>1. rung \in [1 .. 7 -> 1 .. 7]
  OBVIOUS
<1>2. Len(s) = 6 /\ Len(DecryptLabels) = 6 /\ rung[1] = 2 /\ rung[7] = 1
  BY DEF DecryptLabels, DecryptRecord
<1>3. s[1].acquires = {"cert_data"} /\ s[1].fails = "cert"
  BY CallFacts, ReadFacts DEF DecryptRecord
<1>4. s[2].acquires = {} /\ s[2].fails = "cert_data"
  BY CallFacts, ReadFacts DEF DecryptRecord
<1>5. s[3].acquires = {} /\ s[3].fails = "cert_data"
  BY CallFacts, ReadFacts DEF DecryptRecord
<1>6. s[4].acquires = {} /\ s[4].fails = "cert_data"
  BY CallFacts, ReadFacts DEF DecryptRecord
<1>7. s[5].acquires = {} /\ s[5].fails = "cert_data"
  BY CallFacts, ReadFacts DEF DecryptRecord
<1>8. s[6].acquires = {} /\ s[6].fails = "cert_data"
  BY DEF DecryptRecord, Read, Do
<1>9. IsSequence(s)
  <2>1. s \in Seq({s[i] : i \in 1 .. 6})
    BY DEF DecryptRecord
  <2> QED
    BY <2>1 DEF IsSequence
<1> HIDE DEF s
<1>10. Rungs(DecryptLabels, 0, s, rung)
  BY <1>2, <1>3, <1>4, <1>5, <1>6, <1>7, <1>8 DEF Rungs, Fits, DecryptLabels
<1> HIDE DEF rung
<1>11. Climb(DecryptLabels, 0, s, 2, 1)
  BY <1>1, <1>2, <1>10 DEF Climb
<1> QED
  BY <1>9, <1>11 DEF s

(* The calls that set up the header of a backup climb,                     *)
LEMMA HeaderSetUpClimbs ==
  ASSUME NEW valid
  PROVE  Climb(HeaderLabels, 0, HeaderSetUp(valid), 12, 4) /\ IsSequence(HeaderSetUp(valid))
<1> DEFINE rung == <<12, 12, 11, 10, 9, 8, 7, 6, 5, 4, 4, 4, 4>>
<1>1. rung \in [1 .. 13 -> 1 .. 12]
  OBVIOUS
<1>2. Rungs(HeaderLabels, 0, HeaderSetUp(valid), rung)
  BY CallFacts DEF Rungs, Fits, HeaderLabels, HeaderSetUp
<1>3. Len(HeaderSetUp(valid)) = 12 /\ Len(HeaderLabels) = 11 /\ rung[1] = 12 /\ rung[13] = 4
  BY DEF HeaderLabels, HeaderSetUp
<1>4. IsSequence(HeaderSetUp(valid))
  <2>1. HeaderSetUp(valid) \in Seq({HeaderSetUp(valid)[i] : i \in 1 .. 12})
    BY DEF HeaderSetUp
  <2> QED
    BY <2>1 DEF IsSequence
<1> HIDE DEF rung
<1> QED
  BY <1>1, <1>2, <1>3, <1>4 DEF Climb

(* those that make the keys climb to the top,                              *)
LEMMA HeaderKeysClimbs ==
  Climb(HeaderLabels, 0, HeaderKeys, 4, 1) /\ IsSequence(HeaderKeys)
<1> DEFINE rung == <<4, 3, 3, 2, 2, 2, 1>>
<1>1. rung \in [1 .. 7 -> 1 .. 12]
  OBVIOUS
<1>2. Rungs(HeaderLabels, 0, HeaderKeys, rung)
  BY CallFacts DEF Rungs, Fits, HeaderLabels, HeaderKeys
<1>3. Len(HeaderKeys) = 6 /\ Len(HeaderLabels) = 11 /\ rung[1] = 4 /\ rung[7] = 1
  BY DEF HeaderLabels, HeaderKeys
<1>4. IsSequence(HeaderKeys)
  <2>1. HeaderKeys \in Seq({HeaderKeys[i] : i \in 1 .. 6})
    BY DEF HeaderKeys
  <2> QED
    BY <2>1 DEF IsSequence
<1> HIDE DEF rung
<1> QED
  BY <1>1, <1>2, <1>3, <1>4 DEF Climb

(* where those that fill in the record                                     *)
LEMMA HeaderRecordClimbs ==
  ASSUME NEW p, NEW r
  PROVE  Climb(HeaderLabels, 0, HeaderRecord(p, r), 1, 1) /\ IsSequence(HeaderRecord(p, r))
<1> DEFINE rung == <<1, 1, 1, 1, 1>>
<1>1. rung \in [1 .. 5 -> 1 .. 12]
  OBVIOUS
<1>2. Rungs(HeaderLabels, 0, HeaderRecord(p, r), rung)
  BY CallFacts DEF Rungs, Fits, HeaderLabels, HeaderRecord
<1>3. Len(HeaderRecord(p, r)) = 4 /\ Len(HeaderLabels) = 11 /\ rung[1] = 1 /\ rung[5] = 1
  BY DEF HeaderLabels, HeaderRecord
<1>4. IsSequence(HeaderRecord(p, r))
  <2>1. HeaderRecord(p, r) \in Seq({HeaderRecord(p, r)[i] : i \in 1 .. 4})
    BY DEF HeaderRecord
  <2> QED
    BY <2>1 DEF IsSequence
<1> HIDE DEF rung
<1> QED
  BY <1>1, <1>2, <1>3, <1>4 DEF Climb

(* and those that write it to the file stay.                               *)
LEMMA HeaderFileClimbs ==
  Climb(HeaderLabels, 0, HeaderFile, 1, 1) /\ IsSequence(HeaderFile)
<1> DEFINE rung == <<1, 1, 1>>
           s == HeaderFile
<1>1. rung \in [1 .. 3 -> 1 .. 12]
  OBVIOUS
<1>2. Len(s) = 2 /\ Len(HeaderLabels) = 11 /\ rung[1] = 1 /\ rung[3] = 1
  BY DEF HeaderLabels, HeaderFile
<1>3. s[1].acquires = {} /\ s[1].fails = "mac"
  BY CallFacts, ReadFacts DEF HeaderFile, Do
<1>4. s[2].acquires = {} /\ s[2].fails = "mac"
  BY CallFacts, ReadFacts DEF HeaderFile, Do
<1>5. IsSequence(s)
  <2>1. \A c1, c2 : <<c1, c2>> \in Seq({c1, c2})
    OBVIOUS
  <2> DEFINE c1 == [Do("mac") EXCEPT !.stores = TRUE]
             c2 == [Do("mac") EXCEPT !.check = TRUE]
  <2>2. s = <<c1, c2>>
    BY DEF HeaderFile
  <2> HIDE DEF s, c1, c2
  <2> QED
    BY <2>1, <2>2 DEF IsSequence
<1> HIDE DEF s
<1>6. Rungs(HeaderLabels, 0, s, rung)
  BY <1>2, <1>3, <1>4 DEF Rungs, Fits, HeaderLabels
<1> HIDE DEF rung
<1>7. Climb(HeaderLabels, 0, s, 1, 1)
  BY <1>1, <1>2, <1>6 DEF Climb
<1> QED
  BY <1>5, <1>7 DEF s

(* The calls that make the keys of a keypair climb to the builder,         *)
LEMMA KeypairSetUpClimbs ==
  Climb(KeypairLabels, 1, KeypairSetUp, 11, 3) /\ IsSequence(KeypairSetUp)
<1> DEFINE rung == <<11, 10, 9, 9, 8, 7, 6, 6, 5, 4, 3, 3>>
<1>1. rung \in [1 .. 12 -> 1 .. 11]
  OBVIOUS
<1>2. Rungs(KeypairLabels, 1, KeypairSetUp, rung)
  BY CallFacts DEF Rungs, Fits, KeypairLabels, KeypairSetUp
<1>3. Len(KeypairSetUp) = 11 /\ Len(KeypairLabels) = 10 /\ rung[1] = 11 /\ rung[12] = 3
  BY DEF KeypairLabels, KeypairSetUp
<1>4. IsSequence(KeypairSetUp)
  <2>1. KeypairSetUp \in Seq({KeypairSetUp[i] : i \in 1 .. 11})
    BY DEF KeypairSetUp
  <2> QED
    BY <2>1 DEF IsSequence
<1> HIDE DEF rung
<1> QED
  BY <1>1, <1>2, <1>3, <1>4 DEF Climb

(* whose calls climb to the certificate.                                   *)
LEMMA KeypairFieldsClimbs ==
  Climb(KeypairLabels, 1, KeypairFields, 3, 1) /\ IsSequence(KeypairFields)
<1> DEFINE rung == <<3, 2, 2, 2, 2, 2, 2, 2, 2, 2, 1>>
<1>1. rung \in [1 .. 11 -> 1 .. 11]
  OBVIOUS
<1>2. Rungs(KeypairLabels, 1, KeypairFields, rung)
  BY CallFacts DEF Rungs, Fits, KeypairLabels, KeypairFields
<1>3. Len(KeypairFields) = 10 /\ Len(KeypairLabels) = 10 /\ rung[1] = 3 /\ rung[11] = 1
  BY DEF KeypairLabels, KeypairFields
<1>4. IsSequence(KeypairFields)
  <2>1. KeypairFields \in Seq({KeypairFields[i] : i \in 1 .. 10})
    BY DEF KeypairFields
  <2> QED
    BY <2>1 DEF IsSequence
<1> HIDE DEF rung
<1> QED
  BY <1>1, <1>2, <1>3, <1>4 DEF Climb

(* The table of certificate_encrypt is disciplined.                        *)
LEMMA CertificateEncryptDisciplined ==
  ASSUME NEW c, NEW p, NEW r
  PROVE  Disciplined(CertificateEncrypt(c, p, r))
<1> SUFFICES ASSUME NEW b, b = CertificateEncrypt(c, p, r) PROVE Disciplined(b)
  OBVIOUS
<1>1. /\ b.calls = EncryptSetUp \o EncryptRecord(c, p, r)
      /\ b.releases = EncryptLabels
      /\ b.exit = "cipher" /\ b.results = {"encrypted_cert", "encrypted_cert_data"}
      /\ b.cascades = {} /\ b.saves = {}
  BY DEF CertificateEncrypt, EncryptLabels, Table
<1>2. Len(EncryptLabels) = 8 /\ Len(EncryptLabels) \in Nat
  BY DEF EncryptLabels
<1>3. Climb(EncryptLabels, 0, b.calls, Len(EncryptLabels) + 1, 1) /\ IsSequence(b.calls)
  BY ONLY <1>1, <1>2, EncryptSetUpClimbs, EncryptRecordClimbs, ClimbOn
<1>4. Labelled(b, EncryptLabels, 0)
  <2>1. Len(b.calls) \in Nat
    BY <1>3 DEF IsSequence
  <2> QED
    BY <1>1, <2>1 DEF Labelled, Last, EncryptLabels
<1>5. Leaves(b, EncryptLabels, 1, 3)
  <2>1. From(b, 3) = {"cipher", "mac", "prng", "mac_buffer", "iv", "salt"}
    BY <1>1 DEF From, Last, EncryptLabels
  <2> QED
    BY <1>1, <2>1 DEF Leaves, Exits, Last, Releases, EncryptLabels
<1> QED
  BY <1>3, <1>4, <1>5, ClimbIsDisciplined

(* The table of certificate_decrypt is disciplined.                        *)
LEMMA CertificateDecryptDisciplined ==
  ASSUME NEW file, NEW p
  PROVE  Disciplined(CertificateDecrypt(file, p))
<1> SUFFICES ASSUME NEW b, b = CertificateDecrypt(file, p) PROVE Disciplined(b)
  OBVIOUS
<1>1. /\ b.calls = DecryptHeader(file) \o DecryptRecord(file, p)
      /\ b.releases = DecryptLabels
      /\ b.exit = "cipher" /\ b.results = {"cert", "cert_data"}
      /\ b.cascades = {} /\ b.saves = {}
  BY DEF CertificateDecrypt, DecryptLabels, Table
<1>2. Len(DecryptLabels) = 6 /\ Len(DecryptLabels) \in Nat
  BY DEF DecryptLabels
<1>3. Climb(DecryptLabels, 0, b.calls, Len(DecryptLabels) + 1, 1) /\ IsSequence(b.calls)
  BY ONLY <1>1, <1>2, DecryptHeaderClimbs, DecryptRecordClimbs, ClimbOn
<1>4. Labelled(b, DecryptLabels, 0)
  <2>1. Len(b.calls) \in Nat
    BY <1>3 DEF IsSequence
  <2> QED
    BY <1>1, <2>1 DEF Labelled, Last, DecryptLabels
<1>5. Leaves(b, DecryptLabels, 1, 3)
  <2>1. From(b, 3) = {"cipher", "mac", "salt", "mac_buffer"}
    BY <1>1 DEF From, Last, DecryptLabels
  <2> QED
    BY <1>1, <2>1 DEF Leaves, Exits, Last, Releases, DecryptLabels
<1> QED
  BY <1>3, <1>4, <1>5, ClimbIsDisciplined

(* The table of backup_file_encryption_header_write is disciplined.        *)
LEMMA HeaderWriteDisciplined ==
  ASSUME NEW valid, NEW p, NEW r
  PROVE  Disciplined(HeaderWrite(valid, p, r))
<1> SUFFICES ASSUME NEW b, b = HeaderWrite(valid, p, r) PROVE Disciplined(b)
  OBVIOUS
<1>1. /\ b.calls = HeaderSetUp(valid) \o HeaderKeys \o HeaderRecord(p, r) \o HeaderFile
      /\ b.releases = HeaderLabels
      /\ b.exit = "mac" /\ b.results = {}
      /\ b.cascades = {} /\ b.saves = {}
  BY DEF HeaderWrite, HeaderLabels, Table
<1>2. Len(HeaderLabels) = 11 /\ Len(HeaderLabels) \in Nat
  BY DEF HeaderLabels
<1>3. Climb(HeaderLabels, 0, b.calls, Len(HeaderLabels) + 1, 1) /\ IsSequence(b.calls)
  <2>1. /\ Climb(HeaderLabels, 0, HeaderSetUp(valid) \o HeaderKeys, 12, 1)
        /\ IsSequence(HeaderSetUp(valid) \o HeaderKeys)
    BY ONLY <1>2, HeaderSetUpClimbs, HeaderKeysClimbs, ClimbOn
  <2>2. /\ Climb(HeaderLabels, 0, HeaderSetUp(valid) \o HeaderKeys \o HeaderRecord(p, r), 12, 1)
        /\ IsSequence(HeaderSetUp(valid) \o HeaderKeys \o HeaderRecord(p, r))
    BY ONLY <1>2, <2>1, HeaderRecordClimbs, ClimbOn
  <2> QED
    BY ONLY <1>1, <1>2, <2>2, HeaderFileClimbs, ClimbOn
<1>4. Labelled(b, HeaderLabels, 0)
  <2>1. Len(b.calls) \in Nat
    BY <1>3 DEF IsSequence
  <2> QED
    BY <1>1, <2>1 DEF Labelled, Last, HeaderLabels
<1>5. Leaves(b, HeaderLabels, 1, 1)
  <2>1. From(b, 1) = {"mac", "block", "key", "mac_buffer", "record", "encrypted_key", "st_key", "lt_key", "salt", "iv", "prng"}
    BY <1>1 DEF From, Last, HeaderLabels
  <2> QED
    BY <1>1, <2>1 DEF Leaves, Exits, Last, Releases, HeaderLabels
<1> QED
  BY <1>3, <1>4, <1>5, ClimbIsDisciplined

(* The table of keypair_certificate_create is disciplined.                 *)
LEMMA KeypairCertificateCreateDisciplined ==
  Disciplined(KeypairCertificateCreate)
<1> SUFFICES ASSUME NEW b, b = KeypairCertificateCreate PROVE Disciplined(b)
  OBVIOUS
<1>1. /\ b.calls = KeypairSetUp \o KeypairFields
      /\ b.releases = <<"builder", "signature_pubkey", "signature_privkey", "signature",
                       "agreement_pubkey", "agreement_privkey", "agreement", "uuid", "prng">>
      /\ b.exit = "builder" /\ b.results = {"cert"}
      /\ b.cascades = {} /\ b.saves = {}
  BY DEF KeypairCertificateCreate, KeypairLabels, Table
<1>2. Len(KeypairLabels) = 10 /\ Len(KeypairLabels) \in Nat
  BY DEF KeypairLabels
<1>3. Climb(KeypairLabels, 1, b.calls, Len(KeypairLabels) + 1, 1) /\ IsSequence(b.calls)
  BY ONLY <1>1, <1>2, KeypairSetUpClimbs, KeypairFieldsClimbs, ClimbOn
<1>4. Labelled(b, KeypairLabels, 1)
  <2>1. Len(b.calls) \in Nat
    BY <1>3 DEF IsSequence
  <2> QED
    BY <1>1, <2>1 DEF Labelled, Last, KeypairLabels
<1>5. Leaves(b, KeypairLabels, 1, 1)
  <2>1. From(b, 1) = {"builder", "signature_pubkey", "signature_privkey", "signature", "agreement_pubkey", "agreement_privkey", "agreement", "uuid", "prng"}
    BY <1>1 DEF From, Last, KeypairLabels
  <2> QED
    BY <1>1, <2>1 DEF Leaves, Exits, Last, Releases, KeypairLabels
<1> QED
  BY <1>3, <1>4, <1>5, ClimbIsDisciplined

(* Sequences can be put together one after the other.                      *)
LEMMA PutTogether ==
  ASSUME NEW N \in Nat, NEW E
  PROVE  \E g : g = [n \in 0 .. N |-> IF n = 0 THEN <<>> ELSE g[n - 1] \o E[n]]
<1> DEFINE Good(g, k) == g = [n \in 0 .. k |-> IF n = 0 THEN <<>> ELSE g[n - 1] \o E[n]]
           S == {k \in Nat : \E g : Good(g, k)}
<1>1. 0 \in S
  <2> DEFINE g == [n \in 0 .. 0 |-> <<>>]
  <2>1. g = [n \in 0 .. 0 |-> IF n = 0 THEN <<>> ELSE g[n - 1] \o E[n]]
    OBVIOUS
  <2>2. Good(g, 0)
    BY <2>1
  <2> HIDE DEF g, Good
  <2> QED
    BY <2>2
<1>2. ASSUME NEW k \in Nat, k \in S PROVE k + 1 \in S
  <2>1. PICK g : Good(g, k)
    BY <1>2
  <2> DEFINE h == [n \in 0 .. k + 1 |-> IF n <= k THEN g[n] ELSE g[k] \o E[k + 1]]
  <2>2. ASSUME NEW n \in 0 .. k + 1
        PROVE  h[n] = IF n = 0 THEN <<>> ELSE h[n - 1] \o E[n]
    <3>1. CASE n = 0
      BY <2>1, <3>1
    <3>2. CASE n \in 1 .. k
      <4>1. n \in 0 .. k /\ n - 1 \in 0 .. k + 1 /\ n - 1 <= k /\ n <= k /\ n # 0
        BY <3>2
      <4>2. h[n] = g[n] /\ h[n - 1] = g[n - 1]
        BY <4>1
      <4>3. g[n] = g[n - 1] \o E[n]
        BY <2>1, <4>1
      <4> HIDE DEF h
      <4> QED
        BY <4>1, <4>2, <4>3
    <3>3. CASE n = k + 1
      <4>1. n # 0 /\ ~(n <= k) /\ n - 1 = k /\ n - 1 \in 0 .. k + 1 /\ k <= k
        BY <3>3
      <4>2. h[n] = g[k] \o E[k + 1] /\ h[n - 1] = g[k]
        BY <4>1
      <4> HIDE DEF h
      <4> QED
        BY <3>3, <4>1, <4>2
    <3> QED
      BY <3>1, <3>2, <3>3
  <2>3. h = [n \in 0 .. k + 1 |-> h[n]]
    OBVIOUS
  <2>4. Good(h, k + 1)
    <3> HIDE DEF h
    <3> QED
      BY <2>2, <2>3
  <2> HIDE DEF h, Good
  <2> QED
    BY <2>4
<1>3. N \in S
  <2> HIDE DEF S
  <2> QED
    BY <1>1, <1>2, SetInduction
<1> QED
  BY <1>3

(* Without calls one stays where one is.                                   *)
LEMMA NothingClimbs ==
  ASSUME NEW labels, NEW top, Len(labels) \in Nat, NEW d \in 1 .. Len(labels) + 1
  PROVE  Climb(labels, top, <<>>, d, d) /\ IsSequence(<<>>)
<1>1. Len(<<>>) = 0 /\ Len(<<>>) + 1 = 1
  OBVIOUS
<1>2. IsSequence(<<>>)
  <2>1. << >> \in Seq({})
    OBVIOUS
  <2> QED
    BY <2>1 DEF IsSequence
<1>3. PICK s : s = <<>>
  OBVIOUS
<1> DEFINE rung == [i \in 1 .. 1 |-> d]
<1>4. rung \in [1 .. Len(s) + 1 -> 1 .. Len(labels) + 1] /\ rung[1] = d /\ rung[Len(s) + 1] = d
  BY <1>1, <1>3
<1>5. Rungs(labels, top, s, rung)
  BY <1>1, <1>3 DEF Rungs
<1> HIDE DEF rung
<1>6. Climb(labels, top, s, d, d)
  BY <1>4, <1>5 DEF Climb
<1> QED
  BY <1>2, <1>3, <1>6

EmitLabels == <<"parser", "parser_options">>

(* What endorse_emit_public_certificate_fields calls for a field.          *)
EmitField(f) ==
  <<[Do("parser") EXCEPT !.writes = <<f>>]>>
    \o (IF f[1] = "artifact_id" THEN <<Check(f[2] # "bad_size", "parser")>> ELSE <<>>)

(* These calls stay at the label of the parser,                            *)
LEMMA EmitFieldClimbs ==
  ASSUME NEW f
  PROVE  Climb(EmitLabels, 0, EmitField(f), 1, 1) /\ IsSequence(EmitField(f))
<1>1. Len(EmitLabels) = 2 /\ Len(EmitLabels) \in Nat
  BY DEF EmitLabels
<1>2. ASSUME NEW c, c.acquires = {}, c.fails = "parser"
      PROVE  Climb(EmitLabels, 0, <<c>>, 1, 1) /\ IsSequence(<<c>>)
  <2> DEFINE rung == <<1, 1>>
  <2>1. PICK s : s = <<c>>
    OBVIOUS
  <2>2. Len(s) = 1 /\ s[1] = c
    BY <2>1
  <2>3. s \in Seq({c})
    BY <2>1
  <2>4. rung \in [1 .. 2 -> 1 .. 3] /\ rung[1] = 1 /\ rung[2] = 1
    OBVIOUS
  <2>5. Rungs(EmitLabels, 0, s, rung)
    BY <1>2, <2>2 DEF Rungs, Fits, EmitLabels
  <2> HIDE DEF rung
  <2>6. Climb(EmitLabels, 0, s, 1, 1)
    BY <1>1, <2>2, <2>4, <2>5 DEF Climb
  <2>7. IsSequence(s)
    BY <2>3 DEF IsSequence
  <2> QED
    BY <2>1, <2>6, <2>7
<1>3. Climb(EmitLabels, 0, <<>>, 1, 1) /\ IsSequence(<<>>)
  BY <1>1, NothingClimbs
<1> DEFINE emit == [Do("parser") EXCEPT !.writes = <<f>>]
           check == Check(f[2] # "bad_size", "parser")
<1>4. Climb(EmitLabels, 0, <<emit>>, 1, 1) /\ IsSequence(<<emit>>)
  <2>1. emit.acquires = {} /\ emit.fails = "parser"
    BY CallFacts
  <2> HIDE DEF emit
  <2> QED
    BY <1>2, <2>1
<1>5. Climb(EmitLabels, 0, <<check>>, 1, 1) /\ IsSequence(<<check>>)
  <2>1. check.acquires = {} /\ check.fails = "parser"
    BY DEF Check, Do
  <2> HIDE DEF check
  <2> QED
    BY <1>2, <2>1
<1>6. EmitField(f) = <<emit>> \o (IF f[1] = "artifact_id" THEN <<check>> ELSE <<>>)
  BY Zenon DEF EmitField
<1> HIDE DEF emit, check
<1>7. CASE f[1] = "artifact_id"
  BY <1>1, <1>4, <1>5, <1>6, <1>7, ClimbOn
<1>8. CASE f[1] # "artifact_id"
  BY <1>1, <1>3, <1>4, <1>6, <1>8, ClimbOn
<1> QED
  BY <1>7, <1>8

(* and so its table is disciplined for any fields.                         *)
LEMMA EmitPublicFieldsDisciplined ==
  ASSUME NEW fields, Len(fields) \in Nat
  PROVE  Disciplined(EmitPublicFields(fields))
<1> SUFFICES ASSUME NEW b, b = EmitPublicFields(fields) PROVE Disciplined(b)
  OBVIOUS
<1> DEFINE N == Len(fields)
           emits == CHOOSE g : g = [n \in 0 .. N |-> IF n = 0 THEN <<>>
                                                     ELSE g[n - 1] \o EmitField(fields[n])]
           start == <<Acquire({"parser_options"}, "done"),
                      Acquire({"parser"}, "parser_options"), Do("parser")>>
<1>1. /\ b.calls = start \o emits[N]
      /\ b.releases = EmitLabels /\ b.exit = "parser"
      /\ b.results = {} /\ b.cascades = {} /\ b.saves = {}
  BY DEF EmitPublicFields, EmitField, EmitLabels, Table
<1>2. emits = [n \in 0 .. N |-> IF n = 0 THEN <<>> ELSE emits[n - 1] \o EmitField(fields[n])]
  <2> DEFINE E == [n \in 1 .. N |-> EmitField(fields[n])]
  <2>1. PICK g : g = [n \in 0 .. N |-> IF n = 0 THEN <<>> ELSE g[n - 1] \o E[n]]
    BY PutTogether
  <2>2. g = [n \in 0 .. N |-> IF n = 0 THEN <<>> ELSE g[n - 1] \o EmitField(fields[n])]
    <3>1. \A n \in 0 .. N : n # 0 => E[n] = EmitField(fields[n])
      OBVIOUS
    <3> HIDE DEF E, N
    <3> QED
      BY <2>1, <3>1
  <2> HIDE DEF N
  <2> QED
    BY <2>2
<1> HIDE DEF emits
<1>3. Len(EmitLabels) = 2 /\ Len(EmitLabels) \in Nat
  BY DEF EmitLabels
<1>4. Climb(EmitLabels, 0, emits[N], 1, 1) /\ IsSequence(emits[N])
  <2> DEFINE S == {n \in Nat : n \in 0 .. N => Climb(EmitLabels, 0, emits[n], 1, 1) /\ IsSequence(emits[n])}
  <2>1. 0 \in S
    <3>1. emits[0] = <<>>
      BY <1>2
    <3> QED
      BY <1>3, <3>1, NothingClimbs
  <2>2. ASSUME NEW n \in Nat, n \in S PROVE n + 1 \in S
    <3> SUFFICES ASSUME n + 1 \in 0 .. N
                 PROVE  Climb(EmitLabels, 0, emits[n + 1], 1, 1) /\ IsSequence(emits[n + 1])
      OBVIOUS
    <3>1. n \in 0 .. N /\ n + 1 # 0 /\ (n + 1) - 1 = n
      OBVIOUS
    <3>2. emits[n + 1] = emits[n] \o EmitField(fields[n + 1])
      <4> HIDE DEF N
      <4> QED
        BY <1>2, <3>1
    <3> QED
      BY <1>3, <2>2, <3>1, <3>2, EmitFieldClimbs, ClimbOn
  <2>3. N \in S
    <3> HIDE DEF S
    <3> QED
      BY <2>1, <2>2, SetInduction
  <2> QED
    BY <2>3
<1>5. Climb(EmitLabels, 0, start, 3, 1) /\ IsSequence(start)
  <2> DEFINE rung == <<3, 2, 1, 1>>
  <2>1. rung \in [1 .. 4 -> 1 .. 3]
    OBVIOUS
  <2>2. Rungs(EmitLabels, 0, start, rung)
    BY CallFacts DEF Rungs, Fits, EmitLabels
  <2>3. Len(start) = 3 /\ rung[1] = 3 /\ rung[4] = 1
    OBVIOUS
  <2>4. start \in Seq({start[i] : i \in 1 .. 3})
    OBVIOUS
  <2> HIDE DEF start, rung
  <2> QED
    BY <1>3, <2>1, <2>2, <2>3, <2>4 DEF Climb, IsSequence
<1> HIDE DEF start, N
<1>6. Climb(EmitLabels, 0, b.calls, Len(EmitLabels) + 1, 1) /\ IsSequence(b.calls)
  BY ONLY <1>1, <1>3, <1>4, <1>5, ClimbOn
<1>7. Labelled(b, EmitLabels, 0)
  <2>1. Len(b.calls) \in Nat
    BY <1>6 DEF IsSequence
  <2> QED
    BY <1>1, <2>1 DEF Labelled, Last, EmitLabels
<1>8. Leaves(b, EmitLabels, 1, 1)
  <2>1. From(b, 1) = {"parser", "parser_options"}
    BY <1>1 DEF From, Last, EmitLabels
  <2> QED
    BY <1>1, <2>1 DEF Leaves, Exits, Last, Releases, EmitLabels
<1> QED
  BY <1>6, <1>7, <1>8, ClimbIsDisciplined

CertLabels == <<"fd", "cert">>

(* The tables of the routines that read a certificate are disciplined.     *)
LEMMA ReadCertDisciplined ==
  ASSUME NEW name, NEW decrypt, decrypt = <<>> \/ decrypt = <<Do("fd")>>
  PROVE  Disciplined(ReadCert(name, decrypt))
<1> SUFFICES ASSUME NEW b, b = ReadCert(name, decrypt) PROVE Disciplined(b)
  OBVIOUS
<1> DEFINE start == <<Acquire({"cert"}, "done"), Acquire({"fd"}, "cert"), MayBeShort("fd")>>
<1>1. /\ b.calls = start \o decrypt
      /\ b.releases = CertLabels /\ b.exit = "fd" /\ b.results = {"cert"}
      /\ b.cascades = {"fd"} /\ b.saves = {"cert"}
  BY DEF ReadCert, CertLabels, Cascading, Saving, Table
<1>2. Len(CertLabels) = 2 /\ Len(CertLabels) \in Nat
  BY DEF CertLabels
<1>3. Climb(CertLabels, 0, start, 3, 1) /\ IsSequence(start)
  <2> DEFINE rung == <<3, 2, 1, 1>>
  <2>1. rung \in [1 .. 4 -> 1 .. 3]
    OBVIOUS
  <2>2. Rungs(CertLabels, 0, start, rung)
    BY CallFacts DEF Rungs, Fits, CertLabels
  <2>3. Len(start) = 3 /\ rung[1] = 3 /\ rung[4] = 1
    OBVIOUS
  <2>4. start \in Seq({start[i] : i \in 1 .. 3})
    OBVIOUS
  <2> HIDE DEF start, rung
  <2> QED
    BY <1>2, <2>1, <2>2, <2>3, <2>4 DEF Climb, IsSequence
<1>4. Climb(CertLabels, 0, decrypt, 1, 1) /\ IsSequence(decrypt)
  <2>1. CASE decrypt = <<>>
    BY <1>2, <2>1, NothingClimbs
  <2>2. CASE decrypt = <<Do("fd")>>
    <3> DEFINE rung == <<1, 1>>
    <3>1. Len(decrypt) = 1 /\ decrypt[1] = Do("fd")
      BY <2>2
    <3>2. decrypt \in Seq({Do("fd")})
      BY <2>2
    <3>3. rung \in [1 .. 2 -> 1 .. 3] /\ rung[1] = 1 /\ rung[2] = 1
      OBVIOUS
    <3>4. Rungs(CertLabels, 0, decrypt, rung)
      BY <3>1, CallFacts DEF Rungs, Fits, CertLabels
    <3> HIDE DEF rung
    <3> QED
      BY <1>2, <3>1, <3>2, <3>3, <3>4 DEF Climb, IsSequence
  <2> QED
    BY <2>1, <2>2
<1> HIDE DEF start
<1>5. Climb(CertLabels, 0, b.calls, Len(CertLabels) + 1, 1) /\ IsSequence(b.calls)
  BY ONLY <1>1, <1>2, <1>3, <1>4, ClimbOn
<1>6. Labelled(b, CertLabels, 0)
  <2>1. Len(b.calls) \in Nat
    BY <1>5 DEF IsSequence
  <2> QED
    BY <1>1, <2>1 DEF Labelled, Last, CertLabels
<1>7. Leaves(b, CertLabels, 1, 1)
  <2>1. From(b, 1) = {"fd", "cert"} /\ From(b, 2) = {"cert"}
    BY <1>1 DEF From, Last, CertLabels
  <2> QED
    BY <1>1, <2>1 DEF Leaves, Exits, Last, Releases, CertLabels
<1> QED
  BY <1>5, <1>6, <1>7, ClimbIsDisciplined

(* The tables of the endorse command are disciplined,                      *)
LEMMA EndorseTablesDisciplined ==
  ASSUME NEW b \in EndorseTables
  PROVE  Disciplined(b)
<1>1. CASE b \in FileTables
  BY <1>1, CertfileCreateDisciplined, GetPubkeyFileDisciplined, GetKeyFileDisciplined,
     GetInputFileDisciplined, GetConfigFileDisciplined, GetOutputFilenameDisciplined
     DEF FileTables
<1>2. CASE b \in ReadingTables
  <2>1. \A decrypt : decrypt = <<>> \/ decrypt = <<Do("fd")>> =>
          \A name : Disciplined(ReadCert(name, decrypt))
    BY ReadCertDisciplined
  <2>2. Disciplined(ReadInputCertificate) /\ Disciplined(ReadConfigFile)
    BY <2>1 DEF ReadInputCertificate, ReadConfigFile
  <2>3. \A encrypted \in BOOLEAN : Disciplined(ReadKeyCertificate(encrypted))
    BY <2>1 DEF ReadKeyCertificate
  <2> QED
    BY <1>2, <2>2, <2>3, DecryptCertfileDisciplined, GetPubkeyIdDisciplined DEF ReadingTables
<1>3. CASE b \in EntryTables
  BY <1>3, DictionaryAddDisciplined, AddVerbCapabilityDisciplined DEF EntryTables
<1>4. CASE b \in OutputTables
  <2>1. \A f, g : Len(<<f, g>>) \in Nat /\ Len(<<f>>) \in Nat
    OBVIOUS
  <2>2. \A f, g : Disciplined(EmitPublicFields(<<f, g>>)) /\ Disciplined(EmitPublicFields(<<f>>))
    BY <2>1, EmitPublicFieldsDisciplined
  <2> QED
    BY <1>4, <2>2, GetEndorserDetailsDisciplined, BuildOutputFileDisciplined DEF OutputTables
<1> QED
  BY <1>1, <1>2, <1>3, <1>4 DEF EndorseTables

(* and those of the other routines.                                        *)
LEMMA RoutinesDisciplined ==
  ASSUME NEW b \in Routines
  PROVE  Disciplined(b)
BY EndorseTablesDisciplined, CipherMacInitDisciplined, KeypairCertificateCreateDisciplined,
   PubkeyCertificateCreateDisciplined, HeaderWriteDisciplined, CertificateEncryptDisciplined
   DEF Routines

(* Whatever routine runs, its table is disciplined: every failure goes to  *)
(* the label from which exactly what was acquired before it is released.   *)
THEOREM TablesAreDisciplined == RecordsSpec => []Disciplined(body)
<1>1. RecordsInit => Disciplined(body)
  BY RoutinesDisciplined DEF RecordsInit, LadderInit
<1>2. Disciplined(body) /\ [RecordsNext]_recordVars => Disciplined(body)'
  <2> SUFFICES ASSUME Disciplined(body), [RecordsNext]_recordVars PROVE Disciplined(body)'
    OBVIOUS
  <2>1. CASE body' = body
    BY <2>1
  <2>2. CASE ReadBack
    <3>1. PICK p : body' = CertificateDecrypt(stored', p)
      BY <2>2 DEF ReadBack, Enter
    <3>2. Disciplined(CertificateDecrypt(stored', p))
      BY CertificateDecryptDisciplined
    <3> QED
      BY <3>1, <3>2
  <2> QED
    BY <2>1, <2>2 DEF RecordsNext, RunCall, FailCall, CleanUp, Finished, Succeed, Fail, Crash, Done,
       PassOver, Release, Return, GoTo, recordVars, ladderVars
<1> QED
  BY <1>1, <1>2, PTL DEF RecordsSpec

(* Every routine releases what it holds and only that, on every way out,   *)
(* whichever of its calls and releases fail.                               *)
THEOREM RecordsBalanced == RecordsSpec => []Balanced
<1>1. RecordsInit /\ Disciplined(body) => LadderInv
  BY LadderInvInit DEF RecordsInit
<1>2. LadderInv /\ Disciplined(body) /\ Disciplined(body)' /\ [RecordsNext]_recordVars
        => LadderInv'
  BY RecordsStepKeeps
<1>3. LadderInv => Balanced
  BY LadderInvBalanced
<1> QED
  BY <1>1, <1>2, <1>3, TablesAreDisciplined, PTL DEF RecordsSpec

(* What holds besides LadderInv for the places and marks to be in range.   *)
MarksInv ==
  /\ at \in 1 .. (IF pc \in {"calls", "crashed"} THEN Len(body.calls) ELSE Last(body)) + 1
  /\ pc \in {"calls", "releases", "returned", "crashed"}
  /\ retval \in {"success", "error"} /\ unnoticed \in BOOLEAN /\ refused \in BOOLEAN
  /\ held \subseteq Acquired(body, Len(body.calls))

(* The first routine starts at its first call,                             *)
LEMMA MarksInvInit ==
  ASSUME RecordsInit, Disciplined(body)
  PROVE  MarksInv
<1>1. Len(body.calls) \in Nat
  BY DEF Disciplined
<1>2. pc = "calls" /\ at \in 1 .. Len(body.calls) + 1
  BY <1>1 DEF RecordsInit, LadderInit
<1>3. held = {} /\ retval = "success" /\ unnoticed = FALSE /\ refused = FALSE
  BY DEF RecordsInit, LadderInit
<1> QED
  BY <1>2, <1>3 DEF MarksInv

(* and every step of a routine stays within its calls and labels.          *)
LEMMA MarksInvNext ==
  ASSUME MarksInv, LadderInv, Disciplined(body), Disciplined(body)', [RecordsNext]_recordVars
  PROVE  MarksInv'
<1> USE DEF MarksInv
<1>1. /\ Len(body.calls) \in Nat /\ Last(body) \in Nat
      /\ Label(body, body.exit) \in 1 .. Last(body) + 1
      /\ \A i \in 1 .. Len(body.calls) :
           body.calls[i].outcomes # {"ok"} =>
             Label(body, body.calls[i].fails) \in 1 .. Last(body) + 1
  BY DEF Disciplined
<1>2. CASE RunCall
  <2>1. /\ at \in 1 .. Len(body.calls) /\ pc = "calls" /\ pc' = "calls" /\ at' = at + 1
        /\ body' = body /\ held' = held \cup body.calls[at].acquires
    BY <1>1, <1>2 DEF RunCall, Succeed, Call
  <2>2. body.calls[at].acquires \subseteq Acquired(body, Len(body.calls))
    BY <2>1 DEF Acquired
  <2>3. held' \subseteq Acquired(body, Len(body.calls))
    BY <2>1, <2>2
  <2>4. /\ at' \in 1 .. Len(body.calls) + 1
        /\ retval' = retval /\ unnoticed' = unnoticed /\ refused' = refused
    BY <1>1, <1>2, <2>1 DEF RunCall, Succeed
  <2> QED
    BY <2>1, <2>3, <2>4
<1>3. CASE FailCall
  <2>1. /\ at \in 1 .. Len(body.calls) /\ pc = "calls" /\ pc' = "releases"
        /\ body' = body /\ held' = held /\ at' = Label(body, body.calls[at].fails)
        /\ body.calls[at].outcomes # {"ok"}
    BY <1>1, <1>3 DEF FailCall, Fail, GoTo, Call
  <2>2. at' \in 1 .. Last(body) + 1
    BY <1>1, <2>1
  <2>3. retval' \in {"success", "error"}
    BY <1>3 DEF FailCall, Fail
  <2>4. unnoticed' \in BOOLEAN
    BY <1>3 DEF FailCall, Fail
  <2>5. refused' \in BOOLEAN
    BY <1>3 DEF FailCall
  <2>6. Last(body)' = Last(body) /\ Acquired(body, Len(body.calls))' = Acquired(body, Len(body.calls))
    BY <2>1
  <2> QED
    BY <2>1, <2>2, <2>3, <2>4, <2>5, <2>6
<1>4. CASE CleanUp
  <2>1. refused' = refused /\ body' = body
    BY <1>4 DEF CleanUp, Done, PassOver, Release, Return, Crash
  <2>2. Last(body)' = Last(body) /\ Acquired(body, Len(body.calls))' = Acquired(body, Len(body.calls))
    BY <2>1
  <2>3. CASE Done
    <3>1. /\ pc' = "releases" /\ at' = Label(body, body.exit) /\ held' = held
          /\ retval' = retval /\ unnoticed' = unnoticed
      BY <2>3 DEF Done, GoTo
    <3>2. at' \in 1 .. Last(body) + 1
      BY <1>1, <3>1
    <3> QED
      BY <2>1, <2>2, <3>1, <3>2
  <2>4. CASE PassOver
    <3>1. /\ pc = "releases" /\ pc' = "releases" /\ at \in 1 .. Last(body) /\ at' = at + 1
          /\ held' = held /\ retval' = retval /\ unnoticed' = unnoticed
      BY <1>1, <2>4 DEF PassOver
    <3>2. at' \in 1 .. Last(body) + 1
      BY <1>1, <3>1
    <3> QED
      BY <2>1, <2>2, <3>1, <3>2
  <2>5. CASE Release
    <3>1. /\ pc = "releases" /\ pc' = "releases" /\ at \in 1 .. Last(body) /\ at' = at + 1
          /\ held' \subseteq held /\ unnoticed' = unnoticed
      BY <1>1, <2>5 DEF Release
    <3>2. at' \in 1 .. Last(body) + 1
      BY <1>1, <3>1
    <3>3. retval' \in {"success", "error"}
      BY <2>5 DEF Release
    <3> QED
      BY <2>1, <2>2, <3>1, <3>2, <3>3
  <2>6. CASE Return
    <3>1. pc = "releases" /\ pc' = "returned" /\ UNCHANGED <<at, held, retval, unnoticed>>
      BY <2>6 DEF Return
    <3> QED
      BY <2>1, <2>2, <3>1
  <2>7. CASE Crash
    <3>1. pc = "calls" /\ pc' = "crashed" /\ UNCHANGED <<at, held, retval, unnoticed>>
      BY <2>7 DEF Crash
    <3> QED
      BY <2>1, <2>2, <3>1
  <2> QED
    BY <1>4, <2>3, <2>4, <2>5, <2>6, <2>7 DEF CleanUp
<1>5. CASE ReadBack
  <2>1. /\ at' = 1 /\ pc' = "calls" /\ held' = {} /\ retval' = "success" /\ unnoticed' = FALSE
        /\ refused' = refused
    BY <1>5 DEF ReadBack, Enter
  <2>2. Len(body'.calls) \in Nat
    BY DEF Disciplined
  <2>3. at' \in 1 .. Len(body'.calls) + 1
    BY <2>1, <2>2
  <2>4. refused' \in BOOLEAN /\ unnoticed' \in BOOLEAN
    BY <2>1
  <2> QED
    BY <2>1, <2>3, <2>4
<1>6. CASE UNCHANGED recordVars
  <2>1. /\ body' = body /\ at' = at /\ pc' = pc /\ held' = held /\ retval' = retval
        /\ unnoticed' = unnoticed /\ refused' = refused
    BY <1>6 DEF recordVars, ladderVars
  <2>2. Last(body)' = Last(body) /\ Acquired(body, Len(body.calls))' = Acquired(body, Len(body.calls))
    BY <2>1
  <2> QED
    BY <2>1, <2>2
<1> QED
  BY <1>2, <1>3, <1>4, <1>5, <1>6 DEF RecordsNext, Finished

(* The tables are written as they should be, and places and marks stay in  *)
(* range.                                                                  *)
THEOREM RecordsTypeCorrect == RecordsSpec => []RecordsTypeOK
<1>1. RecordsInit /\ Disciplined(body) => LadderInv /\ MarksInv
  BY LadderInvInit, MarksInvInit DEF RecordsInit
<1>2. LadderInv /\ MarksInv /\ Disciplined(body) /\ Disciplined(body)' /\ [RecordsNext]_recordVars
        => LadderInv' /\ MarksInv'
  BY RecordsStepKeeps, MarksInvNext
<1>3. Disciplined(body) /\ MarksInv => RecordsTypeOK
  BY DEF MarksInv, RecordsTypeOK
<1> QED
  BY <1>1, <1>2, <1>3, TablesAreDisciplined, PTL DEF RecordsSpec

-----------------------------------------------------------------------------
(* What the records contain. *)

(* Sequences that are put together have the one and then the other,        *)
LEMMA ConcatFacts ==
  ASSUME NEW s, IsSequence(s), NEW t, IsSequence(t)
  PROVE  /\ Len(s) \in Nat /\ IsSequence(s \o t) /\ Len(s \o t) = Len(s) + Len(t)
         /\ \A i \in 1 .. Len(s) : (s \o t)[i] = s[i]
         /\ \A i \in 1 .. Len(t) : (s \o t)[Len(s) + i] = t[i]
<1>1. PICK S, T : s \in Seq(S) /\ t \in Seq(T)
  BY DEF IsSequence
<1>2. s \in Seq(S \cup T) /\ t \in Seq(S \cup T)
  BY <1>1
<1>3. s \o t \in Seq(S \cup T)
  BY <1>2
<1> QED
  BY <1>2, <1>3 DEF IsSequence

(* are equal if they are alike,                                            *)
LEMMA SequencesEqual ==
  ASSUME NEW s, IsSequence(s), NEW t, IsSequence(t), Len(s) = Len(t),
         \A i \in 1 .. Len(s) : s[i] = t[i]
  PROVE  s = t
<1>1. PICK S, T : s \in Seq(S) /\ t \in Seq(T)
  BY DEF IsSequence
<1> QED
  BY <1>1

(* and it does not matter where one starts to put them together.           *)
LEMMA ConcatAssociates ==
  ASSUME NEW s, IsSequence(s), NEW t, IsSequence(t), NEW u, IsSequence(u)
  PROVE  (s \o t) \o u = s \o (t \o u)
<1>1. PICK S, T, U : s \in Seq(S) /\ t \in Seq(T) /\ u \in Seq(U)
  BY DEF IsSequence
<1> DEFINE V == S \cup T \cup U
<1>2. s \in Seq(V) /\ t \in Seq(V) /\ u \in Seq(V)
  BY <1>1
<1> HIDE DEF V
<1>3. s \o t \in Seq(V) /\ t \o u \in Seq(V)
  BY <1>2
<1>4. (s \o t) \o u \in Seq(V) /\ s \o (t \o u) \in Seq(V)
  BY <1>2, <1>3
<1>5. Len((s \o t) \o u) = Len(s \o (t \o u))
  BY <1>2, <1>3
<1>6. ASSUME NEW i \in 1 .. Len((s \o t) \o u)
      PROVE  ((s \o t) \o u)[i] = (s \o (t \o u))[i]
  BY <1>2, <1>3, <1>5
<1> QED
  BY <1>4, <1>5, <1>6

(* The empty sequence adds nothing.                                        *)
LEMMA ConcatEmpty ==
  /\ IsSequence(<<>>) /\ Len(<<>>) = 0
  /\ \A s : IsSequence(s) => s \o <<>> = s /\ <<>> \o s = s
<1>1. << >> \in Seq({})
  OBVIOUS
<1>2. IsSequence(<<>>)
  BY <1>1 DEF IsSequence
<1>3. ASSUME NEW s, IsSequence(s) PROVE s \o <<>> = s /\ <<>> \o s = s
  BY <1>3 DEF IsSequence
<1> QED
  BY <1>2, <1>3

(* A function on the first numbers is a sequence.                          *)
LEMMA FunctionIsSequence ==
  ASSUME NEW n \in Nat, NEW s, s = [i \in 1 .. n |-> s[i]]
  PROVE  IsSequence(s) /\ Len(s) = n /\ DOMAIN s = 1 .. n
<1>1. s \in Seq({s[i] : i \in 1 .. n})
  OBVIOUS
<1>2. Len(s) = n
  OBVIOUS
<1> QED
  BY <1>1, <1>2 DEF IsSequence

(* Bytes of a field.                                                       *)
LEMMA BytesFacts ==
  ASSUME NEW n \in Nat, NEW f, NEW v
  PROVE  /\ IsSequence(Bytes(f, v, n)) /\ Len(Bytes(f, v, n)) = n
         /\ \A i \in 1 .. n : Bytes(f, v, n)[i] = <<f, v, i>>
<1> DEFINE s == Bytes(f, v, n)
<1>1. s = [i \in 1 .. n |-> <<f, v, i>>]
  BY DEF Bytes
<1>2. \A i \in 1 .. n : s[i] = <<f, v, i>>
  BY <1>1
<1>3. s = [i \in 1 .. n |-> s[i]]
  BY <1>1
<1> HIDE DEF s
<1>4. IsSequence(s) /\ Len(s) = n
  BY <1>3, FunctionIsSequence
<1> QED
  BY <1>2, <1>4 DEF s

(* A field within a sequence of bytes is as long as it should be.          *)
LEMMA FieldFacts ==
  ASSUME NEW x, IsSequence(x), NEW first \in Nat \ {0}, NEW size \in Nat, first + size - 1 <= Len(x)
  PROVE  /\ IsSequence(Field(x, first, size)) /\ Len(Field(x, first, size)) = size
         /\ \A i \in 1 .. size : Field(x, first, size)[i] = x[first + i - 1]
<1>1. PICK S : x \in Seq(S)
  BY DEF IsSequence
<1> DEFINE f == SubSeq(x, first, first + size - 1)
<1>2. Field(x, first, size) = f
  BY DEF Field
<1>3. f \in Seq(S) /\ Len(f) = size /\ \A i \in 1 .. size : f[i] = x[first + i - 1]
  BY <1>1
<1> HIDE DEF f
<1> QED
  BY <1>2, <1>3 DEF IsSequence

-----------------------------------------------------------------------------
(* What is written and digested by a routine is known beforehand, but for  *)
(* how far it gets.                                                        *)

Tag(c, d) == IF c.mac = <<>> THEN <<>> ELSE Mac(c.mac[1], d, c.mac[2])

(* W and D are what is written and digested after so many calls.           *)
Follows(s, W, D) ==
  \A i \in 1 .. Len(s) : /\ W[i] = W[i - 1] \o s[i].writes \o Tag(s[i], D[i - 1])
                         /\ D[i] = D[i - 1] \o s[i].digests

Script(s, W, D) == W[0] = <<>> /\ D[0] = <<>> /\ Follows(s, W, D)

Passed(b, n) == \A k \in 1 .. n : "ok" \in b.calls[k].outcomes

(* The record is never too long, and it is full at the end.                *)
Sized(b, W) ==
  /\ \A i \in 0 .. Len(b.calls) : IsSequence(W[i])
  /\ b.size >= 0 => /\ \A i \in 0 .. Len(b.calls) : Len(W[i]) <= b.size
                    /\ Len(W[Len(b.calls)]) = b.size
  /\ Passed(b, Len(b.calls)) => b.size >= 0

(* What certificate_encrypt writes is the sealed certificate.              *)
Seals(b, v) ==
  \E c \in Certs, p \in Passphrases, r \in Rounds :
    /\ b.input = [cert |-> c, passphrase |-> p]
    /\ v = Sealed(Salt, IV, [cert |-> c, passphrase |-> p, rounds |-> r])

(* What certificate_decrypt writes is decrypted, at the last of its calls. *)
Start == 8 + KEY_SIZE + IV_SIZE

FileKey(file, p) == DerivedKey(p, Field(file, 8, KEY_SIZE), Field(file, 4, 4))

Plaintext(file, p) ==
  Decrypt(FileKey(file, p), Field(file, 8 + KEY_SIZE, IV_SIZE), Field(file, Start, Len(file) - CertMinSize))

Opens(b, W, D) ==
  \A file, p : b = CertificateDecrypt(file, p) =>
    /\ Len(b.calls) = 12
    /\ \A i \in 0 .. 11 : W[i] = <<>>
    /\ W[12] = Plaintext(file, p) /\ D[12] = Authenticated(file)

(* What backup_file_encryption_header_write writes is a header.            *)
HeaderSalt == Bytes("salt", "fresh", SALT_SIZE)
HeaderIv == Bytes("iv", "fresh", HEADER_IV_SIZE)
ShortKey == Bytes("st_key", "fresh", LONG_KEY_SIZE)
FirstHalf(k) == Encrypt(k, HeaderIv, SubSeq(ShortKey, 1, BLOCK_SIZE))
SecondHalf(k) == Encrypt(k, FirstHalf(k), SubSeq(ShortKey, BLOCK_SIZE + 1, 2 * BLOCK_SIZE))

HeaderBytes(passphrase, rounds) ==
  LET k == DerivedKey(passphrase, HeaderSalt, RoundsBytes(rounds, 1))
  IN  Bytes("magic", "ENCVCBAK", 1) \o Bytes("version", "0x10000000", 1)
        \o Bytes("size", HeaderSize, 1) \o RoundsBytes(rounds, 1)
        \o HeaderSalt \o HeaderIv \o FirstHalf(k) \o SecondHalf(k)

FileCheck == [Do("mac") EXCEPT !.check = TRUE]

Heads(b, v) ==
  /\ \E r \in Rounds :
       LET record == HeaderBytes(b.input.passphrase, r)
       IN  v = record \o Mac(ShortKey, Field(record, 1, HeaderSize - HEADER_MAC_SIZE), HEADER_MAC_SIZE)
  /\ Len(b.calls) \in Nat \ {0} /\ b.calls[Len(b.calls)] = FileCheck

Meant(b, W, D) ==
  /\ Sized(b, W)
  /\ b.name # "certificate_decrypt" => \A i \in 1 .. Len(b.calls) : b.calls[i].reads = {}
  /\ b.name = "certificate_encrypt" => Seals(b, W[Len(b.calls)])
  /\ b.name = "certificate_decrypt" => Opens(b, W, D)
  /\ b.name = "backup_file_encryption_header_write" => Heads(b, W[Len(b.calls)])

(* How far the routine is.                                                 *)
Stage(W, D, n) ==
  /\ written = W[n] /\ digested = D[n]
  /\ Passed(body, n)
  /\ pc = "calls" => n = at - 1
  /\ AllIsWell /\ pc \in {"releases", "returned"} => n = Len(body.calls)
  /\ body.name = "backup_file_encryption_header_write" /\ n = Len(body.calls) => stored = written

ScriptInv ==
  \E W, D : /\ Script(body.calls, W, D) /\ Meant(body, W, D)
            /\ \E n \in 0 .. Len(body.calls) : Stage(W, D, n)

(* If a check failed then it is one that may fail.                         *)
RefusedInv ==
  refused =>
    /\ ~AllIsWell
    /\ \E k \in 1 .. Len(body.calls) :
         body.calls[k].check /\ body.calls[k].outcomes \cap {"error", "unnoticed"} # {}

Scripted(b) == \E W, D : Script(b.calls, W, D) /\ Meant(b, W, D)

(* A routine starts at the beginning of its script.                        *)
LEMMA ScriptInvInit ==
  ASSUME RecordsInit, Disciplined(body), Scripted(body)
  PROVE  ScriptInv /\ RefusedInv
<1>1. PICK W, D : Script(body.calls, W, D) /\ Meant(body, W, D)
  BY DEF Scripted
<1>2. Len(body.calls) \in Nat
  BY DEF Disciplined
<1>3. written = <<>> /\ digested = <<>> /\ pc = "calls" /\ at = 1 /\ refused = FALSE
  BY DEF RecordsInit, LadderInit
<1>4. W[0] = <<>> /\ D[0] = <<>>
  BY <1>1 DEF Script
<1>5. Passed(body, 0)
  BY DEF Passed
<1>6. body.name = "backup_file_encryption_header_write" => 0 # Len(body.calls)
  BY <1>1 DEF Meant, Heads
<1>7. Stage(W, D, 0)
  BY <1>2, <1>3, <1>4, <1>5, <1>6 DEF Stage
<1> QED
  BY <1>1, <1>2, <1>3, <1>7 DEF ScriptInv, RefusedInv

(* A call that succeeds brings it one further,                             *)
LEMMA RunCallFollows ==
  ASSUME ScriptInv, RefusedInv, LadderInv, Disciplined(body), RunCall
  PROVE  ScriptInv' /\ RefusedInv'
<1> USE DEF RunCall, Succeed
<1>1. PICK W, D : /\ Script(body.calls, W, D) /\ Meant(body, W, D)
                  /\ \E n \in 0 .. Len(body.calls) : Stage(W, D, n)
  BY DEF ScriptInv
<1>2. PICK n \in 0 .. Len(body.calls) : Stage(W, D, n)
  BY <1>1
<1>3. /\ pc = "calls" /\ pc' = "calls" /\ body' = body /\ Len(body.calls) \in Nat
      /\ at \in 1 .. Len(body.calls) /\ n = at - 1 /\ at' = at + 1
      /\ AllIsWell /\ AllIsWell'
  BY <1>2 DEF LadderInv, Disciplined, Stage, AllIsWell
<1> DEFINE c == body.calls[at]
<1>4. c = Call
  BY DEF Call
<1>5. written = W[at - 1] /\ digested = D[at - 1]
  BY <1>2, <1>3 DEF Stage
<1>6. /\ written' = written \o c.writes \o Tag(c, digested)
      /\ digested' = digested \o c.digests
  BY <1>4 DEF Tag
<1>7. written' = W[at] /\ digested' = D[at]
  BY <1>1, <1>3, <1>5, <1>6 DEF Script, Follows
<1>8. Passed(body, at)
  <2>1. Passed(body, n) /\ 1 .. at = (1 .. n) \cup {at}
    BY <1>2, <1>3 DEF Stage
  <2>2. "ok" \in body.calls[at].outcomes
    BY <1>4
  <2> QED
    BY <2>1, <2>2 DEF Passed
<1>9. ASSUME body.name = "backup_file_encryption_header_write", at = Len(body.calls)
      PROVE  stored' = written'
  <2>1. c = FileCheck
    BY <1>1, <1>9 DEF Meant, Heads
  <2>2. /\ c.check = TRUE /\ c.outcomes = {"ok", "error"} /\ c.stores = FALSE /\ c.writes = <<>>
        /\ c.mac = <<>>
    BY <2>1 DEF FileCheck, Do
  <2>3. stored = written /\ stored' = stored
    BY <1>4, <2>2 DEF ChecksWritten
  <2>4. written' = written \o <<>> \o <<>>
    BY <1>6, <2>2 DEF Tag
  <2>5. IsSequence(written)
    <3>1. at - 1 \in 0 .. Len(body.calls)
      BY <1>3
    <3> QED
      BY <1>1, <1>5, <3>1 DEF Meant, Sized
  <2> QED
    BY <2>3, <2>4, <2>5, ConcatEmpty
<1> HIDE DEF c
<1>10. PICK m \in 0 .. Len(body.calls) : m = at
  BY <1>3
<1>11. Stage(W, D, m)'
  <2>1. m = at' - 1
    BY <1>3, <1>10
  <2>2. Passed(body, m)'
    BY <1>3, <1>8, <1>10
  <2>3. written' = W[m] /\ digested' = D[m]
    BY <1>7, <1>10
  <2>4. body.name = "backup_file_encryption_header_write" /\ m = Len(body.calls) => stored' = written'
    BY <1>9, <1>10
  <2> QED
    BY <1>3, <2>1, <2>2, <2>3, <2>4 DEF Stage
<1>12. ScriptInv'
  BY <1>1, <1>3, <1>10, <1>11 DEF ScriptInv
<1>13. RefusedInv'
  BY <1>3 DEF RefusedInv
<1> QED
  BY <1>12, <1>13

(* one that fails leaves it where it was,                                  *)
LEMMA FailCallFollows ==
  ASSUME ScriptInv, RefusedInv, LadderInv, Disciplined(body), FailCall
  PROVE  ScriptInv' /\ RefusedInv'
<1> USE DEF FailCall, Fail
<1>1. PICK W, D : /\ Script(body.calls, W, D) /\ Meant(body, W, D)
                  /\ \E n \in 0 .. Len(body.calls) : Stage(W, D, n)
  BY DEF ScriptInv
<1>2. PICK n \in 0 .. Len(body.calls) : Stage(W, D, n)
  BY <1>1
<1>3. /\ pc = "calls" /\ pc' = "releases" /\ body' = body /\ Len(body.calls) \in Nat
      /\ at \in 1 .. Len(body.calls) /\ ~AllIsWell' /\ AllIsWell
      /\ UNCHANGED <<written, digested, stored>>
  BY DEF LadderInv, Disciplined, GoTo, AllIsWell
<1>4. Passed(body, n)'
  BY <1>2, <1>3 DEF Stage
<1>5. Stage(W, D, n)'
  BY <1>2, <1>3, <1>4 DEF Stage
<1>6. ScriptInv'
  BY <1>1, <1>3, <1>5 DEF ScriptInv
<1>7. RefusedInv'
  <2> SUFFICES ASSUME refused' PROVE RefusedInv'
    BY DEF RefusedInv
  <2>1. ~refused
    BY <1>3 DEF RefusedInv
  <2>2. body.calls[at].check
    BY <2>1 DEF Call
  <2>3. body.calls[at].outcomes \cap {"error", "unnoticed"} # {}
    BY DEF Call
  <2> QED
    BY <1>3, <2>2, <2>3 DEF RefusedInv
<1> QED
  BY <1>6, <1>7

(* and so do the labels.                                                   *)
LEMMA CleanUpFollows ==
  ASSUME ScriptInv, RefusedInv, LadderInv, Disciplined(body), CleanUp
  PROVE  ScriptInv' /\ RefusedInv'
<1>1. PICK W, D : /\ Script(body.calls, W, D) /\ Meant(body, W, D)
                  /\ \E n \in 0 .. Len(body.calls) : Stage(W, D, n)
  BY DEF ScriptInv
<1>2. PICK n \in 0 .. Len(body.calls) : Stage(W, D, n)
  BY <1>1
<1>3. /\ body' = body /\ Len(body.calls) \in Nat /\ pc' # "calls"
      /\ UNCHANGED <<written, digested, stored, refused>>
  BY DEF LadderInv, Disciplined, CleanUp, Done, PassOver, Release, Return, Crash, GoTo
<1>4. AllIsWell' => AllIsWell
  BY DEF CleanUp, Done, PassOver, Release, Return, Crash, AllIsWell
<1>5. AllIsWell' /\ pc' \in {"releases", "returned"} => n = Len(body.calls)
  <2>1. CASE Done
    <3>1. pc = "calls" /\ at = Len(body.calls) + 1
      BY <2>1 DEF Done
    <3> QED
      BY <1>2, <1>3, <3>1 DEF Stage
  <2>2. CASE PassOver \/ Release \/ Return
    <3>1. pc \in {"releases", "returned"}
      BY <2>2 DEF PassOver, Release, Return
    <3> QED
      BY <1>2, <1>4, <3>1 DEF Stage
  <2>3. CASE Crash
    BY <2>3 DEF Crash
  <2> QED
    BY <2>1, <2>2, <2>3 DEF CleanUp
<1>6. Passed(body, n)'
  BY <1>2, <1>3 DEF Stage
<1>7. Stage(W, D, n)'
  BY <1>2, <1>3, <1>5, <1>6 DEF Stage
<1>8. ScriptInv'
  BY <1>1, <1>3, <1>7 DEF ScriptInv
<1>9. RefusedInv'
  BY <1>3, <1>4 DEF RefusedInv
<1> QED
  BY <1>8, <1>9

(* A file that is read back is opened from the beginning.                  *)
LEMMA ReadBackFollows ==
  ASSUME ScriptInv, RefusedInv, ReadBack, Scripted(body'), Len(body'.calls) \in Nat
  PROVE  ScriptInv' /\ RefusedInv'
<1>1. PICK W, D : Script(body'.calls, W, D) /\ Meant(body', W, D)
  BY DEF Scripted
<1>2. /\ written' = <<>> /\ digested' = <<>> /\ pc' = "calls" /\ at' = 1 /\ refused' = refused
      /\ AllIsWell
  BY DEF ReadBack, Enter, Succeeded
<1>3. W[0] = <<>> /\ D[0] = <<>>
  BY <1>1 DEF Script
<1>4. Passed(body', 0)
  BY DEF Passed
<1>5. body'.name = "backup_file_encryption_header_write" => 0 # Len(body'.calls)
  BY <1>1 DEF Meant, Heads
<1>6. PICK n \in 0 .. Len(body'.calls) : n = 0
  OBVIOUS
<1>7. Stage(W, D, n)'
  BY <1>2, <1>3, <1>4, <1>5, <1>6 DEF Stage
<1>8. ScriptInv'
  BY <1>1, <1>7 DEF ScriptInv
<1>9. RefusedInv'
  BY <1>2 DEF RefusedInv
<1> QED
  BY <1>8, <1>9

(* A call that does nothing to a record. *)
Quiet(c) == c.writes = <<>> /\ c.mac = <<>> /\ c.digests = <<>> /\ c.reads = {}

(* Most calls are of this kind.                                            *)
LEMMA QuietFacts ==
  /\ \A f : Quiet(Do(f)) /\ Quiet(MayBeShort(f))
  /\ \A r, f : Quiet(Acquire(r, f)) /\ Quiet(Malloc(r, f))
  /\ \A h, f : Quiet(Check(h, f))
  /\ \A o, r, f : Quiet(May(o, Acquire(r, f))) /\ Quiet([Acquire(r, f) EXCEPT !.outcomes = o])
  /\ \A o, f : Quiet(May(o, Do(f))) /\ Quiet([Do(f) EXCEPT !.outcomes = o])
BY DEF Quiet, Do, Acquire, Malloc, Check, May, MayBeShort

(* The calls fill a record from m to n bytes. *)
Filling(s, n, size) ==
  /\ \A i \in 1 .. Len(s) : /\ s[i].mac = <<>> /\ s[i].reads = {} /\ IsSequence(s[i].writes)
                           /\ size[i + 1] = size[i] + Len(s[i].writes)
  /\ \A i \in 1 .. Len(s) + 1 : size[i] <= n

Fills(s, m, n) ==
  \E size \in [1 .. Len(s) + 1 -> Nat] : size[1] = m /\ size[Len(s) + 1] = n /\ Filling(s, n, size)

Special == {"certificate_encrypt", "certificate_decrypt", "backup_file_encryption_header_write"}

Plain(b) == Fills(b.calls, 0, b.size) /\ b.name \notin Special

(* Such calls fill nothing.                                                *)
LEMMA QuietFills ==
  ASSUME NEW s, Len(s) \in Nat, \A i \in 1 .. Len(s) : Quiet(s[i]), NEW m \in Nat
  PROVE  Fills(s, m, m)
<1> DEFINE size == [i \in 1 .. Len(s) + 1 |-> m]
<1>1. size \in [1 .. Len(s) + 1 -> Nat] /\ size[1] = m /\ size[Len(s) + 1] = m
  OBVIOUS
<1>2. Len(<<>>) = 0 /\ IsSequence(<<>>)
  <2>1. << >> \in Seq({})
    OBVIOUS
  <2> QED
    BY <2>1 DEF IsSequence
<1>3. \A i \in 1 .. Len(s) : s[i].mac = <<>> /\ s[i].reads = {} /\ s[i].writes = <<>>
  BY DEF Quiet
<1>4. \A i \in 1 .. Len(s) : size[i + 1] = size[i] + 0
  OBVIOUS
<1>5. \A i \in 1 .. Len(s) + 1 : size[i] <= m
  OBVIOUS
<1> HIDE DEF size
<1>6. Filling(s, m, size)
  BY <1>2, <1>3, <1>4, <1>5 DEF Filling
<1> QED
  BY <1>1, <1>6 DEF Fills

(* Calls fill on where others stopped.                                     *)
LEMMA FillsOn ==
  ASSUME NEW s, IsSequence(s), NEW t, IsSequence(t), NEW m \in Nat, NEW n \in Nat, NEW o \in Nat,
         m <= n, n <= o, Fills(s, m, n), Fills(t, n, o)
  PROVE  Fills(s \o t, m, o)
<1>0. PICK S, T : s \in Seq(S) /\ t \in Seq(T)
  BY DEF IsSequence
<1> DEFINE j == Len(s)
           k == Len(t)
           u == s \o t
<1>1. j \in Nat /\ k \in Nat
  BY <1>0
<1>2. /\ Len(u) = j + k
      /\ \A i \in 1 .. j : u[i] = s[i]
      /\ \A i \in 1 .. k : u[j + i] = t[i]
  <2>1. s \in Seq(S \cup T) /\ t \in Seq(S \cup T)
    BY <1>0
  <2> QED
    BY <2>1
<1>3. PICK p \in [1 .. j + 1 -> Nat] : p[1] = m /\ p[j + 1] = n /\ Filling(s, n, p)
  BY DEF Fills
<1>4. PICK q \in [1 .. k + 1 -> Nat] : q[1] = n /\ q[k + 1] = o /\ Filling(t, o, q)
  BY DEF Fills
<1> DEFINE r == [i \in 1 .. j + k + 1 |-> IF i <= j THEN p[i] ELSE q[i - j]]
<1>5. \A i \in 1 .. j + 1 : r[i] = p[i]
  BY <1>1, <1>3, <1>4
<1>6. \A i \in 1 .. k + 1 : r[j + i] = q[i]
  <2> SUFFICES ASSUME NEW i \in 1 .. k + 1 PROVE r[j + i] = q[i]
    OBVIOUS
  <2>1. j + i \in 1 .. j + k + 1 /\ ~(j + i <= j) /\ (j + i) - j = i
    BY <1>1
  <2> QED
    BY <2>1
<1>7. \A i \in 1 .. j + k + 1 : i \in 1 .. j + 1 \/ (i - j \in 1 .. k + 1 /\ j + (i - j) = i)
  BY <1>1
<1>8. r = [i \in 1 .. j + k + 1 |-> r[i]]
  OBVIOUS
<1> HIDE DEF r, u
<1>9. ASSUME NEW i \in 1 .. j + k + 1 PROVE r[i] \in Nat /\ r[i] <= o
  <2>1. CASE i \in 1 .. j + 1
    <3>1. r[i] = p[i] /\ p[i] \in Nat /\ p[i] <= n
      BY <1>3, <1>5, <2>1 DEF Filling
    <3> QED
      BY <3>1
  <2>2. CASE i - j \in 1 .. k + 1 /\ j + (i - j) = i
    BY <1>4, <1>6, <2>2 DEF Filling
  <2> QED
    BY <1>7, <2>1, <2>2
<1>10. r \in [1 .. Len(u) + 1 -> Nat]
  BY <1>1, <1>2, <1>8, <1>9
<1>11. r[1] = m /\ r[Len(u) + 1] = o
  <2>1. 1 \in 1 .. j + 1 /\ k + 1 \in 1 .. k + 1 /\ (j + k) + 1 = j + (k + 1)
    BY <1>1
  <2> QED
    BY <1>2, <1>3, <1>4, <1>5, <1>6, <2>1
<1>12. ASSUME NEW i \in 1 .. Len(u)
       PROVE  /\ u[i].mac = <<>> /\ u[i].reads = {} /\ IsSequence(u[i].writes)
              /\ r[i + 1] = r[i] + Len(u[i].writes)
  <2>1. CASE i <= j
    <3>1. i \in 1 .. j /\ i \in 1 .. j + 1 /\ i + 1 \in 1 .. j + 1
      BY <1>1, <1>2, <2>1
    <3>2. r[i] = p[i] /\ r[i + 1] = p[i + 1] /\ u[i] = s[i]
      BY <1>2, <1>5, <3>1
    <3> QED
      BY <1>3, <3>1, <3>2 DEF Filling
  <2>2. CASE ~(i <= j)
    <3> DEFINE l == i - j
    <3>1. /\ l \in 1 .. k /\ l \in 1 .. k + 1 /\ l + 1 \in 1 .. k + 1
          /\ i = j + l /\ i + 1 = j + (l + 1)
      BY <1>1, <1>2, <2>2
    <3> HIDE DEF l
    <3>2. r[i] = q[l] /\ r[i + 1] = q[l + 1] /\ u[i] = t[l]
      BY <1>2, <1>6, <3>1
    <3> QED
      BY <1>4, <3>1, <3>2 DEF Filling
  <2> QED
    BY <2>1, <2>2
<1>13. Filling(u, o, r)
  BY <1>2, <1>9, <1>12 DEF Filling
<1> QED
  BY <1>10, <1>11, <1>13 DEF Fills, u

(* Whatever fills its record follows a script.                             *)
LEMMA FillsScripted ==
  ASSUME NEW b, Len(b.calls) \in Nat, Plain(b), b.size \in Nat
  PROVE  Scripted(b)
<1> DEFINE s == b.calls
           n == Len(s)
<1>1. PICK size \in [1 .. n + 1 -> Nat] : size[1] = 0 /\ size[n + 1] = b.size /\ Filling(s, b.size, size)
  BY DEF Plain, Fills
<1>2. \A i \in 1 .. n : /\ s[i].mac = <<>> /\ s[i].reads = {} /\ IsSequence(s[i].writes)
                        /\ size[i + 1] = size[i] + Len(s[i].writes)
  BY <1>1 DEF Filling
<1>3. \A i \in 1 .. n + 1 : size[i] <= b.size
  BY <1>1 DEF Filling
<1> DEFINE E == [i \in 1 .. n |-> s[i].writes]
           F == [i \in 1 .. n |-> s[i].digests]
<1>4. PICK W : W = [k \in 0 .. n |-> IF k = 0 THEN <<>> ELSE W[k - 1] \o E[k]]
  BY PutTogether
<1>5. PICK D : D = [k \in 0 .. n |-> IF k = 0 THEN <<>> ELSE D[k - 1] \o F[k]]
  BY PutTogether
<1>6. \A i \in 1 .. n : E[i] = s[i].writes /\ F[i] = s[i].digests
  OBVIOUS
<1> HIDE DEF n, s, E, F
<1>n. n \in Nat
  BY DEF n, s
<1>7. W[0] = <<>> /\ D[0] = <<>>
  BY <1>4, <1>5, <1>n
<1>m. \A i \in 1 .. n : i \in 0 .. n /\ i # 0
  BY <1>n
<1>8. \A i \in 1 .. n : W[i] = W[i - 1] \o s[i].writes
  <2> SUFFICES ASSUME NEW i \in 1 .. n PROVE W[i] = W[i - 1] \o s[i].writes
    OBVIOUS
  <2>1. W[i] = W[i - 1] \o E[i]
    BY <1>4, <1>m
  <2> QED
    BY <1>6, <2>1 DEF n, s
<1>9. \A i \in 1 .. n : D[i] = D[i - 1] \o s[i].digests
  <2> SUFFICES ASSUME NEW i \in 1 .. n PROVE D[i] = D[i - 1] \o s[i].digests
    OBVIOUS
  <2>1. D[i] = D[i - 1] \o F[i]
    BY <1>5, <1>m
  <2> QED
    BY <1>6, <2>1 DEF n, s
<1>10. \A i \in 0 .. n : IsSequence(W[i]) /\ Len(W[i]) = size[i + 1]
  <2> DEFINE S == {i \in Nat : i \in 0 .. n => IsSequence(W[i]) /\ Len(W[i]) = size[i + 1]}
  <2>1. 0 \in S
    BY <1>1, <1>7, ConcatEmpty
  <2>2. ASSUME NEW i \in Nat, i \in S PROVE i + 1 \in S
    <3> SUFFICES ASSUME i + 1 \in 0 .. n
                 PROVE  IsSequence(W[i + 1]) /\ Len(W[i + 1]) = size[(i + 1) + 1]
      OBVIOUS
    <3>1. i \in 0 .. n /\ i + 1 \in 1 .. n /\ (i + 1) - 1 = i
      BY <1>n
    <3>2. IsSequence(W[i]) /\ Len(W[i]) = size[i + 1]
      BY <2>2, <3>1
    <3>3. W[i + 1] = W[i] \o s[i + 1].writes
      BY <1>8, <3>1
    <3>4. IsSequence(s[i + 1].writes) /\ size[(i + 1) + 1] = size[i + 1] + Len(s[i + 1].writes)
      BY <1>2, <3>1 DEF n, s
    <3>5. PICK w, x : w = W[i] /\ x = s[i + 1].writes
      OBVIOUS
    <3>6. IsSequence(w \o x) /\ Len(w \o x) = Len(w) + Len(x)
      BY <3>2, <3>4, <3>5, ConcatFacts
    <3> QED
      BY <3>2, <3>3, <3>4, <3>5, <3>6
  <2>3. \A i \in Nat : i \in S
    <3> HIDE DEF S
    <3> QED
      BY <2>1, <2>2, SetInduction
  <2> QED
    BY <1>n, <2>3
<1>11. ASSUME NEW i \in 1 .. n
       PROVE  W[i] = W[i - 1] \o s[i].writes \o Tag(s[i], D[i - 1])
  <2>1. Tag(s[i], D[i - 1]) = <<>>
    BY <1>2 DEF Tag, n, s
  <2>2. IsSequence(W[i]) /\ W[i] = W[i - 1] \o s[i].writes
    <3>1. i \in 0 .. n
      BY <1>n
    <3> QED
      BY <1>8, <1>10, <3>1
  <2> QED
    BY <2>1, <2>2, ConcatEmpty
<1>12. Follows(s, W, D)
  BY <1>9, <1>11 DEF Follows, n
<1>13. Sized(b, W)
  <2>1. \A i \in 0 .. n : Len(W[i]) <= b.size
    <3> SUFFICES ASSUME NEW i \in 0 .. n PROVE Len(W[i]) <= b.size
      OBVIOUS
    <3>1. i + 1 \in 1 .. n + 1
      BY <1>n
    <3> QED
      BY <1>3, <1>10, <3>1 DEF n
  <2>2. Len(W[n]) = b.size
    <3>1. n \in 0 .. n
      BY <1>n
    <3> QED
      BY <1>1, <1>10, <3>1 DEF n
  <2> QED
    BY <1>10, <2>1, <2>2 DEF Sized, n, s
<1>14. Meant(b, W, D)
  BY <1>2, <1>13 DEF Meant, Plain, Special, n, s
<1>15. Script(b.calls, W, D)
  BY <1>7, <1>12 DEF Script, s
<1> QED
  BY <1>14, <1>15 DEF Scripted

(* Tables of quiet calls have nothing to fill.                             *)
LEMMA QuietIsPlain ==
  ASSUME NEW b, Len(b.calls) \in Nat, \A i \in 1 .. Len(b.calls) : Quiet(b.calls[i]),
         b.size = 0, b.name \notin Special
  PROVE  Plain(b) /\ Len(b.calls) \in Nat /\ b.size \in Nat
<1>1. Fills(b.calls, 0, 0)
  <2>1. PICK s : s = b.calls
    OBVIOUS
  <2> QED
    BY <2>1, QuietFills
<1> QED
  BY <1>1 DEF Plain

(* What is to be shown of a table that fills its record.                   *)
FillsItsRecord(b) == Plain(b) /\ Len(b.calls) \in Nat /\ b.size \in Nat

(* These touch no record: certfile_create,                                 *)
LEMMA CertfileCreateQuiet ==
  FillsItsRecord(CertfileCreate)
<1> SUFFICES ASSUME NEW b, b = CertfileCreate PROVE FillsItsRecord(b)
  OBVIOUS
<1>1. Len(b.calls) = 2 /\ b.size = 0 /\ b.name \notin Special
  BY DEF CertfileCreate, Table, Cascading, Special
<1>2. \A i \in 1 .. 2 : Quiet(b.calls[i])
  BY QuietFacts DEF CertfileCreate, Table, Cascading
<1> QED
  BY <1>1, <1>2, QuietIsPlain DEF FillsItsRecord

(* endorse_get_key_file,                                                   *)
LEMMA GetKeyFileQuiet ==
  ASSUME NEW given, NEW mode
  PROVE  FillsItsRecord(GetKeyFile(given, mode))
<1> SUFFICES ASSUME NEW b, b = GetKeyFile(given, mode) PROVE FillsItsRecord(b)
  OBVIOUS
<1>1. Len(b.calls) = 5 /\ b.size = 0 /\ b.name \notin Special
  BY DEF GetKeyFile, Table, Special
<1>2. \A i \in 1 .. 5 : Quiet(b.calls[i])
  <2>1. \E o : b.calls[4] = [Do("done") EXCEPT !.outcomes = o]
    BY Zenon DEF GetKeyFile, Table
  <2>2. \E h, g : b.calls[1] = Check(h, "done") /\ b.calls[3] = Check(g, "done")
    BY Zenon DEF GetKeyFile, Table
  <2>3. b.calls[2] = Do("done") /\ b.calls[5] = Acquire({"key_file"}, "done")
    BY DEF GetKeyFile, Table
  <2>4. Quiet(b.calls[1]) /\ Quiet(b.calls[3])
    BY <2>2, QuietFacts, Zenon
  <2>5. Quiet(b.calls[4])
    BY <2>1 DEF Quiet, Do
  <2>6. Quiet(b.calls[2]) /\ Quiet(b.calls[5])
    BY <2>3, QuietFacts
  <2> QED
    BY <2>4, <2>5, <2>6
<1> QED
  BY <1>1, <1>2, QuietIsPlain DEF FillsItsRecord

(* endorse_get_input_file,                                                 *)
LEMMA GetInputFileQuiet ==
  ASSUME NEW given
  PROVE  FillsItsRecord(GetInputFile(given))
<1> SUFFICES ASSUME NEW b, b = GetInputFile(given) PROVE FillsItsRecord(b)
  OBVIOUS
<1>1. Len(b.calls) = 3 /\ b.size = 0 /\ b.name \notin Special
  BY DEF GetInputFile, Table, Special
<1>2. \A i \in 1 .. 3 : Quiet(b.calls[i])
  BY QuietFacts DEF GetInputFile, Table
<1> QED
  BY <1>1, <1>2, QuietIsPlain DEF FillsItsRecord

(* endorse_get_endorse_config_file,                                        *)
LEMMA GetConfigFileQuiet ==
  ASSUME NEW given
  PROVE  FillsItsRecord(GetConfigFile(given))
<1> SUFFICES ASSUME NEW b, b = GetConfigFile(given) PROVE FillsItsRecord(b)
  OBVIOUS
<1>1. Len(b.calls) = 3 /\ b.size = 0 /\ b.name \notin Special
  BY DEF GetConfigFile, Table, Special
<1>2. \A i \in 1 .. 3 : Quiet(b.calls[i])
  BY QuietFacts DEF GetConfigFile, Table
<1> QED
  BY <1>1, <1>2, QuietIsPlain DEF FillsItsRecord

(* endorse_get_pubkey_file,                                                *)
LEMMA GetPubkeyFileQuiet ==
  FillsItsRecord(GetPubkeyFile)
<1> SUFFICES ASSUME NEW b, b = GetPubkeyFile PROVE FillsItsRecord(b)
  OBVIOUS
<1>1. Len(b.calls) = 2 /\ b.size = 0 /\ b.name \notin Special
  BY DEF GetPubkeyFile, Table, Special
<1>2. \A i \in 1 .. 2 : Quiet(b.calls[i])
  BY QuietFacts DEF GetPubkeyFile, Table
<1> QED
  BY <1>1, <1>2, QuietIsPlain DEF FillsItsRecord

(* endorse_read_password_and_decrypt_certfile,                             *)
LEMMA DecryptCertfileQuiet ==
  FillsItsRecord(DecryptCertfile)
<1> SUFFICES ASSUME NEW b, b = DecryptCertfile PROVE FillsItsRecord(b)
  OBVIOUS
<1>1. Len(b.calls) = 2 /\ b.size = 0 /\ b.name \notin Special
  BY DEF DecryptCertfile, Table, Special
<1>2. \A i \in 1 .. 2 : Quiet(b.calls[i])
  <2>1. /\ b.calls[1] = Acquire({"password"}, "done")
        /\ b.calls[2] = May("crash", Acquire({"decrypted_cert"}, "password"))
    BY DEF DecryptCertfile, Table
  <2>2. Quiet(b.calls[1])
    BY <2>1, QuietFacts
  <2>3. Quiet(b.calls[2])
    BY <2>1 DEF Quiet, May, Acquire, Do
  <2> QED
    BY <2>2, <2>3
<1> QED
  BY <1>1, <1>2, QuietIsPlain DEF FillsItsRecord

(* endorse_get_pubkey_id,                                                  *)
LEMMA GetPubkeyIdQuiet ==
  ASSUME NEW right
  PROVE  FillsItsRecord(GetPubkeyId(right))
<1> SUFFICES ASSUME NEW b, b = GetPubkeyId(right) PROVE FillsItsRecord(b)
  OBVIOUS
<1>1. Len(b.calls) = 7 /\ b.size = 0 /\ b.name \notin Special
  BY DEF GetPubkeyId, Table, Cascading, Special
<1>2. \A i \in 1 .. 7 : Quiet(b.calls[i])
  BY QuietFacts DEF GetPubkeyId, Table, Cascading
<1> QED
  BY <1>1, <1>2, QuietIsPlain DEF FillsItsRecord

(* endorse_get_endorser_details,                                           *)
LEMMA GetEndorserDetailsQuiet ==
  ASSUME NEW id, NEW key
  PROVE  FillsItsRecord(GetEndorserDetails(id, key))
<1> SUFFICES ASSUME NEW b, b = GetEndorserDetails(id, key) PROVE FillsItsRecord(b)
  OBVIOUS
<1>1. Len(b.calls) = 7 /\ b.size = 0 /\ b.name \notin Special
  BY DEF GetEndorserDetails, Table, Special
<1>2. \A i \in 1 .. 7 : Quiet(b.calls[i])
  BY QuietFacts DEF GetEndorserDetails, Table
<1> QED
  BY <1>1, <1>2, QuietIsPlain DEF FillsItsRecord

(* crypt_cipher_mac_init_from_password,                                    *)
LEMMA CipherMacInitQuiet ==
  FillsItsRecord(CipherMacInit)
<1> SUFFICES ASSUME NEW b, b = CipherMacInit PROVE FillsItsRecord(b)
  OBVIOUS
<1>1. Len(b.calls) = 5 /\ b.size = 0 /\ b.name \notin Special
  BY DEF CipherMacInit, Table, Special
<1>2. \A i \in 1 .. 5 : Quiet(b.calls[i])
  BY QuietFacts DEF CipherMacInit, Table
<1> QED
  BY <1>1, <1>2, QuietIsPlain DEF FillsItsRecord

(* endorse_get_output_filename,                                            *)
LEMMA GetOutputFilenameQuiet ==
  ASSUME NEW given
  PROVE  FillsItsRecord(GetOutputFilename(given))
<1> SUFFICES ASSUME NEW b, b = GetOutputFilename(given) PROVE FillsItsRecord(b)
  OBVIOUS
<1>1. b.size = 0 /\ b.name \notin Special
  BY DEF GetOutputFilename, Table, Special
<1>2. CASE given
  <2>1. b.calls = <<Malloc("output_filename", "done")>>
    BY <1>2 DEF GetOutputFilename, Table
  <2>2. Len(b.calls) = 1 /\ Quiet(b.calls[1])
    BY <2>1, QuietFacts
  <2> QED
    BY <1>1, <2>2, QuietIsPlain DEF FillsItsRecord
<1>3. CASE ~given
  <2>1. b.calls = <<Acquire({"output_filename"}, "done"), Do("output_filename")>>
    BY <1>3 DEF GetOutputFilename, Table
  <2>2. Len(b.calls) = 2 /\ Quiet(b.calls[1]) /\ Quiet(b.calls[2])
    BY <2>1, QuietFacts
  <2>3. Len(b.calls) \in Nat /\ \A i \in 1 .. Len(b.calls) : Quiet(b.calls[i])
    BY <2>2
  <2> QED
    BY <1>1, <2>3, QuietIsPlain DEF FillsItsRecord
<1> QED
  BY <1>2, <1>3

(* endorse_uuid_dictionary_add,                                            *)
LEMMA DictionaryAddQuiet ==
  ASSUME NEW copied, NEW empty
  PROVE  FillsItsRecord(DictionaryAdd(copied, empty))
<1> SUFFICES ASSUME NEW b, b = DictionaryAdd(copied, empty) PROVE FillsItsRecord(b)
  OBVIOUS
<1>1. Len(b.calls) = 3 /\ b.size = 0 /\ b.name \notin Special
  BY DEF DictionaryAdd, Cascading, Table, Special
<1>2. Quiet(b.calls[1])
  <2>1. b.calls[1] = Acquire({"entry"}, "done")
    BY DEF DictionaryAdd, Cascading, Table
  <2> QED
    BY <2>1, QuietFacts
<1>3. Quiet(b.calls[2])
  <2>1. \E r, o : b.calls[2] = [Acquire(r, "done") EXCEPT !.outcomes = o]
    BY Zenon DEF DictionaryAdd, Cascading, Table
  <2> QED
    BY <2>1 DEF Quiet, Acquire, Do
<1>4. Quiet(b.calls[3])
  <2>1. \E f : b.calls[3] = Do(f) \/ b.calls[3] = May("crash", Do(f))
    <3> DEFINE f == IF copied THEN "key" ELSE "entry"
    <3>1. b.calls[3] = IF copied \/ empty THEN Do(f) ELSE May("crash", Do(f))
      BY DEF DictionaryAdd, Cascading, Table
    <3> HIDE DEF f
    <3> QED
      BY <3>1, Zenon
  <2> QED
    BY <2>1 DEF Quiet, May, Do
<1>5. Len(b.calls) \in Nat /\ \A i \in 1 .. Len(b.calls) : Quiet(b.calls[i])
  BY <1>1, <1>2, <1>3, <1>4
<1> QED
  BY <1>1, <1>5, QuietIsPlain DEF FillsItsRecord

(* endorse_working_set_add_verb_capability,                                *)
LEMMA AddVerbCapabilityQuiet ==
  ASSUME NEW exists
  PROVE  FillsItsRecord(AddVerbCapability(exists))
<1> SUFFICES ASSUME NEW b, b = AddVerbCapability(exists) PROVE FillsItsRecord(b)
  OBVIOUS
<1>1. b.size = 0 /\ b.name \notin Special
  BY DEF AddVerbCapability, Cascading, Table, Special
<1>2. CASE exists
  <2>1. b.calls = <<>>
    BY <1>2 DEF AddVerbCapability, Cascading, Table
  <2>2. Len(b.calls) = 0
    BY <2>1
  <2>3. Len(b.calls) \in Nat /\ \A i \in 1 .. Len(b.calls) : Quiet(b.calls[i])
    BY <2>2
  <2> QED
    BY <1>1, <2>3, QuietIsPlain DEF FillsItsRecord
<1>3. CASE ~exists
  <2>1. b.calls = <<Acquire({"entry"}, "done"), Do("entry")>>
    BY <1>3 DEF AddVerbCapability, Cascading, Table
  <2>2. Len(b.calls) = 2 /\ Quiet(b.calls[1]) /\ Quiet(b.calls[2])
    BY <2>1, QuietFacts
  <2>3. Len(b.calls) \in Nat /\ \A i \in 1 .. Len(b.calls) : Quiet(b.calls[i])
    BY <2>2
  <2> QED
    BY <1>1, <2>3, QuietIsPlain DEF FillsItsRecord
<1> QED
  BY <1>2, <1>3

(* and the three routines that read a certificate.                         *)
LEMMA ReadCertQuiet ==
  ASSUME NEW name, name \notin Special, NEW decrypt, decrypt = <<>> \/ decrypt = <<Do("fd")>>
  PROVE  FillsItsRecord(ReadCert(name, decrypt))
<1> SUFFICES ASSUME NEW b, b = ReadCert(name, decrypt) PROVE FillsItsRecord(b)
  OBVIOUS
<1> DEFINE read == <<Acquire({"cert"}, "done"), Acquire({"fd"}, "cert"), MayBeShort("fd")>>
<1>1. b.calls = read \o decrypt /\ b.size = 0 /\ b.name \notin Special
  BY DEF ReadCert, Cascading, Saving, Table
<1>2. Fills(read, 0, 0) /\ IsSequence(read)
  <2>1. Len(read) = 3 /\ \A i \in 1 .. 3 : Quiet(read[i])
    BY QuietFacts
  <2>2. read \in Seq({read[i] : i \in 1 .. 3})
    OBVIOUS
  <2> HIDE DEF read
  <2>3. IsSequence(read)
    BY <2>2 DEF IsSequence
  <2> QED
    BY <2>1, <2>3, QuietFills
<1>3. Fills(decrypt, 0, 0) /\ IsSequence(decrypt)
  <2>1. CASE decrypt = <<>>
    <3>1. Len(decrypt) = 0 /\ IsSequence(decrypt)
      BY <2>1, ConcatEmpty
    <3> QED
      BY <3>1, QuietFills
  <2>2. CASE decrypt = <<Do("fd")>>
    <3>1. Len(decrypt) = 1 /\ Quiet(decrypt[1])
      BY <2>2, QuietFacts
    <3>2. decrypt \in Seq({Do("fd")})
      BY <2>2
    <3>3. IsSequence(decrypt)
      BY <3>2 DEF IsSequence
    <3> QED
      BY <3>1, <3>3, QuietFills
  <2> QED
    BY <2>1, <2>2
<1> HIDE DEF read
<1>4. Fills(b.calls, 0, 0)
  BY <1>1, <1>2, <1>3, FillsOn
<1>5. Len(b.calls) \in Nat
  BY <1>1, <1>2, <1>3, ConcatFacts
<1> QED
  BY <1>1, <1>4, <1>5 DEF FillsItsRecord, Plain

(* What a call adds to the record.                                         *)
Lays(c, k) == c.mac = <<>> /\ c.reads = {} /\ IsSequence(c.writes) /\ Len(c.writes) = k

(* Calls that add nothing, a field, or some bytes.                         *)
LEMMA LaysFacts ==
  /\ \A c : Quiet(c) => Lays(c, 0)
  /\ \A f, v : Lays(Add(f, v), 1)
  /\ \A x, f : IsSequence(x) => Lays([Do(f) EXCEPT !.writes = x], Len(x))
<1>1. \A c : Quiet(c) => Lays(c, 0)
  BY ConcatEmpty DEF Quiet, Lays
<1>2. ASSUME NEW f, NEW v PROVE Lays(Add(f, v), 1)
  <2>1. PICK x : x = <<<<f, v, 1>>>>
    OBVIOUS
  <2>2. x \in Seq({<<f, v, 1>>}) /\ Len(x) = 1
    BY <2>1
  <2>3. Add(f, v).mac = <<>> /\ Add(f, v).reads = {} /\ Add(f, v).writes = x
    BY <2>1 DEF Add, Do
  <2> QED
    BY <2>2, <2>3 DEF Lays, IsSequence
<1>3. ASSUME NEW x, NEW f, IsSequence(x) PROVE Lays([Do(f) EXCEPT !.writes = x], Len(x))
  BY <1>3 DEF Lays, Do
<1> QED
  BY <1>1, <1>2, <1>3

(* Calls fill a record if their lengths add up.                            *)
LEMMA LaysFill ==
  ASSUME NEW s, Len(s) \in Nat, NEW m \in Nat, NEW n \in Nat,
         NEW size \in [1 .. Len(s) + 1 -> 0 .. n], size[1] = m, size[Len(s) + 1] = n,
         \A i \in 1 .. Len(s) : Lays(s[i], size[i + 1] - size[i])
  PROVE  Fills(s, m, n)
<1>1. size \in [1 .. Len(s) + 1 -> Nat] /\ \A i \in 1 .. Len(s) + 1 : size[i] \in 0 .. n /\ size[i] <= n
  OBVIOUS
<1>2. ASSUME NEW i \in 1 .. Len(s)
      PROVE  /\ s[i].mac = <<>> /\ s[i].reads = {} /\ IsSequence(s[i].writes)
             /\ size[i + 1] = size[i] + Len(s[i].writes)
  <2>1. size[i] \in Nat /\ size[i + 1] \in Nat
    <3>1. i \in 1 .. Len(s) + 1 /\ i + 1 \in 1 .. Len(s) + 1
      OBVIOUS
    <3> QED
      BY <1>1, <3>1
  <2>2. Lays(s[i], size[i + 1] - size[i])
    OBVIOUS
  <2>3. s[i].mac = <<>> /\ s[i].reads = {} /\ IsSequence(s[i].writes)
    BY <2>2 DEF Lays
  <2>4. Len(s[i].writes) = size[i + 1] - size[i]
    BY <2>2 DEF Lays
  <2> QED
    BY <2>1, <2>3, <2>4
<1>3. Filling(s, n, size)
  BY <1>1, <1>2 DEF Filling
<1> QED
  BY <1>1, <1>3 DEF Fills

(* The six fields of a public certificate fill its record,                 *)
LEMMA PubkeyCertificateCreateFills ==
  FillsItsRecord(PubkeyCertificateCreate)
<1> SUFFICES ASSUME NEW b, b = PubkeyCertificateCreate PROVE FillsItsRecord(b)
  OBVIOUS
<1>1. PICK s : s = b.calls
  OBVIOUS
<1>2. Len(s) = 8 /\ b.size = 6 /\ b.name \notin Special
  BY <1>1 DEF PubkeyCertificateCreate, Table, Special
<1>3. Lays(s[1], 0) /\ Lays(s[8], 0)
  <2>1. Quiet(s[1]) /\ Quiet(s[8])
    BY <1>1, QuietFacts DEF PubkeyCertificateCreate, Table
  <2> QED
    BY <2>1, LaysFacts
<1>4. \A i \in 2 .. 7 : Lays(s[i], 1)
  BY <1>1, LaysFacts DEF PubkeyCertificateCreate, Table
<1> DEFINE size == <<0, 0, 1, 2, 3, 4, 5, 6, 6>>
<1>5. size \in [1 .. 9 -> 0 .. 6] /\ size[1] = 0 /\ size[9] = 6
  OBVIOUS
<1>6. \A i \in 1 .. 8 : Lays(s[i], size[i + 1] - size[i])
  <2>1. /\ size[2] - size[1] = 0 /\ size[9] - size[8] = 0
        /\ \A i \in 2 .. 7 : size[i + 1] - size[i] = 1
    OBVIOUS
  <2> HIDE DEF size
  <2> QED
    BY <1>3, <1>4, <2>1
<1> HIDE DEF size
<1>7. Fills(s, 0, 6)
  <2>1. /\ Len(s) \in Nat /\ size \in [1 .. Len(s) + 1 -> 0 .. 6] /\ size[Len(s) + 1] = 6
        /\ \A i \in 1 .. Len(s) : Lays(s[i], size[i + 1] - size[i])
    BY <1>2, <1>5, <1>6
  <2> QED
    BY <1>5, <2>1, LaysFill
<1> QED
  BY <1>1, <1>2, <1>7 DEF FillsItsRecord, Plain

(* and so do the eight of a private one,                                   *)
LEMMA KeypairCertificateCreateFills ==
  FillsItsRecord(KeypairCertificateCreate)
<1> SUFFICES ASSUME NEW b, b = KeypairCertificateCreate PROVE FillsItsRecord(b)
  OBVIOUS
<1>1. b.calls = KeypairSetUp \o KeypairFields /\ b.size = 8 /\ b.name \notin Special
  BY DEF KeypairCertificateCreate, Table, Special
<1>2. Fills(KeypairSetUp, 0, 0) /\ IsSequence(KeypairSetUp)
  <2>1. PICK s : s = KeypairSetUp
    OBVIOUS
  <2>2. Len(s) = 11 /\ \A i \in 1 .. 11 : Quiet(s[i])
    BY <2>1, QuietFacts DEF KeypairSetUp
  <2>3. s \in Seq({s[i] : i \in 1 .. 11})
    BY <2>1 DEF KeypairSetUp
  <2> QED
    BY <2>1, <2>2, <2>3, QuietFills DEF IsSequence
<1>3. Fills(KeypairFields, 0, 8) /\ IsSequence(KeypairFields)
  <2>1. PICK s : s = KeypairFields
    OBVIOUS
  <2>2. Len(s) = 10
    BY <2>1 DEF KeypairFields
  <2>3. Lays(s[1], 0) /\ Lays(s[10], 0)
    <3>1. Quiet(s[1]) /\ Quiet(s[10])
      BY <2>1, QuietFacts DEF KeypairFields
    <3> QED
      BY <3>1, LaysFacts
  <2>4. \A i \in 2 .. 9 : Lays(s[i], 1)
    BY <2>1, LaysFacts DEF KeypairFields
  <2>5. s \in Seq({s[i] : i \in 1 .. 10})
    BY <2>1 DEF KeypairFields
  <2> DEFINE size == <<0, 0, 1, 2, 3, 4, 5, 6, 7, 8, 8>>
  <2>6. size \in [1 .. 11 -> 0 .. 8] /\ size[1] = 0 /\ size[11] = 8
    OBVIOUS
  <2>7. \A i \in 1 .. 10 : Lays(s[i], size[i + 1] - size[i])
    <3>1. /\ size[2] - size[1] = 0 /\ size[11] - size[10] = 0
          /\ \A i \in 2 .. 9 : size[i + 1] - size[i] = 1
      OBVIOUS
    <3> HIDE DEF size
    <3> QED
      BY <2>3, <2>4, <3>1
  <2> HIDE DEF size
  <2>8. Fills(s, 0, 8)
    <3>1. /\ Len(s) \in Nat /\ size \in [1 .. Len(s) + 1 -> 0 .. 8] /\ size[Len(s) + 1] = 8
          /\ \A i \in 1 .. Len(s) : Lays(s[i], size[i + 1] - size[i])
      BY <2>2, <2>6, <2>7
    <3> QED
      BY <2>6, <3>1, LaysFill
  <2> QED
    BY <2>1, <2>5, <2>8 DEF IsSequence
<1>4. Fills(b.calls, 0, 8)
  BY <1>1, <1>2, <1>3, FillsOn
<1>5. Len(b.calls) \in Nat
  BY <1>1, <1>2, <1>3, ConcatFacts
<1> QED
  BY <1>1, <1>4, <1>5 DEF FillsItsRecord, Plain

(* and those of the file that endorse writes.                              *)
LEMMA BuildOutputFileFills ==
  ASSUME NEW fields, IsSequence(fields), NEW set \in Nat
  PROVE  FillsItsRecord(BuildOutputFile(fields, set))
<1> SUFFICES ASSUME NEW b, b = BuildOutputFile(fields, set) PROVE FillsItsRecord(b)
  OBVIOUS
<1>1. PICK s : s = b.calls
  OBVIOUS
<1> DEFINE n == Len(fields)
           total == n + set + 2
<1>2. Len(s) = 8 /\ b.size = total /\ b.name \notin Special
  BY <1>1 DEF BuildOutputFile, OutputCertSize, Table, Special
<1>3. n \in Nat
  BY DEF IsSequence
<1>4. Quiet(s[1]) /\ Quiet(s[2]) /\ Quiet(s[3]) /\ Quiet(s[7]) /\ Quiet(s[8])
  BY <1>1, QuietFacts DEF BuildOutputFile, Table
<1>5. Lays(s[4], n)
  <2>1. s[4] = [Do("builder") EXCEPT !.writes = fields]
    BY <1>1 DEF BuildOutputFile, Table
  <2> QED
    BY <2>1, LaysFacts
<1>6. Lays(s[5], set)
  <2>1. PICK x : x = [i \in 1 .. set |-> <<"endorsement", i>>]
    OBVIOUS
  <2>2. s[5] = [Do("builder") EXCEPT !.writes = x]
    BY <1>1, <2>1 DEF BuildOutputFile, Table
  <2>3. IsSequence(x) /\ Len(x) = set
    BY <2>1, FunctionIsSequence
  <2> QED
    BY <2>2, <2>3, LaysFacts
<1>7. Lays(s[6], 2)
  <2>1. PICK x : x = << <<"signer", "id">>, <<"signature", "bytes">> >>
    OBVIOUS
  <2>2. s[6] = [Do("builder") EXCEPT !.writes = x]
    BY <1>1, <2>1 DEF BuildOutputFile, Table
  <2>3. x \in Seq({x[1], x[2]}) /\ Len(x) = 2
    BY <2>1
  <2>4. IsSequence(x)
    BY <2>3 DEF IsSequence
  <2>5. Len(x) = 2
    BY <2>3
  <2>6. Lays([Do("builder") EXCEPT !.writes = x], Len(x))
    BY <2>4, LaysFacts
  <2> QED
    BY <2>2, <2>5, <2>6
<1> DEFINE size == <<0, 0, 0, 0, n, n + set, total, total, total>>
<1> HIDE DEF n
<1>8. size \in [1 .. 9 -> 0 .. total] /\ size[1] = 0 /\ size[9] = total
  BY <1>3
<1>9. \A i \in 1 .. 8 : Lays(s[i], size[i + 1] - size[i])
  <2>1. /\ size[2] - size[1] = 0 /\ size[3] - size[2] = 0 /\ size[4] - size[3] = 0
        /\ size[5] - size[4] = n /\ size[6] - size[5] = set /\ size[7] - size[6] = 2
        /\ size[8] - size[7] = 0 /\ size[9] - size[8] = 0
    BY <1>3
  <2>2. Lays(s[1], 0) /\ Lays(s[2], 0) /\ Lays(s[3], 0) /\ Lays(s[7], 0) /\ Lays(s[8], 0)
    BY <1>4, LaysFacts
  <2> HIDE DEF size, total
  <2> QED
    BY <1>5, <1>6, <1>7, <2>1, <2>2
<1>10. total \in Nat
  BY <1>3
<1> HIDE DEF size, total
<1>11. Fills(s, 0, total)
  <2>1. /\ Len(s) \in Nat /\ size \in [1 .. Len(s) + 1 -> 0 .. total] /\ size[Len(s) + 1] = total
        /\ \A i \in 1 .. Len(s) : Lays(s[i], size[i + 1] - size[i])
    BY <1>2, <1>8, <1>9
  <2> QED
    BY <1>8, <1>10, <2>1, LaysFill
<1> QED
  BY <1>1, <1>2, <1>10, <1>11 DEF FillsItsRecord, Plain

(* The calls for a field lay the field.                                    *)
LEMMA EmitFieldFills ==
  ASSUME NEW f, NEW m \in Nat
  PROVE  Fills(EmitField(f), m, m + 1) /\ IsSequence(EmitField(f))
<1> DEFINE emit == [Do("parser") EXCEPT !.writes = <<f>>]
           check == Check(f[2] # "bad_size", "parser")
<1>1. EmitField(f) = <<emit>> \o (IF f[1] = "artifact_id" THEN <<check>> ELSE <<>>)
  BY Zenon DEF EmitField
<1>2. Fills(<<emit>>, m, m + 1) /\ IsSequence(<<emit>>)
  <2>1. PICK x : x = <<f>>
    OBVIOUS
  <2>2. x \in Seq({f}) /\ Len(x) = 1
    BY <2>1
  <2>3. IsSequence(x)
    BY <2>2 DEF IsSequence
  <2>4. emit = [Do("parser") EXCEPT !.writes = x]
    BY <2>1
  <2> HIDE DEF emit
  <2>5. Lays(emit, 1)
    BY <2>2, <2>3, <2>4, LaysFacts
  <2>6. PICK s : s = <<emit>>
    OBVIOUS
  <2>7. s \in Seq({emit}) /\ Len(s) = 1 /\ s[1] = emit
    BY <2>6
  <2> DEFINE size == <<m, m + 1>>
  <2>8. size \in [1 .. 2 -> 0 .. m + 1] /\ size[1] = m /\ size[2] = m + 1 /\ size[2] - size[1] = 1
    OBVIOUS
  <2> HIDE DEF size
  <2>9. /\ Len(s) \in Nat /\ size \in [1 .. Len(s) + 1 -> 0 .. m + 1] /\ size[Len(s) + 1] = m + 1
        /\ \A i \in 1 .. Len(s) : Lays(s[i], size[i + 1] - size[i])
    BY <2>5, <2>7, <2>8
  <2>10. Fills(s, m, m + 1)
    BY <2>8, <2>9, LaysFill
  <2> QED
    BY <2>6, <2>7, <2>10 DEF IsSequence
<1>3. Fills(<<check>>, m + 1, m + 1) /\ IsSequence(<<check>>)
  <2>1. Quiet(check)
    BY DEF Quiet, Check, Do
  <2> HIDE DEF check
  <2>2. PICK s : s = <<check>>
    OBVIOUS
  <2>3. s \in Seq({check}) /\ Len(s) = 1 /\ s[1] = check
    BY <2>2
  <2>4. Fills(s, m + 1, m + 1)
    BY <2>1, <2>3, QuietFills
  <2> QED
    BY <2>2, <2>3, <2>4 DEF IsSequence
<1>4. Fills(<<>>, m + 1, m + 1) /\ IsSequence(<<>>)
  <2>1. PICK s : s = <<>>
    OBVIOUS
  <2>2. Len(s) = 0 /\ IsSequence(s)
    BY <2>1, ConcatEmpty
  <2>3. Fills(s, m + 1, m + 1)
    BY <2>2, QuietFills
  <2> QED
    BY <2>1, <2>2, <2>3
<1> HIDE DEF emit, check
<1>5. CASE f[1] = "artifact_id"
  <2>1. PICK e, k : e = <<emit>> /\ k = <<check>>
    OBVIOUS
  <2>2. EmitField(f) = e \o k
    BY <1>1, <1>5, <2>1
  <2>3. Fills(e, m, m + 1) /\ IsSequence(e) /\ Fills(k, m + 1, m + 1) /\ IsSequence(k)
    BY <1>2, <1>3, <2>1
  <2>4. m + 1 \in Nat /\ m <= m + 1
    OBVIOUS
  <2>5. Fills(e \o k, m, m + 1) /\ IsSequence(e \o k)
    BY <2>3, <2>4, FillsOn, ConcatFacts
  <2> QED
    BY <2>2, <2>5
<1>6. CASE f[1] # "artifact_id"
  BY <1>1, <1>2, <1>4, <1>6, FillsOn, ConcatFacts
<1> QED
  BY <1>5, <1>6

(* and so endorse_emit_public_certificate_fields copies every field.       *)
LEMMA EmitPublicFieldsFills ==
  ASSUME NEW fields, Len(fields) \in Nat
  PROVE  FillsItsRecord(EmitPublicFields(fields))
<1> SUFFICES ASSUME NEW b, b = EmitPublicFields(fields) PROVE FillsItsRecord(b)
  OBVIOUS
<1> DEFINE N == Len(fields)
           emits == CHOOSE g : g = [n \in 0 .. N |-> IF n = 0 THEN <<>>
                                                     ELSE g[n - 1] \o EmitField(fields[n])]
           start == <<Acquire({"parser_options"}, "done"),
                      Acquire({"parser"}, "parser_options"), Do("parser")>>
<1>1. b.calls = start \o emits[N] /\ b.size = N /\ b.name \notin Special
  BY DEF EmitPublicFields, EmitField, Table, Special
<1>2. emits = [n \in 0 .. N |-> IF n = 0 THEN <<>> ELSE emits[n - 1] \o EmitField(fields[n])]
  <2> DEFINE E == [n \in 1 .. N |-> EmitField(fields[n])]
  <2>1. PICK g : g = [n \in 0 .. N |-> IF n = 0 THEN <<>> ELSE g[n - 1] \o E[n]]
    BY PutTogether
  <2>2. g = [n \in 0 .. N |-> IF n = 0 THEN <<>> ELSE g[n - 1] \o EmitField(fields[n])]
    <3>1. \A n \in 0 .. N : n # 0 => E[n] = EmitField(fields[n])
      OBVIOUS
    <3> HIDE DEF E, N
    <3> QED
      BY <2>1, <3>1
  <2> HIDE DEF N
  <2> QED
    BY <2>2
<1> HIDE DEF emits
<1>3. Fills(emits[N], 0, N) /\ IsSequence(emits[N])
  <2> DEFINE S == {n \in Nat : n \in 0 .. N => Fills(emits[n], 0, n) /\ IsSequence(emits[n])}
  <2>1. 0 \in S
    <3>1. emits[0] = <<>>
      BY <1>2
    <3>2. PICK s : s = <<>>
      OBVIOUS
    <3>3. Len(s) = 0 /\ IsSequence(s)
      BY <3>2, ConcatEmpty
    <3>4. Fills(s, 0, 0)
      BY <3>3, QuietFills
    <3> QED
      BY <3>1, <3>2, <3>3, <3>4
  <2>2. ASSUME NEW n \in Nat, n \in S PROVE n + 1 \in S
    <3> SUFFICES ASSUME n + 1 \in 0 .. N
                 PROVE  Fills(emits[n + 1], 0, n + 1) /\ IsSequence(emits[n + 1])
      OBVIOUS
    <3>1. n \in 0 .. N /\ n + 1 # 0 /\ (n + 1) - 1 = n
      OBVIOUS
    <3>2. emits[n + 1] = emits[n] \o EmitField(fields[n + 1])
      <4> HIDE DEF N
      <4> QED
        BY <1>2, <3>1
    <3>3. PICK e, g : e = emits[n] /\ g = EmitField(fields[n + 1])
      OBVIOUS
    <3>4. Fills(e, 0, n) /\ IsSequence(e)
      BY <2>2, <3>1, <3>3
    <3>5. Fills(g, n, n + 1) /\ IsSequence(g)
      BY <3>3, EmitFieldFills
    <3>6. Fills(e \o g, 0, n + 1) /\ IsSequence(e \o g)
      BY <3>4, <3>5, FillsOn, ConcatFacts
    <3> QED
      BY <3>2, <3>3, <3>6
  <2>3. N \in S
    <3> HIDE DEF S
    <3> QED
      BY <2>1, <2>2, SetInduction
  <2> QED
    BY <2>3
<1>4. Fills(start, 0, 0) /\ IsSequence(start)
  <2>1. Len(start) = 3 /\ \A i \in 1 .. 3 : Quiet(start[i])
    BY QuietFacts
  <2>2. start \in Seq({start[i] : i \in 1 .. 3})
    OBVIOUS
  <2> HIDE DEF start
  <2> QED
    BY <2>1, <2>2, QuietFills DEF IsSequence
<1> HIDE DEF start
<1>5. N \in Nat
  OBVIOUS
<1> HIDE DEF N
<1>6. Fills(b.calls, 0, N)
  <2>1. PICK e : e = emits[N]
    OBVIOUS
  <2>2. Fills(e, 0, N) /\ IsSequence(e)
    BY <1>3, <2>1
  <2>3. Fills(start \o e, 0, N)
    BY <1>4, <1>5, <2>2, FillsOn
  <2> QED
    BY <1>1, <2>1, <2>3
<1>7. Len(b.calls) \in Nat
  <2>1. PICK e : e = emits[N]
    OBVIOUS
  <2>2. IsSequence(start \o e)
    BY <1>3, <1>4, <2>1, ConcatFacts
  <2> QED
    BY <1>1, <2>1, <2>2 DEF IsSequence
<1> QED
  BY <1>1, <1>5, <1>6, <1>7 DEF FillsItsRecord, Plain

(* The tables of the endorse command fill their records.                   *)
LEMMA EndorseTablesFill ==
  ASSUME NEW b \in EndorseTables
  PROVE  FillsItsRecord(b)
<1>1. CASE b \in FileTables
  BY <1>1, CertfileCreateQuiet, GetPubkeyFileQuiet, GetKeyFileQuiet,
     GetInputFileQuiet, GetConfigFileQuiet, GetOutputFilenameQuiet DEF FileTables
<1>2. CASE b \in ReadingTables
  <2>1. \A decrypt : decrypt = <<>> \/ decrypt = <<Do("fd")>> =>
          \A name : name \notin Special => FillsItsRecord(ReadCert(name, decrypt))
    BY ReadCertQuiet
  <2>2. {"endorse_read_input_certificate", "endorse_read_endorse_config_file",
         "endorse_read_key_certificate"} \cap Special = {}
    BY DEF Special
  <2>3. FillsItsRecord(ReadInputCertificate) /\ FillsItsRecord(ReadConfigFile)
    BY <2>1, <2>2 DEF ReadInputCertificate, ReadConfigFile
  <2>4. \A encrypted \in BOOLEAN : FillsItsRecord(ReadKeyCertificate(encrypted))
    BY <2>1, <2>2 DEF ReadKeyCertificate
  <2> QED
    BY <1>2, <2>3, <2>4, DecryptCertfileQuiet, GetPubkeyIdQuiet DEF ReadingTables
<1>3. CASE b \in EntryTables
  BY <1>3, DictionaryAddQuiet, AddVerbCapabilityQuiet DEF EntryTables
<1>4. CASE b \in OutputTables
  <2>1. \A f, g : Len(<<f, g>>) \in Nat /\ Len(<<f>>) \in Nat
    OBVIOUS
  <2>2. \A f, g : FillsItsRecord(EmitPublicFields(<<f, g>>)) /\ FillsItsRecord(EmitPublicFields(<<f>>))
    BY <2>1, EmitPublicFieldsFills
  <2>3. ASSUME NEW f, NEW set \in 0 .. 2 PROVE FillsItsRecord(BuildOutputFile(<<f>>, set))
    <3>1. PICK s : s = <<f>>
      OBVIOUS
    <3>2. s \in Seq({f})
      BY <3>1
    <3>3. IsSequence(s) /\ set \in Nat
      BY <3>2 DEF IsSequence
    <3> QED
      BY <3>1, <3>3, BuildOutputFileFills
  <2> QED
    BY <1>4, <2>2, <2>3, GetEndorserDetailsQuiet DEF OutputTables
<1> QED
  BY <1>1, <1>2, <1>3, <1>4 DEF EndorseTables

(* Certificates are sequences, and sizes are positive.                     *)
LEMMA CertsAre ==
  /\ \A c \in Certs : IsSequence(c)
  /\ IsSequence(Other.cert)
  /\ KEY_SIZE \in Nat \ {0} /\ IV_SIZE \in Nat \ {0} /\ MAC_SIZE \in Nat \ {0}
  /\ CertMinSize = 7 + KEY_SIZE + IV_SIZE + MAC_SIZE /\ CertMinSize \in Nat
<1>1. ASSUME NEW c \in Certs \cup {Other.cert} PROVE IsSequence(c)
  BY CertsAssumption DEF IsSequence
<1> QED
  BY <1>1, RecordsAssumption DEF CertMinSize

(* The ciphertext is as long as what is encrypted.                         *)
LEMMA EncryptFacts ==
  ASSUME NEW plain, IsSequence(plain), NEW key, NEW iv
  PROVE  /\ IsSequence(Encrypt(key, iv, plain)) /\ Len(Encrypt(key, iv, plain)) = Len(plain)
         /\ Len(plain) \in Nat
         /\ \A i \in 1 .. Len(plain) :
              Encrypt(key, iv, plain)[i] = <<"ciphertext", <<key, iv, plain[i]>>, i>>
<1>1. Len(plain) \in Nat /\ DOMAIN plain = 1 .. Len(plain)
  BY DEF IsSequence
<1>2. PICK x : x = Encrypt(key, iv, plain)
  OBVIOUS
<1>3. x = [i \in 1 .. Len(plain) |-> <<"ciphertext", <<key, iv, plain[i]>>, i>>]
  BY <1>1, <1>2 DEF Encrypt
<1>4. x = [i \in 1 .. Len(plain) |-> x[i]]
  BY <1>3
<1>5. IsSequence(x) /\ Len(x) = Len(plain)
  BY <1>1, <1>4, FunctionIsSequence
<1>6. \A i \in 1 .. Len(plain) : x[i] = <<"ciphertext", <<key, iv, plain[i]>>, i>>
  BY <1>3
<1> QED
  BY <1>1, <1>2, <1>5, <1>6

(* The parts of a sealed certificate, one after the other.                 *)
RoundsOf(c) == RoundsBytes(c.rounds, 4)
KeyOf(salt, c) == DerivedKey(c.passphrase, salt, RoundsOf(c))
CiphertextOf(salt, iv, c) == Encrypt(KeyOf(salt, c), iv, c.cert)
Front(salt, iv, c) == Magic \o RoundsOf(c) \o salt \o iv \o CiphertextOf(salt, iv, c)
TagOf(salt, iv, c) == Mac(KeyOf(salt, c), Front(salt, iv, c), MAC_SIZE)

(* They make the sealed certificate, and they have these lengths.          *)
LEMMA SealedFacts ==
  ASSUME NEW salt, IsSequence(salt), Len(salt) = KEY_SIZE, NEW iv, IsSequence(iv), Len(iv) = IV_SIZE,
         NEW c, IsSequence(c.cert)
  PROVE  /\ IsSequence(Magic) /\ Len(Magic) = 3
         /\ IsSequence(RoundsOf(c)) /\ Len(RoundsOf(c)) = 4
         /\ IsSequence(CiphertextOf(salt, iv, c)) /\ Len(CiphertextOf(salt, iv, c)) = Len(c.cert)
         /\ IsSequence(Front(salt, iv, c)) /\ Len(Front(salt, iv, c)) = 7 + KEY_SIZE + IV_SIZE + Len(c.cert)
         /\ IsSequence(TagOf(salt, iv, c)) /\ Len(TagOf(salt, iv, c)) = MAC_SIZE
         /\ Sealed(salt, iv, c) = Front(salt, iv, c) \o TagOf(salt, iv, c)
         /\ Len(c.cert) \in Nat
<1>1. IsSequence(Magic) /\ Len(Magic) = 3
  BY BytesFacts DEF Magic
<1>2. IsSequence(RoundsOf(c)) /\ Len(RoundsOf(c)) = 4
  BY BytesFacts DEF RoundsOf, RoundsBytes
<1>3. /\ IsSequence(CiphertextOf(salt, iv, c)) /\ Len(CiphertextOf(salt, iv, c)) = Len(c.cert)
      /\ Len(c.cert) \in Nat
  BY EncryptFacts DEF CiphertextOf
<1>4. IsSequence(TagOf(salt, iv, c)) /\ Len(TagOf(salt, iv, c)) = MAC_SIZE
  BY CertsAre, BytesFacts DEF TagOf, Mac
<1>5. IsSequence(Front(salt, iv, c)) /\ Len(Front(salt, iv, c)) = 7 + KEY_SIZE + IV_SIZE + Len(c.cert)
  <2>1. PICK g, r, x, a, b, e, f :
          /\ g = Magic /\ r = RoundsOf(c) /\ x = CiphertextOf(salt, iv, c)
          /\ a = g \o r /\ b = a \o salt /\ e = b \o iv /\ f = e \o x
    OBVIOUS
  <2>2. f = Front(salt, iv, c)
    BY <2>1 DEF Front
  <2>3. /\ IsSequence(g) /\ Len(g) = 3 /\ IsSequence(r) /\ Len(r) = 4
        /\ IsSequence(x) /\ Len(x) = Len(c.cert)
    BY <1>1, <1>2, <1>3, <2>1
  <2>4. IsSequence(a) /\ Len(a) = Len(g) + Len(r)
    BY <2>1, <2>3, ConcatFacts
  <2>5. IsSequence(b) /\ Len(b) = Len(a) + Len(salt)
    BY <2>1, <2>4, ConcatFacts
  <2>6. IsSequence(e) /\ Len(e) = Len(b) + Len(iv)
    BY <2>1, <2>5, ConcatFacts
  <2>7. IsSequence(f) /\ Len(f) = Len(e) + Len(x)
    BY <2>1, <2>3, <2>6, ConcatFacts
  <2>8. Len(f) = 7 + KEY_SIZE + IV_SIZE + Len(c.cert)
    BY <2>3, <2>4, <2>5, <2>6, <2>7, CertsAre, <1>3
  <2> QED
    BY <2>2, <2>7, <2>8
<1>6. Sealed(salt, iv, c) = Front(salt, iv, c) \o TagOf(salt, iv, c)
  BY DEF Sealed, Front, TagOf, RoundsOf, KeyOf, CiphertextOf
<1> QED
  BY <1>1, <1>2, <1>3, <1>4, <1>5, <1>6

(* What a call puts into the record and into the MAC.                      *)
Puts(c, x, y) == c.mac = <<>> /\ c.reads = {} /\ c.writes = x /\ c.digests = y

(* Which calls put what.                                                   *)
LEMMA PutsFacts ==
  /\ \A c : Quiet(c) => Puts(c, <<>>, <<>>)
  /\ \A x : Puts(Write(x), x, <<>>)
  /\ \A y, f : Puts(Digest(y, f), <<>>, y)
  /\ \A x, f : Puts([Do(f) EXCEPT !.writes = x], x, <<>>)
<1>1. \A c : Quiet(c) => Puts(c, <<>>, <<>>)
  BY DEF Quiet, Puts
<1>2. \A x : Puts(Write(x), x, <<>>)
  BY DEF Write, Do, Puts
<1>3. \A y, f : Puts(Digest(y, f), <<>>, y)
  BY DEF Digest, Do, Puts
<1>4. \A x, f : Puts([Do(f) EXCEPT !.writes = x], x, <<>>)
  BY DEF Do, Puts
<1> QED
  BY <1>1, <1>2, <1>3, <1>4

(* Such a call takes the script a step further.                            *)
Further(c, w, d, v, e) == v = w \o c.writes \o Tag(c, d) /\ e = d \o c.digests

(* Where the script is then.                                               *)
LEMMA PutsFurther ==
  ASSUME NEW c, NEW w, IsSequence(w), NEW d, IsSequence(d)
  PROVE  /\ Puts(c, <<>>, <<>>) => Further(c, w, d, w, d)
         /\ \A x : Puts(c, x, <<>>) /\ IsSequence(w \o x) => Further(c, w, d, w \o x, d)
         /\ \A y : Puts(c, <<>>, y) => Further(c, w, d, w, d \o y)
<1>1. Puts(c, <<>>, <<>>) => Further(c, w, d, w, d)
  BY ConcatEmpty DEF Puts, Further, Tag
<1>2. \A x : Puts(c, x, <<>>) /\ IsSequence(w \o x) => Further(c, w, d, w \o x, d)
  BY ConcatEmpty DEF Puts, Further, Tag
<1>3. \A y : Puts(c, <<>>, y) => Further(c, w, d, w, d \o y)
  BY ConcatEmpty DEF Puts, Further, Tag
<1> QED
  BY <1>1, <1>2, <1>3

(* What certificate_encrypt does, call by call.                            *)
LEMMA EncryptCalls ==
  ASSUME NEW cert, NEW passphrase, NEW rounds,
         NEW s, s = CertificateEncrypt(cert, passphrase, rounds).calls,
         NEW key, key = DerivedKey(passphrase, Salt, RoundsBytes(rounds, 4)),
         NEW x, x = Encrypt(key, IV, cert),
         NEW r, r = RoundsBytes(rounds, 4)
  PROVE  /\ Len(s) = 20
         /\ \A i \in 1 .. 9 : Puts(s[i], <<>>, <<>>)
         /\ Puts(s[10], Magic, <<>>) /\ Puts(s[11], <<>>, Magic)
         /\ Puts(s[12], r, <<>>) /\ Puts(s[13], <<>>, r)
         /\ Puts(s[14], Salt, <<>>) /\ Puts(s[15], <<>>, Salt)
         /\ Puts(s[16], IV, <<>>) /\ Puts(s[17], x, <<>>)
         /\ Puts(s[18], <<>>, IV \o x) /\ Puts(s[19], <<>>, <<>>)
         /\ s[20] = WriteMac(key, MAC_SIZE)
<1>1. PICK g, h : g = EncryptSetUp /\ h = EncryptRecord(cert, passphrase, rounds)
  OBVIOUS
<1>2. s = g \o h
  BY <1>1 DEF CertificateEncrypt, Table
<1>3. /\ g \in Seq({g[i] : i \in 1 .. 9}) /\ Len(g) = 9
      /\ \A i \in 1 .. 9 : Quiet(g[i])
  <2>1. g \in Seq({g[i] : i \in 1 .. 9}) /\ Len(g) = 9
    BY <1>1 DEF EncryptSetUp
  <2>2. \A i \in 1 .. 9 : Quiet(g[i])
    BY <1>1, QuietFacts DEF EncryptSetUp
  <2> QED
    BY <2>1, <2>2
<1>4. PICK m, i, sa : m = Magic /\ i = IV /\ sa = Salt
  OBVIOUS
<1>5. h = <<Write(m), Digest(m, "encrypted_cert_data"),
            Write(r), Digest(r, "encrypted_cert_data"),
            Write(sa), Digest(sa, "encrypted_cert_data"),
            [Do("encrypted_cert_data") EXCEPT !.writes = i],
            [Do("encrypted_cert_data") EXCEPT !.writes = x],
            Digest(i \o x, "encrypted_cert_data"),
            Do("encrypted_cert_data"), WriteMac(key, MAC_SIZE)>>
  BY <1>1, <1>4, Zenon DEF EncryptRecord
<1>6. /\ h \in Seq({h[k] : k \in 1 .. 11}) /\ Len(h) = 11
  BY <1>5
<1>7. /\ Puts(h[1], m, <<>>) /\ Puts(h[2], <<>>, m)
      /\ Puts(h[3], r, <<>>) /\ Puts(h[4], <<>>, r)
      /\ Puts(h[5], sa, <<>>) /\ Puts(h[6], <<>>, sa)
      /\ Puts(h[7], i, <<>>) /\ Puts(h[8], x, <<>>)
      /\ Puts(h[9], <<>>, i \o x) /\ Puts(h[10], <<>>, <<>>)
      /\ h[11] = WriteMac(key, MAC_SIZE)
  <2>1. /\ h[1] = Write(m) /\ h[2] = Digest(m, "encrypted_cert_data")
        /\ h[3] = Write(r) /\ h[4] = Digest(r, "encrypted_cert_data")
        /\ h[5] = Write(sa) /\ h[6] = Digest(sa, "encrypted_cert_data")
        /\ h[7] = [Do("encrypted_cert_data") EXCEPT !.writes = i]
        /\ h[8] = [Do("encrypted_cert_data") EXCEPT !.writes = x]
        /\ h[9] = Digest(i \o x, "encrypted_cert_data")
        /\ h[10] = Do("encrypted_cert_data") /\ h[11] = WriteMac(key, MAC_SIZE)
    BY <1>5
  <2>2. Puts(h[10], <<>>, <<>>)
    BY <2>1 DEF Do, Puts
  <2> QED
    BY <2>1, <2>2, PutsFacts
<1>8. /\ Len(s) = 20 /\ \A k \in 1 .. 9 : s[k] = g[k]
      /\ \A k \in 1 .. 11 : s[9 + k] = h[k]
  <2>1. IsSequence(g) /\ IsSequence(h)
    BY <1>3, <1>6 DEF IsSequence
  <2>2. /\ Len(s) = Len(g) + Len(h) /\ \A k \in 1 .. Len(g) : s[k] = g[k]
        /\ \A k \in 1 .. Len(h) : s[Len(g) + k] = h[k]
    BY <1>2, <2>1, ConcatFacts
  <2> QED
    BY <1>3, <1>6, <2>2
<1>9. \A k \in 1 .. 9 : Puts(s[k], <<>>, <<>>)
  BY <1>3, <1>8, PutsFacts
<1>10. /\ s[10] = h[1] /\ s[11] = h[2] /\ s[12] = h[3] /\ s[13] = h[4] /\ s[14] = h[5] /\ s[15] = h[6]
       /\ s[16] = h[7] /\ s[17] = h[8] /\ s[18] = h[9] /\ s[19] = h[10] /\ s[20] = h[11]
  <2>1. \A k \in 1 .. 11 : s[9 + k] = h[k]
    BY <1>8
  <2> QED
    BY <2>1
<1> QED
  BY <1>4, <1>7, <1>8, <1>9, <1>10

(* The routine follows a script, and what it writes is a sealed            *)
(* certificate.                                                            *)
LEMMA EncryptScripted ==
  ASSUME NEW cert \in Certs, NEW passphrase \in Passphrases, NEW rounds \in Rounds
  PROVE  Scripted(CertificateEncrypt(cert, passphrase, rounds))
<1>1. PICK b : b = CertificateEncrypt(cert, passphrase, rounds)
  OBVIOUS
<1>2. PICK s, c : s = b.calls /\ c = [cert |-> cert, passphrase |-> passphrase, rounds |-> rounds]
  OBVIOUS
<1>3. PICK key, x, r, m, sa, iv :
        /\ key = DerivedKey(passphrase, Salt, RoundsBytes(rounds, 4))
        /\ x = Encrypt(key, IV, cert) /\ r = RoundsBytes(rounds, 4)
        /\ m = Magic /\ sa = Salt /\ iv = IV
  OBVIOUS
<1>4. /\ IsSequence(sa) /\ Len(sa) = KEY_SIZE /\ IsSequence(iv) /\ Len(iv) = IV_SIZE
      /\ IsSequence(c.cert)
  BY <1>2, <1>3, CertsAre, BytesFacts DEF Salt, IV
<1>5. /\ r = RoundsOf(c) /\ key = KeyOf(sa, c) /\ x = CiphertextOf(sa, iv, c)
  BY <1>2, <1>3 DEF RoundsOf, KeyOf, CiphertextOf
<1>6. PICK a2, a3, a4, a5, t, a6 :
        /\ a2 = m \o r /\ a3 = a2 \o sa /\ a4 = a3 \o iv /\ a5 = a4 \o x
        /\ t = TagOf(sa, iv, c) /\ a6 = a5 \o t
  OBVIOUS
<1>7. a5 = Front(sa, iv, c) /\ a6 = Sealed(sa, iv, c) /\ t = Mac(key, a5, MAC_SIZE)
  <2>1. a5 = Front(sa, iv, c)
    BY <1>3, <1>5, <1>6 DEF Front
  <2>2. a6 = Sealed(sa, iv, c)
    BY <1>4, <1>6, <2>1, SealedFacts
  <2> QED
    BY <1>5, <1>6, <2>1, <2>2 DEF TagOf
<1>8. /\ IsSequence(m) /\ Len(m) = 3 /\ IsSequence(r) /\ Len(r) = 4
      /\ IsSequence(x) /\ Len(x) = Len(cert) /\ Len(cert) \in Nat
      /\ IsSequence(t) /\ Len(t) = MAC_SIZE
  <2>1. c.cert = cert
    BY <1>2
  <2> QED
    BY <1>3, <1>4, <1>5, <1>6, <2>1, SealedFacts
<1>9. /\ IsSequence(a2) /\ Len(a2) = Len(m) + Len(r)
      /\ IsSequence(a3) /\ Len(a3) = Len(a2) + Len(sa)
      /\ IsSequence(a4) /\ Len(a4) = Len(a3) + Len(iv)
      /\ IsSequence(a5) /\ Len(a5) = Len(a4) + Len(x)
      /\ IsSequence(a6) /\ Len(a6) = Len(a5) + Len(t)
  <2>1. IsSequence(a2) /\ Len(a2) = Len(m) + Len(r)
    BY <1>6, <1>8, ConcatFacts
  <2>2. IsSequence(a3) /\ Len(a3) = Len(a2) + Len(sa)
    BY <1>4, <1>6, <2>1, ConcatFacts
  <2>3. IsSequence(a4) /\ Len(a4) = Len(a3) + Len(iv)
    BY <1>4, <1>6, <2>2, ConcatFacts
  <2>4. IsSequence(a5) /\ Len(a5) = Len(a4) + Len(x)
    BY <1>6, <1>8, <2>3, ConcatFacts
  <2>5. IsSequence(a6) /\ Len(a6) = Len(a5) + Len(t)
    BY <1>6, <1>8, <2>4, ConcatFacts
  <2> QED
    BY <2>1, <2>2, <2>3, <2>4, <2>5
<1>10. a5 = a3 \o (iv \o x)
  <2>1. (a3 \o iv) \o x = a3 \o (iv \o x)
    <3>1. IsSequence(a3) /\ IsSequence(iv) /\ IsSequence(x)
      BY <1>4, <1>8, <1>9
    <3> QED
      BY ONLY <3>1, ConcatAssociates
  <2> QED
    BY <1>6, <2>1
<1>11. /\ Len(s) = 20
       /\ \A i \in 1 .. 9 : Puts(s[i], <<>>, <<>>)
       /\ Puts(s[10], m, <<>>) /\ Puts(s[11], <<>>, m)
       /\ Puts(s[12], r, <<>>) /\ Puts(s[13], <<>>, r)
       /\ Puts(s[14], sa, <<>>) /\ Puts(s[15], <<>>, sa)
       /\ Puts(s[16], iv, <<>>) /\ Puts(s[17], x, <<>>)
       /\ Puts(s[18], <<>>, iv \o x) /\ Puts(s[19], <<>>, <<>>)
       /\ s[20] = WriteMac(key, MAC_SIZE)
  BY <1>1, <1>2, <1>3, EncryptCalls
<1>12. PICK e : e = <<>>
  OBVIOUS
<1>13. IsSequence(e) /\ Len(e) = 0 /\ e \o m = m
  BY <1>8, <1>12, ConcatEmpty
<1> DEFINE W == [i \in 0 .. 20 |-> IF i <= 9 THEN e ELSE IF i <= 11 THEN m ELSE IF i <= 13 THEN a2
                                   ELSE IF i <= 15 THEN a3 ELSE IF i = 16 THEN a4
                                   ELSE IF i <= 19 THEN a5 ELSE a6]
           D == [i \in 0 .. 20 |-> IF i <= 10 THEN e ELSE IF i <= 12 THEN m ELSE IF i <= 14 THEN a2
                                   ELSE IF i <= 17 THEN a3 ELSE a5]
<1>14. /\ \A i \in 0 .. 9 : W[i] = e
       /\ W[9] = e /\ W[10] = m /\ W[11] = m /\ W[12] = a2 /\ W[13] = a2 /\ W[14] = a3 /\ W[15] = a3
       /\ W[16] = a4 /\ W[17] = a5 /\ W[18] = a5 /\ W[19] = a5 /\ W[20] = a6
  OBVIOUS
<1>15. /\ \A i \in 0 .. 10 : D[i] = e
       /\ D[9] = e /\ D[10] = e /\ D[11] = m /\ D[12] = m /\ D[13] = a2 /\ D[14] = a2 /\ D[15] = a3
       /\ D[16] = a3 /\ D[17] = a3 /\ D[18] = a5 /\ D[19] = a5 /\ D[20] = a5
  OBVIOUS
<1>16. \A i \in 0 .. 20 : W[i] \in {e, m, a2, a3, a4, a5, a6}
  OBVIOUS
<1> HIDE DEF W, D
<1>17. ASSUME NEW i \in 1 .. 9 PROVE Further(s[i], W[i - 1], D[i - 1], W[i], D[i])
  <2>1. i - 1 \in 0 .. 9 /\ i \in 0 .. 9 /\ i - 1 \in 0 .. 10 /\ i \in 0 .. 10
    OBVIOUS
  <2>2. W[i - 1] = e /\ D[i - 1] = e /\ W[i] = e /\ D[i] = e
    BY <1>14, <1>15, <2>1
  <2>3. Puts(s[i], <<>>, <<>>)
    BY <1>11
  <2>4. Further(s[i], e, e, e, e)
    BY <1>13, <2>3, PutsFurther
  <2> QED
    BY <2>2, <2>4
<1>18. /\ Further(s[10], e, e, m, e) /\ Further(s[11], m, e, m, m)
       /\ Further(s[12], m, m, a2, m) /\ Further(s[13], a2, m, a2, a2)
       /\ Further(s[14], a2, a2, a3, a2) /\ Further(s[15], a3, a2, a3, a3)
       /\ Further(s[16], a3, a3, a4, a3) /\ Further(s[17], a4, a3, a5, a3)
       /\ Further(s[18], a5, a3, a5, a5) /\ Further(s[19], a5, a5, a5, a5)
  <2> USE <1>6, <1>8, <1>9, <1>11, <1>13, PutsFurther
  <2>1. Further(s[10], e, e, m, e)
    OBVIOUS
  <2>2. Further(s[11], m, e, m, m)
    OBVIOUS
  <2>3. Further(s[12], m, m, a2, m)
    OBVIOUS
  <2>4. Further(s[13], a2, m, a2, a2)
    OBVIOUS
  <2>5. Further(s[14], a2, a2, a3, a2)
    OBVIOUS
  <2>6. Further(s[15], a3, a2, a3, a3)
    OBVIOUS
  <2>7. Further(s[16], a3, a3, a4, a3)
    OBVIOUS
  <2>8. Further(s[17], a4, a3, a5, a3)
    OBVIOUS
  <2>9. Further(s[18], a5, a3, a5, a5)
    BY <1>10
  <2>10. Further(s[19], a5, a5, a5, a5)
    OBVIOUS
  <2> QED
    BY ONLY <2>1, <2>2, <2>3, <2>4, <2>5, <2>6, <2>7, <2>8, <2>9, <2>10
<1>19. Further(s[20], a5, a5, a6, a5)
  <2>1. s[20].mac = <<key, MAC_SIZE>> /\ s[20].writes = <<>> /\ s[20].digests = <<>>
    BY <1>11 DEF WriteMac, Do
  <2>2. s[20].mac[1] = key /\ s[20].mac[2] = MAC_SIZE /\ s[20].mac # <<>>
    BY <2>1
  <2>3. Tag(s[20], a5) = t
    BY <1>7, <2>2 DEF Tag
  <2> QED
    BY <1>6, <1>9, <2>1, <2>3, ConcatEmpty DEF Further
<1>20. ASSUME NEW i \in 1 .. 20 PROVE Further(s[i], W[i - 1], D[i - 1], W[i], D[i])
  <2>1. CASE i \in 1 .. 9
    BY <1>17, <2>1
  <2>2. CASE i \in 10 .. 14
    BY <1>14, <1>15, <1>18, <2>2
  <2>3. CASE i \in 15 .. 20
    BY <1>14, <1>15, <1>18, <1>19, <2>3
  <2> QED
    BY <2>1, <2>2, <2>3
<1>21. Script(s, W, D)
  <2>1. Follows(s, W, D)
    <3>1. \A i \in 1 .. Len(s) : Further(s[i], W[i - 1], D[i - 1], W[i], D[i])
      BY <1>11, <1>20
    <3> QED
      BY <3>1 DEF Follows, Further
  <2>2. 0 \in 0 .. 9 /\ 0 \in 0 .. 10
    OBVIOUS
  <2>3. W[0] = <<>> /\ D[0] = <<>>
    BY <1>12, <1>14, <1>15, <2>2
  <2> QED
    BY <2>1, <2>3 DEF Script
<1>22. /\ b.size = CertMinSize + Len(cert) /\ b.name = "certificate_encrypt"
       /\ b.input = [cert |-> cert, passphrase |-> passphrase]
  BY <1>1 DEF CertificateEncrypt, Table
<1>23. Sized(b, W)
  <2>1. Len(a6) = b.size
    BY <1>4, <1>8, <1>9, <1>22, CertsAre
  <2>2. ASSUME NEW y \in {e, m, a2, a3, a4, a5, a6} PROVE IsSequence(y) /\ Len(y) <= b.size
    <3>1. /\ Len(e) = 0 /\ Len(m) = 3 /\ Len(a2) = 7 /\ Len(a3) = 7 + KEY_SIZE
          /\ Len(a4) = 7 + KEY_SIZE + IV_SIZE /\ Len(a5) = 7 + KEY_SIZE + IV_SIZE + Len(cert)
      BY <1>4, <1>8, <1>9, <1>13
    <3>2. b.size = 7 + KEY_SIZE + IV_SIZE + MAC_SIZE + Len(cert)
      BY <1>8, <1>22, CertsAre
    <3>3. /\ Len(e) <= b.size /\ Len(m) <= b.size /\ Len(a2) <= b.size /\ Len(a3) <= b.size
          /\ Len(a4) <= b.size /\ Len(a5) <= b.size /\ Len(a6) <= b.size
      BY <1>8, <2>1, <3>1, <3>2, CertsAre
    <3> QED
      BY <1>8, <1>9, <1>13, <2>2, <3>3
  <2>3. \A i \in 0 .. 20 : IsSequence(W[i]) /\ Len(W[i]) <= b.size
    BY <1>16, <2>2
  <2>4. Len(W[20]) = b.size /\ b.size >= 0
    BY <1>8, <1>14, <1>22, <2>1, CertsAre
  <2> QED
    BY <1>2, <1>11, <2>3, <2>4 DEF Sized
<1>24. \A i \in 1 .. 20 : s[i].reads = {}
  <2>1. s[20].reads = {}
    BY <1>11 DEF WriteMac, Do
  <2>2. \A i \in 10 .. 19 : s[i].reads = {}
    BY <1>11 DEF Puts
  <2>3. \A i \in 1 .. 9 : s[i].reads = {}
    BY <1>11 DEF Puts
  <2> QED
    BY <2>1, <2>2, <2>3
<1>25. Seals(b, W[20])
  BY <1>2, <1>3, <1>7, <1>14, <1>22 DEF Seals
<1>26. Meant(b, W, D)
  BY <1>2, <1>11, <1>22, <1>23, <1>24, <1>25 DEF Meant
<1> QED
  BY <1>1, <1>2, <1>21, <1>26 DEF Scripted

(* What a call writes, digests and reads, and that it leaves the file.     *)
Gives(c, x, y, rs) ==
  c.mac = <<>> /\ c.writes = x /\ c.digests = y /\ c.reads = rs /\ c.stores = FALSE

(* A check of the routine's own comes out as it must; other calls are none. *)
Checks(c, h) ==
  /\ c.check = TRUE /\ "unnoticed" \notin c.outcomes
  /\ "ok" \in c.outcomes => h
  /\ "error" \in c.outcomes => ~h

(* Which calls give what,                                                  *)
LEMMA GivesFacts ==
  /\ \A r, f : Gives(Acquire(r, f), <<>>, <<>>, {}) /\ Acquire(r, f).check = FALSE
  /\ \A r, f : Gives(Malloc(r, f), <<>>, <<>>, {}) /\ Malloc(r, f).check = FALSE
  /\ \A f : Gives(Do(f), <<>>, <<>>, {}) /\ Do(f).check = FALSE
  /\ \A y, f : Gives(Digest(y, f), <<>>, y, {}) /\ Digest(y, f).check = FALSE
  /\ \A x, f : /\ Gives([Do(f) EXCEPT !.writes = x], x, <<>>, {})
               /\ [Do(f) EXCEPT !.writes = x].check = FALSE
<1>1. \A r, f : Gives(Acquire(r, f), <<>>, <<>>, {}) /\ Acquire(r, f).check = FALSE
  BY DEF Gives, Acquire, Do
<1>2. \A r, f : Gives(Malloc(r, f), <<>>, <<>>, {}) /\ Malloc(r, f).check = FALSE
  BY DEF Gives, Malloc, Acquire, Do
<1>3. \A f : Gives(Do(f), <<>>, <<>>, {}) /\ Do(f).check = FALSE
  BY DEF Gives, Do
<1>4. \A y, f : Gives(Digest(y, f), <<>>, y, {}) /\ Digest(y, f).check = FALSE
  BY DEF Gives, Digest, Do
<1>5. \A x, f : /\ Gives([Do(f) EXCEPT !.writes = x], x, <<>>, {})
                /\ [Do(f) EXCEPT !.writes = x].check = FALSE
  BY DEF Gives, Do
<1> QED
  BY <1>1, <1>2, <1>3, <1>4, <1>5

(* which are checks,                                                       *)
LEMMA ChecksFacts ==
  \A h, f : Gives(Check(h, f), <<>>, <<>>, {}) /\ Checks(Check(h, f), h)
<1> SUFFICES ASSUME NEW h, NEW f PROVE Gives(Check(h, f), <<>>, <<>>, {}) /\ Checks(Check(h, f), h)
  OBVIOUS
<1>1. PICK c : c = Check(h, f)
  OBVIOUS
<1>2. Gives(c, <<>>, <<>>, {}) /\ c.check = TRUE
  BY <1>1 DEF Gives, Check, Do
<1>3. c.outcomes = {IF h THEN "ok" ELSE "error"}
  BY <1>1 DEF Check, Do
<1>4. Checks(c, h)
  <2>1. CASE h
    BY <1>2, <1>3, <2>1 DEF Checks
  <2>2. CASE ~h
    BY <1>2, <1>3, <2>2 DEF Checks
  <2> QED
    BY <2>1, <2>2
<1> QED
  BY <1>1, <1>2, <1>4

(* To read is all that a reading call does besides.                        *)
LEMMA ReadsFacts ==
  ASSUME NEW a, NEW n, NEW f, NEW rs, rs = {<<a, n>>}
  PROVE  /\ \A r : Gives(Read(a, n, Acquire(r, f)), <<>>, <<>>, rs) /\ Read(a, n, Acquire(r, f)).check = FALSE
         /\ \A m, k, r : /\ Gives(Read(m, k, Read(a, n, Acquire(r, f))), <<>>, <<>>, rs \cup {<<m, k>>})
                         /\ Read(m, k, Read(a, n, Acquire(r, f))).check = FALSE
         /\ \A y : Gives(Read(a, n, Digest(y, f)), <<>>, y, rs) /\ Read(a, n, Digest(y, f)).check = FALSE
         /\ Gives(Read(a, n, Do(f)), <<>>, <<>>, rs) /\ Read(a, n, Do(f)).check = FALSE
         /\ \A x : /\ Gives(Read(a, n, [Do(f) EXCEPT !.writes = x]), x, <<>>, rs)
                   /\ Read(a, n, [Do(f) EXCEPT !.writes = x]).check = FALSE
         /\ \A h : /\ Gives(Read(a, n, Check(h, f)), <<>>, <<>>, rs)
                   /\ Checks(Read(a, n, Check(h, f)), h)
<1>1. \A r : Gives(Read(a, n, Acquire(r, f)), <<>>, <<>>, rs) /\ Read(a, n, Acquire(r, f)).check = FALSE
  BY DEF Gives, Read, Acquire, Do
<1>2. \A m, k, r : /\ Gives(Read(m, k, Read(a, n, Acquire(r, f))), <<>>, <<>>, rs \cup {<<m, k>>})
                   /\ Read(m, k, Read(a, n, Acquire(r, f))).check = FALSE
  BY DEF Gives, Read, Acquire, Do
<1>3. \A y : Gives(Read(a, n, Digest(y, f)), <<>>, y, rs) /\ Read(a, n, Digest(y, f)).check = FALSE
  BY DEF Gives, Read, Digest, Do
<1>4. Gives(Read(a, n, Do(f)), <<>>, <<>>, rs) /\ Read(a, n, Do(f)).check = FALSE
  BY DEF Gives, Read, Do
<1>5. \A x : /\ Gives(Read(a, n, [Do(f) EXCEPT !.writes = x]), x, <<>>, rs)
             /\ Read(a, n, [Do(f) EXCEPT !.writes = x]).check = FALSE
  BY DEF Gives, Read, Do
<1>6. ASSUME NEW h
      PROVE  /\ Gives(Read(a, n, Check(h, f)), <<>>, <<>>, rs)
             /\ Checks(Read(a, n, Check(h, f)), h)
  <2>1. PICK c : c = Read(a, n, Check(h, f))
    OBVIOUS
  <2>2. Gives(c, <<>>, <<>>, rs) /\ c.check = TRUE
    BY <2>1 DEF Gives, Read, Check, Do
  <2>3. c.outcomes = {IF h THEN "ok" ELSE "error"}
    BY <2>1 DEF Read, Check, Do
  <2>4. Checks(c, h)
    <3>1. CASE h
      BY <2>2, <2>3, <3>1 DEF Checks
    <3>2. CASE ~h
      BY <2>2, <2>3, <3>2 DEF Checks
    <3> QED
      BY <3>1, <3>2
  <2> QED
    BY <2>1, <2>2, <2>4
<1> QED
  BY <1>1, <1>2, <1>3, <1>4, <1>5, <1>6

(* What certificate_decrypt does, call by call.                            *)
DecryptTable(file, p, s, n) ==
  /\ Len(s) = 12
  /\ Gives(s[1], <<>>, <<>>, {}) /\ s[1].check = FALSE
  /\ Gives(s[2], <<>>, <<>>, {}) /\ s[2].check = FALSE
  /\ Gives(s[3], <<>>, <<>>, {}) /\ Checks(s[3], n >= CertMinSize)
  /\ Gives(s[4], <<>>, <<>>, {<<1, 3>>}) /\ Checks(s[4], Field(file, 1, 3) = Magic)
  /\ Gives(s[5], <<>>, <<>>, {<<8, KEY_SIZE>>, <<4, 4>>}) /\ s[5].check = FALSE
  /\ Gives(s[6], <<>>, <<>>, {}) /\ s[6].check = FALSE
  /\ Gives(s[7], <<>>, <<>>, {<<Start, n - CertMinSize>>}) /\ s[7].check = FALSE
  /\ Gives(s[8], <<>>, Authenticated(file), {<<1, n - MAC_SIZE>>}) /\ s[8].check = FALSE
  /\ Gives(s[9], <<>>, <<>>, {}) /\ s[9].check = FALSE
  /\ Gives(s[10], <<>>, <<>>, {<<n - MAC_SIZE + 1, MAC_SIZE>>})
  /\ Checks(s[10], MacMatches(file, FileKey(file, p)))
  /\ Gives(s[11], <<>>, <<>>, {<<8 + KEY_SIZE, IV_SIZE>>}) /\ s[11].check = FALSE
  /\ Gives(s[12], Plaintext(file, p), <<>>, {<<Start, n - CertMinSize>>}) /\ s[12].check = FALSE

(* That is its table.                                                      *)
LEMMA DecryptCalls ==
  ASSUME NEW file, NEW p, NEW s, s = CertificateDecrypt(file, p).calls,
         NEW n, n = Len(file)
  PROVE  DecryptTable(file, p, s, n)
<1>1. PICK g, h : g = DecryptHeader(file) /\ h = DecryptRecord(file, p)
  OBVIOUS
<1>2. s = g \o h
  BY <1>1 DEF CertificateDecrypt, Table
<1>3. PICK c3, c4, c10, y, x :
        /\ c3 = Check(n >= CertMinSize, "salt")
        /\ c4 = Read(1, 3, Check(Field(file, 1, 3) = Magic, "salt"))
        /\ c10 = Read(n - MAC_SIZE + 1, MAC_SIZE, Check(MacMatches(file, FileKey(file, p)), "cert_data"))
        /\ y = Authenticated(file) /\ x = Plaintext(file, p)
  OBVIOUS
<1>4. g = <<Acquire({"mac_buffer"}, "done"), Acquire({"salt"}, "mac_buffer"), c3, c4,
            Read(4, 4, Read(8, KEY_SIZE, Acquire({"cipher", "mac"}, "salt"))),
            Malloc("cert", "cipher")>>
  BY <1>1, <1>3, Zenon DEF DecryptHeader
<1>5. h = <<Read(Start, n - CertMinSize, Acquire({"cert_data"}, "cert")),
            Read(1, n - MAC_SIZE, Digest(y, "cert_data")), Do("cert_data"), c10,
            Read(8 + KEY_SIZE, IV_SIZE, Do("cert_data")),
            Read(Start, n - CertMinSize, [Do("cert_data") EXCEPT !.writes = x])>>
  BY <1>1, <1>3, Zenon DEF DecryptRecord, Start, FileKey, Plaintext
<1>6. /\ g \in Seq({g[k] : k \in 1 .. 6}) /\ Len(g) = 6
      /\ h \in Seq({h[k] : k \in 1 .. 6}) /\ Len(h) = 6
  BY <1>4, <1>5
<1>7. /\ Len(s) = 12 /\ \A k \in 1 .. 6 : s[k] = g[k]
      /\ \A k \in 1 .. 6 : s[6 + k] = h[k]
  <2>1. IsSequence(g) /\ IsSequence(h)
    BY <1>6 DEF IsSequence
  <2>2. /\ Len(s) = Len(g) + Len(h) /\ \A k \in 1 .. Len(g) : s[k] = g[k]
        /\ \A k \in 1 .. Len(h) : s[Len(g) + k] = h[k]
    BY <1>2, <2>1, ConcatFacts
  <2> QED
    BY <1>6, <2>2
<1>8. /\ g[1] = Acquire({"mac_buffer"}, "done") /\ g[2] = Acquire({"salt"}, "mac_buffer")
      /\ g[3] = c3 /\ g[4] = c4
      /\ g[5] = Read(4, 4, Read(8, KEY_SIZE, Acquire({"cipher", "mac"}, "salt")))
      /\ g[6] = Malloc("cert", "cipher")
  BY <1>4
<1>9. /\ h[1] = Read(Start, n - CertMinSize, Acquire({"cert_data"}, "cert"))
      /\ h[2] = Read(1, n - MAC_SIZE, Digest(y, "cert_data")) /\ h[3] = Do("cert_data")
      /\ h[4] = c10 /\ h[5] = Read(8 + KEY_SIZE, IV_SIZE, Do("cert_data"))
      /\ h[6] = Read(Start, n - CertMinSize, [Do("cert_data") EXCEPT !.writes = x])
  BY <1>5
<1>10. /\ s[1] = g[1] /\ s[2] = g[2] /\ s[3] = g[3] /\ s[4] = g[4] /\ s[5] = g[5] /\ s[6] = g[6]
       /\ s[7] = h[1] /\ s[8] = h[2] /\ s[9] = h[3] /\ s[10] = h[4] /\ s[11] = h[5] /\ s[12] = h[6]
  <2>1. \A k \in 1 .. 6 : s[6 + k] = h[k] /\ s[k] = g[k]
    BY <1>7
  <2> QED
    BY <2>1
<1>11. Gives(c3, <<>>, <<>>, {}) /\ Checks(c3, n >= CertMinSize)
  BY <1>3, ChecksFacts, Zenon
<1>12. Gives(c4, <<>>, <<>>, {<<1, 3>>}) /\ Checks(c4, Field(file, 1, 3) = Magic)
  BY <1>3, ReadsFacts, Zenon
<1>13. /\ Gives(c10, <<>>, <<>>, {<<n - MAC_SIZE + 1, MAC_SIZE>>})
       /\ Checks(c10, MacMatches(file, FileKey(file, p)))
  BY <1>3, ReadsFacts, Zenon
<1>14. /\ Gives(g[1], <<>>, <<>>, {}) /\ g[1].check = FALSE
       /\ Gives(g[2], <<>>, <<>>, {}) /\ g[2].check = FALSE
       /\ Gives(g[6], <<>>, <<>>, {}) /\ g[6].check = FALSE
       /\ Gives(h[3], <<>>, <<>>, {}) /\ h[3].check = FALSE
  BY <1>8, <1>9, GivesFacts
<1>15. Gives(g[5], <<>>, <<>>, {<<8, KEY_SIZE>>, <<4, 4>>}) /\ g[5].check = FALSE
  BY <1>8 DEF Gives, Read, Acquire, Do
<1>16. /\ Gives(h[1], <<>>, <<>>, {<<Start, n - CertMinSize>>}) /\ h[1].check = FALSE
       /\ Gives(h[5], <<>>, <<>>, {<<8 + KEY_SIZE, IV_SIZE>>}) /\ h[5].check = FALSE
  BY <1>9 DEF Gives, Read, Acquire, Do
<1>17. Gives(h[2], <<>>, y, {<<1, n - MAC_SIZE>>}) /\ h[2].check = FALSE
  BY <1>9 DEF Gives, Read, Digest, Do
<1>18. Gives(h[6], x, <<>>, {<<Start, n - CertMinSize>>}) /\ h[6].check = FALSE
  BY <1>9 DEF Gives, Read, Do
<1> QED
  BY <1>3, <1>7, <1>8, <1>9, <1>10, <1>11, <1>12, <1>13, <1>14, <1>15, <1>16, <1>17, <1>18
     DEF DecryptTable

(* What lies between two places that are the wrong way round is nothing.   *)
LEMMA FieldBackwards ==
  ASSUME NEW x, IsSequence(x), NEW first \in Nat \ {0}, NEW size \in Int, size < 0
  PROVE  IsSequence(Field(x, first, size)) /\ Len(Field(x, first, size)) = 0
<1>1. PICK S : x \in Seq(S)
  BY DEF IsSequence
<1>2. CASE first + size - 1 <= Len(x)
  <2>1. PICK f : f = SubSeq(x, first, first + size - 1)
    OBVIOUS
  <2>2. f = Field(x, first, size)
    BY <1>2, <2>1 DEF Field
  <2>3. f = <<>>
    BY <1>1, <1>2, <2>1
  <2> QED
    BY <2>2, <2>3, ConcatEmpty
<1>3. CASE ~(first + size - 1 <= Len(x))
  BY <1>3, ConcatEmpty DEF Field
<1> QED
  BY <1>2, <1>3

(* What is decrypted is as long as what was to be decrypted.               *)
LEMMA DecryptFacts ==
  ASSUME NEW x, IsSequence(x), NEW key, NEW iv
  PROVE  IsSequence(Decrypt(key, iv, x)) /\ Len(Decrypt(key, iv, x)) = Len(x)
<1>1. Len(x) \in Nat /\ DOMAIN x = 1 .. Len(x)
  BY DEF IsSequence
<1>2. PICK y : y = Decrypt(key, iv, x)
  OBVIOUS
<1>3. y = [i \in 1 .. Len(x) |-> y[i]]
  BY <1>1, <1>2 DEF Decrypt
<1> QED
  BY <1>1, <1>2, <1>3, FunctionIsSequence

(* The plaintext fills the certificate's buffer.                           *)
LEMMA PlaintextFacts ==
  ASSUME NEW file, IsSequence(file), NEW p
  PROVE  /\ IsSequence(Plaintext(file, p)) /\ Len(file) \in Nat
         /\ Len(file) - CertMinSize >= 0 => Len(Plaintext(file, p)) = Len(file) - CertMinSize
<1> DEFINE n == Len(file)
           size == n - CertMinSize
           f == Field(file, Start, size)
<1>1. n \in Nat /\ size \in Int /\ Start \in Nat \ {0} /\ Start + size - 1 <= n
  BY CertsAre DEF IsSequence, Start
<1>2. IsSequence(f) /\ (size >= 0 => Len(f) = size)
  <2> HIDE DEF n, size
  <2>1. CASE size >= 0
    <3>1. size \in Nat
      BY <1>1, <2>1
    <3> QED
      BY <1>1, <3>1, FieldFacts DEF n
  <2>2. CASE size < 0
    BY <1>1, <2>2, FieldBackwards
  <2> QED
    BY <1>1, <2>1, <2>2
<1> HIDE DEF f
<1>3. PICK y : y = Plaintext(file, p)
  OBVIOUS
<1>4. y = Decrypt(FileKey(file, p), Field(file, 8 + KEY_SIZE, IV_SIZE), f)
  BY <1>3 DEF Plaintext, f
<1>5. IsSequence(y) /\ Len(y) = Len(f)
  BY <1>2, <1>4, DecryptFacts
<1> QED
  BY <1>1, <1>2, <1>3, <1>5

(* No call reads outside the file that is opened, for the checks come      *)
(* first.                                                                  *)
Reads(b, file) ==
  \A i \in 1 .. Len(b.calls) :
    Passed(b, i - 1) => \A r \in b.calls[i].reads : 0 <= r[2] /\ r[1] + r[2] - 1 <= Len(file)

(* This is so whatever is in the file, and however short it is.            *)
LEMMA DecryptReads ==
  ASSUME NEW file, IsSequence(file), NEW p
  PROVE  Reads(CertificateDecrypt(file, p), file)
<1>1. PICK b, s, n : b = CertificateDecrypt(file, p) /\ s = b.calls /\ n = Len(file)
  OBVIOUS
<1>0. DecryptTable(file, p, s, n)
  BY <1>1, DecryptCalls
<1>2. /\ Len(s) = 12
      /\ s[1].reads = {} /\ s[2].reads = {} /\ s[3].reads = {} /\ s[6].reads = {} /\ s[9].reads = {}
      /\ s[4].reads = {<<1, 3>>} /\ s[5].reads = {<<8, KEY_SIZE>>, <<4, 4>>}
      /\ s[7].reads = {<<Start, n - CertMinSize>>} /\ s[8].reads = {<<1, n - MAC_SIZE>>}
      /\ s[10].reads = {<<n - MAC_SIZE + 1, MAC_SIZE>>} /\ s[11].reads = {<<8 + KEY_SIZE, IV_SIZE>>}
      /\ s[12].reads = {<<Start, n - CertMinSize>>}
  BY <1>0 DEF DecryptTable, Gives
<1>3. Checks(s[3], n >= CertMinSize)
  BY <1>0 DEF DecryptTable
<1>4. n \in Nat
  BY <1>1 DEF IsSequence
<1>5. ASSUME NEW i \in 1 .. 12, Passed(b, i - 1), NEW r \in s[i].reads
      PROVE  0 <= r[2] /\ r[1] + r[2] - 1 <= n
  <2>1. CASE i <= 3
    BY <1>2, <1>5, <2>1
  <2>2. CASE i > 3
    <3>1. n >= CertMinSize
      <4>1. "ok" \in s[3].outcomes
        BY <1>1, <1>5, <2>2 DEF Passed
      <4> QED
        BY <1>3, <4>1 DEF Checks
    <3>2. CASE i = 4
      <4>1. r = <<1, 3>>
        BY <1>2, <1>5, <3>2
      <4> QED
        BY <1>4, <3>1, <4>1, CertsAre
    <3>3. CASE i = 5
      <4>1. r = <<8, KEY_SIZE>> \/ r = <<4, 4>>
        BY <1>2, <1>5, <3>3
      <4>2. CASE r = <<8, KEY_SIZE>>
        BY <1>4, <3>1, <4>2, CertsAre
      <4>3. CASE r = <<4, 4>>
        BY <1>4, <3>1, <4>3, CertsAre
      <4> QED
        BY <4>1, <4>2, <4>3
    <3>4. CASE i = 6 \/ i = 9
      BY <1>2, <1>5, <3>4
    <3>5. CASE i = 7 \/ i = 12
      <4>1. r = <<Start, n - CertMinSize>>
        BY <1>2, <1>5, <3>5
      <4> QED
        BY <1>4, <3>1, <4>1, CertsAre DEF Start
    <3>6. CASE i = 8
      <4>1. r = <<1, n - MAC_SIZE>>
        BY <1>2, <1>5, <3>6
      <4> QED
        BY <1>4, <3>1, <4>1, CertsAre
    <3>7. CASE i = 10
      <4>1. r = <<n - MAC_SIZE + 1, MAC_SIZE>>
        BY <1>2, <1>5, <3>7
      <4> QED
        BY <1>4, <3>1, <4>1, CertsAre
    <3>8. CASE i = 11
      <4>1. r = <<8 + KEY_SIZE, IV_SIZE>>
        BY <1>2, <1>5, <3>8
      <4> QED
        BY <1>4, <3>1, <4>1, CertsAre
    <3> QED
      BY <2>2, <3>2, <3>3, <3>4, <3>5, <3>6, <3>7, <3>8
  <2> QED
    BY <2>1, <2>2
<1> QED
  BY <1>1, <1>2, <1>5 DEF Reads

(* The routine follows a script.                                           *)
LEMMA DecryptScripted ==
  ASSUME NEW file, IsSequence(file), NEW p
  PROVE  /\ Scripted(CertificateDecrypt(file, p))
         /\ CertificateDecrypt(file, p).name = "certificate_decrypt"
<1>1. PICK b, s, n, x, y :
        /\ b = CertificateDecrypt(file, p) /\ s = b.calls /\ n = Len(file)
        /\ x = Plaintext(file, p) /\ y = Authenticated(file)
  OBVIOUS
<1>2. /\ b.name = "certificate_decrypt" /\ b.size = n - CertMinSize
  BY <1>1 DEF CertificateDecrypt, Table
<1>0. DecryptTable(file, p, s, n)
  BY <1>1, DecryptCalls
<1>3. /\ Len(s) = 12 /\ Checks(s[3], n >= CertMinSize)
      /\ \A i \in 1 .. 11 : s[i].mac = <<>> /\ s[i].writes = <<>>
      /\ s[12].mac = <<>> /\ s[12].writes = x
      /\ \A i \in (1 .. 7) \cup (9 .. 12) : s[i].digests = <<>>
      /\ s[8].digests = y
  <2>1. /\ Len(s) = 12 /\ Checks(s[3], n >= CertMinSize)
        /\ s[12].mac = <<>> /\ s[12].writes = x /\ s[8].digests = y
    BY <1>0, <1>1 DEF DecryptTable, Gives
  <2>2. \A i \in 1 .. 11 : s[i].mac = <<>> /\ s[i].writes = <<>>
    <3>1. \A i \in 1 .. 11 : \E q, rs : Gives(s[i], <<>>, q, rs)
      <4>1. /\ \E q, rs : Gives(s[1], <<>>, q, rs)
            /\ \E q, rs : Gives(s[2], <<>>, q, rs)
            /\ \E q, rs : Gives(s[3], <<>>, q, rs)
            /\ \E q, rs : Gives(s[4], <<>>, q, rs)
            /\ \E q, rs : Gives(s[5], <<>>, q, rs)
            /\ \E q, rs : Gives(s[6], <<>>, q, rs)
            /\ \E q, rs : Gives(s[7], <<>>, q, rs)
            /\ \E q, rs : Gives(s[8], <<>>, q, rs)
            /\ \E q, rs : Gives(s[9], <<>>, q, rs)
            /\ \E q, rs : Gives(s[10], <<>>, q, rs)
            /\ \E q, rs : Gives(s[11], <<>>, q, rs)
        BY <1>0 DEF DecryptTable
      <4> QED
        BY <4>1
    <3> QED
      BY <3>1 DEF Gives
  <2>3. \A i \in (1 .. 7) \cup (9 .. 12) : s[i].digests = <<>>
    <3>1. /\ s[1].digests = <<>> /\ s[2].digests = <<>> /\ s[3].digests = <<>> /\ s[4].digests = <<>>
          /\ s[5].digests = <<>> /\ s[6].digests = <<>> /\ s[7].digests = <<>> /\ s[9].digests = <<>>
          /\ s[10].digests = <<>> /\ s[11].digests = <<>> /\ s[12].digests = <<>>
      BY <1>0 DEF DecryptTable, Gives
    <3> QED
      BY <3>1
  <2> QED
    BY <2>1, <2>2, <2>3
<1>4. /\ IsSequence(x) /\ n \in Nat
      /\ n - CertMinSize >= 0 => Len(x) = n - CertMinSize
  BY <1>1, PlaintextFacts
<1>5. IsSequence(y)
  <2>1. CASE n - MAC_SIZE >= 0
    <3>1. n - MAC_SIZE \in Nat /\ 1 + (n - MAC_SIZE) - 1 <= n /\ 1 \in Nat \ {0}
      BY <1>4, <2>1, CertsAre
    <3> QED
      BY <1>1, <3>1, FieldFacts DEF Authenticated
  <2>2. CASE n - MAC_SIZE < 0
    <3>1. n - MAC_SIZE \in Int /\ 1 \in Nat \ {0}
      BY <1>4, CertsAre
    <3> QED
      BY <1>1, <2>2, <3>1, FieldBackwards DEF Authenticated
  <2> QED
    BY <1>4, <2>1, <2>2, CertsAre
<1>6. PICK e : e = <<>>
  OBVIOUS
<1>7. /\ IsSequence(e) /\ Len(e) = 0 /\ e \o <<>> = e /\ e \o y = y /\ e \o x = x
      /\ x \o <<>> = x /\ y \o <<>> = y
  BY <1>4, <1>5, <1>6, ConcatEmpty
<1> DEFINE W == [i \in 0 .. 12 |-> IF i <= 11 THEN e ELSE x]
           D == [i \in 0 .. 12 |-> IF i <= 7 THEN e ELSE y]
<1>8. (\A i \in 0 .. 11 : W[i] = e) /\ W[12] = x
  OBVIOUS
<1>9. (\A i \in 0 .. 7 : D[i] = e) /\ (\A i \in 8 .. 12 : D[i] = y)
  OBVIOUS
<1> HIDE DEF W, D
<1>10. ASSUME NEW i \in 1 .. 12
       PROVE  W[i] = W[i - 1] \o s[i].writes \o Tag(s[i], D[i - 1])
  <2>1. Tag(s[i], D[i - 1]) = <<>>
    BY <1>3 DEF Tag
  <2>2. CASE i \in 1 .. 11
    <3>1. i \in 0 .. 11 /\ i - 1 \in 0 .. 11
      BY <2>2
    <3>2. s[i].writes = <<>> /\ W[i] = e /\ W[i - 1] = e
      BY <1>3, <1>8, <2>2, <3>1
    <3> QED
      BY <1>7, <2>1, <3>2
  <2>3. CASE i = 12
    <3>1. s[i].writes = x /\ W[i] = x /\ W[i - 1] = e
      BY <1>3, <1>8, <2>3
    <3> QED
      BY <1>7, <2>1, <3>1
  <2>4. i \in 1 .. 11 \/ i = 12
    OBVIOUS
  <2> QED
    BY ONLY <2>2, <2>3, <2>4
<1>11. ASSUME NEW i \in 1 .. 12
       PROVE  D[i] = D[i - 1] \o s[i].digests
  <2>1. CASE i \in 1 .. 7
    <3>1. i \in 0 .. 7 /\ i - 1 \in 0 .. 7
      BY <2>1
    <3>2. s[i].digests = <<>> /\ D[i] = e /\ D[i - 1] = e
      BY <1>3, <1>9, <2>1, <3>1
    <3> QED
      BY <1>7, <3>2
  <2>2. CASE i = 8
    <3>1. s[i].digests = y /\ D[i] = y /\ D[i - 1] = e
      BY <1>3, <1>9, <2>2
    <3> QED
      BY <1>7, <3>1
  <2>3. CASE i \in 9 .. 12
    <3>1. i \in 8 .. 12 /\ i - 1 \in 8 .. 12
      BY <2>3
    <3>2. s[i].digests = <<>> /\ D[i] = y /\ D[i - 1] = y
      BY <1>3, <1>9, <2>3, <3>1
    <3> QED
      BY <1>7, <3>2
  <2>4. i \in 1 .. 7 \/ i = 8 \/ i \in 9 .. 12
    OBVIOUS
  <2> QED
    BY ONLY <2>1, <2>2, <2>3, <2>4
<1>12. Script(s, W, D)
  <2>1. Follows(s, W, D)
    BY <1>3, <1>10, <1>11 DEF Follows
  <2> QED
    BY <1>6, <1>8, <1>9, <2>1 DEF Script
<1>13. Sized(b, W)
  <2>1. \A i \in 0 .. 12 : W[i] = e \/ W[i] = x
    BY <1>8
  <2>2. \A i \in 0 .. 12 : IsSequence(W[i])
    BY <1>4, <1>7, <2>1
  <2>3. b.size >= 0 => \A i \in 0 .. 12 : Len(W[i]) <= b.size
    <3> SUFFICES ASSUME b.size >= 0, NEW i \in 0 .. 12 PROVE Len(W[i]) <= b.size
      OBVIOUS
    <3>1. b.size = n - CertMinSize /\ n - CertMinSize >= 0
      BY <1>2
    <3>2. Len(x) = n - CertMinSize /\ Len(e) <= n - CertMinSize /\ Len(x) <= n - CertMinSize
      BY <1>4, <1>7, <3>1, CertsAre
    <3> QED
      BY <2>1, <3>1, <3>2
  <2>4. b.size >= 0 => Len(W[12]) = b.size
    BY <1>2, <1>4, <1>8
  <2>5. Passed(b, 12) => b.size >= 0
    <3> SUFFICES ASSUME Passed(b, 12) PROVE b.size >= 0
      OBVIOUS
    <3>1. "ok" \in s[3].outcomes
      BY <1>1 DEF Passed
    <3>2. n >= CertMinSize
      BY <1>3, <3>1 DEF Checks
    <3> QED
      BY <1>2, <1>4, <3>2, CertsAre
  <2> QED
    BY <1>1, <1>3, <2>2, <2>3, <2>4, <2>5 DEF Sized
<1>14. Opens(b, W, D)
  <2> SUFFICES ASSUME NEW f, NEW q, b = CertificateDecrypt(f, q)
               PROVE  /\ Len(b.calls) = 12
                      /\ \A i \in 0 .. 11 : W[i] = <<>>
                      /\ W[12] = Plaintext(f, q) /\ D[12] = Authenticated(f)
    BY DEF Opens
  <2>1. s[12].writes = Plaintext(f, q) /\ s[8].digests = Authenticated(f)
    <3>1. PICK m : m = Len(f)
      OBVIOUS
    <3>2. DecryptTable(f, q, s, m)
      BY <1>1, <3>1, DecryptCalls
    <3> QED
      BY <3>2 DEF DecryptTable, Gives
  <2> QED
    BY <1>1, <1>3, <1>6, <1>8, <1>9, <2>1
<1>15. Meant(b, W, D)
  BY <1>2, <1>13, <1>14 DEF Meant
<1> QED
  BY <1>1, <1>2, <1>12, <1>15 DEF Scripted

(* What one sequence starts with, another may start with too.              *)
Starts(x, y) ==
  IsSequence(x) /\ IsSequence(y) /\ Len(x) <= Len(y) /\ \A i \in 1 .. Len(x) : y[i] = x[i]

(* With itself, with nothing, and with what it was made longer from.       *)
LEMMA StartsFacts ==
  /\ \A x : IsSequence(x) => Starts(x, x) /\ Starts(<<>>, x)
  /\ \A x, t : IsSequence(x) /\ IsSequence(t) => Starts(x, x \o t)
  /\ \A x, y, z : Starts(x, y) /\ Starts(y, z) => Starts(x, z)
<1>1. ASSUME NEW x, IsSequence(x) PROVE Starts(x, x) /\ Starts(<<>>, x)
  <2>1. Len(x) \in Nat
    BY <1>1 DEF IsSequence
  <2>2. PICK e : e = <<>>
    OBVIOUS
  <2>3. IsSequence(e) /\ Len(e) = 0
    BY <2>2, ConcatEmpty
  <2> QED
    BY <1>1, <2>1, <2>2, <2>3 DEF Starts
<1>2. ASSUME NEW x, NEW t, IsSequence(x), IsSequence(t) PROVE Starts(x, x \o t)
  <2>1. PICK y : y = x \o t
    OBVIOUS
  <2>2. /\ Len(x) \in Nat /\ Len(t) \in Nat /\ IsSequence(y) /\ Len(y) = Len(x) + Len(t)
        /\ \A i \in 1 .. Len(x) : y[i] = x[i]
    BY <1>2, <2>1, ConcatFacts
  <2> QED
    BY <1>2, <2>1, <2>2 DEF Starts
<1>3. ASSUME NEW x, NEW y, NEW z, Starts(x, y), Starts(y, z) PROVE Starts(x, z)
  <2>1. Len(x) \in Nat /\ Len(y) \in Nat /\ Len(z) \in Nat
    BY <1>3 DEF Starts, IsSequence
  <2> QED
    BY <1>3, <2>1 DEF Starts
<1> QED
  BY <1>1, <1>2, <1>3

(* Where the one ends, what comes next is found.                           *)
LEMMA FieldAfter ==
  ASSUME NEW a, IsSequence(a), NEW b, IsSequence(b), NEW y, Starts(a \o b, y)
  PROVE  Field(y, Len(a) + 1, Len(b)) = b
<1>1. PICK k, n, ab, f :
        k = Len(a) /\ n = Len(b) /\ ab = a \o b /\ f = Field(y, k + 1, n)
  OBVIOUS
<1>2. /\ k \in Nat /\ n \in Nat /\ Len(ab) = k + n
      /\ \A i \in 1 .. n : ab[k + i] = b[i]
  BY <1>1, ConcatFacts
<1>3. IsSequence(y) /\ k + n <= Len(y) /\ \A i \in 1 .. k + n : y[i] = ab[i]
  BY <1>1, <1>2 DEF Starts
<1>4. Len(y) \in Nat
  BY <1>3 DEF IsSequence
<1>5. k + 1 \in Nat \ {0} /\ (k + 1) + n - 1 <= Len(y)
  BY <1>2, <1>3, <1>4
<1>6. IsSequence(f) /\ Len(f) = n /\ \A i \in 1 .. n : f[i] = y[(k + 1) + i - 1]
  BY <1>1, <1>2, <1>3, <1>5, FieldFacts
<1>7. ASSUME NEW i \in 1 .. n PROVE f[i] = b[i]
  <2>1. k + i \in 1 .. k + n /\ (k + 1) + i - 1 = k + i
    BY <1>2
  <2> QED
    BY <1>2, <1>3, <1>6, <2>1
<1>8. f = b
  BY <1>1, <1>6, <1>7, SequencesEqual
<1> QED
  BY <1>1, <1>8

(* The parts of a sealed certificate are found where certificate_decrypt   *)
(* looks for them.                                                         *)
LEMMA SealedFields ==
  ASSUME NEW salt, IsSequence(salt), Len(salt) = KEY_SIZE, NEW iv, IsSequence(iv), Len(iv) = IV_SIZE,
         NEW c, IsSequence(c.cert), NEW y, y = Sealed(salt, iv, c)
  PROVE  /\ IsSequence(y) /\ Len(y) = CertMinSize + Len(c.cert) /\ Len(c.cert) \in Nat
         /\ Field(y, 1, 3) = Magic /\ Field(y, 4, 4) = RoundsOf(c)
         /\ Field(y, 8, KEY_SIZE) = salt /\ Field(y, 8 + KEY_SIZE, IV_SIZE) = iv
         /\ Field(y, Start, Len(y) - CertMinSize) = CiphertextOf(salt, iv, c)
         /\ Authenticated(y) = Front(salt, iv, c)
         /\ Field(y, Len(y) - MAC_SIZE + 1, MAC_SIZE) = TagOf(salt, iv, c)
<1>1. PICK m, r, x, t, a2, a3, a4, a5 :
        /\ m = Magic /\ r = RoundsOf(c) /\ x = CiphertextOf(salt, iv, c) /\ t = TagOf(salt, iv, c)
        /\ a2 = m \o r /\ a3 = a2 \o salt /\ a4 = a3 \o iv /\ a5 = a4 \o x
  OBVIOUS
<1>2. a5 = Front(salt, iv, c)
  BY <1>1 DEF Front
<1>3. /\ IsSequence(m) /\ Len(m) = 3 /\ IsSequence(r) /\ Len(r) = 4
      /\ IsSequence(x) /\ Len(x) = Len(c.cert) /\ Len(c.cert) \in Nat
      /\ IsSequence(t) /\ Len(t) = MAC_SIZE
      /\ IsSequence(a5) /\ Len(a5) = 7 + KEY_SIZE + IV_SIZE + Len(c.cert)
      /\ y = a5 \o t
  <2>1. /\ IsSequence(Magic) /\ Len(Magic) = 3
        /\ IsSequence(RoundsOf(c)) /\ Len(RoundsOf(c)) = 4
        /\ IsSequence(CiphertextOf(salt, iv, c)) /\ Len(CiphertextOf(salt, iv, c)) = Len(c.cert)
        /\ IsSequence(Front(salt, iv, c))
        /\ Len(Front(salt, iv, c)) = 7 + KEY_SIZE + IV_SIZE + Len(c.cert)
        /\ IsSequence(TagOf(salt, iv, c)) /\ Len(TagOf(salt, iv, c)) = MAC_SIZE
        /\ Sealed(salt, iv, c) = Front(salt, iv, c) \o TagOf(salt, iv, c)
        /\ Len(c.cert) \in Nat
    BY SealedFacts
  <2> QED
    BY <1>1, <1>2, <2>1
<1>4. IsSequence(a2) /\ Len(a2) = 7 /\ Starts(m, a2) /\ Starts(<<>> \o m, a2)
  <2>1. IsSequence(a2) /\ Len(a2) = Len(m) + Len(r)
    BY <1>1, <1>3, ConcatFacts
  <2>2. Starts(m, a2) /\ <<>> \o m = m
    BY <1>1, <1>3, StartsFacts, ConcatEmpty
  <2> QED
    BY <1>3, <2>1, <2>2
<1>5. IsSequence(a3) /\ Len(a3) = 7 + KEY_SIZE /\ Starts(a2, a3)
  <2>1. IsSequence(a3) /\ Len(a3) = Len(a2) + Len(salt)
    BY <1>1, <1>4, ConcatFacts
  <2> QED
    BY <1>1, <1>4, <2>1, StartsFacts
<1>6. IsSequence(a4) /\ Len(a4) = 7 + KEY_SIZE + IV_SIZE /\ Starts(a3, a4)
  <2>1. IsSequence(a4) /\ Len(a4) = Len(a3) + Len(iv)
    BY <1>1, <1>5, ConcatFacts
  <2> QED
    BY <1>1, <1>5, <2>1, StartsFacts
<1>7. Starts(a4, a5) /\ Starts(a5, y)
  BY <1>1, <1>3, <1>6, StartsFacts
<1>8. IsSequence(y) /\ Len(y) = Len(a5) + Len(t)
  <2>1. IsSequence(a5 \o t) /\ Len(a5 \o t) = Len(a5) + Len(t)
    BY <1>3, ConcatFacts
  <2> QED
    BY <1>3, <2>1
<1>9. Starts(a4, y) /\ Starts(a3, y) /\ Starts(a2, y) /\ Starts(m, y) /\ Starts(y, y)
  <2>1. Starts(a4, y)
    BY <1>7, StartsFacts
  <2>2. Starts(a3, y)
    BY <1>6, <2>1, StartsFacts
  <2>3. Starts(a2, y)
    BY <1>5, <2>2, StartsFacts
  <2>4. Starts(m, y)
    BY <1>4, <2>3, StartsFacts
  <2> QED
    BY <1>8, <2>1, <2>2, <2>3, <2>4, StartsFacts
<1>10. /\ Len(y) = CertMinSize + Len(c.cert) /\ Len(y) - MAC_SIZE = Len(a5)
       /\ Len(y) - CertMinSize = Len(x) /\ Start = Len(a4) + 1
  <2>1. Len(y) = 7 + KEY_SIZE + IV_SIZE + Len(x) + MAC_SIZE /\ Len(x) \in Nat
    BY <1>3, <1>8
  <2>2. KEY_SIZE \in Nat /\ IV_SIZE \in Nat /\ MAC_SIZE \in Nat
    BY CertsAre
  <2>3. CertMinSize = 7 + KEY_SIZE + IV_SIZE + MAC_SIZE
    BY CertsAre
  <2>4. Start = Len(a4) + 1
    BY <1>6, <2>2 DEF Start
  <2>5. Len(y) = CertMinSize + Len(x) /\ Len(y) - CertMinSize = Len(x)
    BY <2>1, <2>2, <2>3
  <2>6. Len(y) - MAC_SIZE = 7 + KEY_SIZE + IV_SIZE + Len(x)
    BY <2>1, <2>2
  <2> QED
    BY <1>3, <2>4, <2>5, <2>6
<1>11. Field(y, 1, 3) = m
  <2>1. PICK e : e = <<>>
    OBVIOUS
  <2>2. IsSequence(e) /\ Len(e) = 0 /\ e \o m = m
    BY <1>3, <2>1, ConcatEmpty
  <2>3. IsSequence(e) /\ IsSequence(m) /\ Starts(e \o m, y)
    BY <1>3, <1>9, <2>2
  <2>4. Field(y, Len(e) + 1, Len(m)) = m
    BY <2>3, FieldAfter
  <2> QED
    BY <1>3, <2>2, <2>4
<1>12. Field(y, 4, 4) = r
  <2>1. Field(y, Len(m) + 1, Len(r)) = r
    BY <1>1, <1>3, <1>9, FieldAfter
  <2> QED
    BY <1>3, <2>1
<1>13. Field(y, 8, KEY_SIZE) = salt
  <2>1. Field(y, Len(a2) + 1, Len(salt)) = salt
    BY <1>1, <1>4, <1>9, FieldAfter
  <2> QED
    BY <1>4, <2>1
<1>14. Field(y, 8 + KEY_SIZE, IV_SIZE) = iv
  <2>1. Field(y, Len(a3) + 1, Len(iv)) = iv
    BY <1>1, <1>5, <1>9, FieldAfter
  <2>2. Len(a3) + 1 = 8 + KEY_SIZE
    BY <1>5, CertsAre
  <2> QED
    BY <2>1, <2>2
<1>15. Field(y, Start, Len(y) - CertMinSize) = x
  <2>1. Field(y, Len(a4) + 1, Len(x)) = x
    BY <1>1, <1>3, <1>6, <1>7, FieldAfter
  <2> QED
    BY <1>10, <2>1
<1>16. Field(y, 1, Len(y) - MAC_SIZE) = a5
  <2>1. PICK e : e = <<>>
    OBVIOUS
  <2>2. IsSequence(e) /\ Len(e) = 0 /\ e \o a5 = a5
    BY <1>3, <2>1, ConcatEmpty
  <2>3. IsSequence(e) /\ IsSequence(a5) /\ Starts(e \o a5, y)
    BY <1>3, <1>7, <2>2
  <2>4. Field(y, Len(e) + 1, Len(a5)) = a5
    BY <2>3, FieldAfter
  <2> QED
    BY <1>10, <2>2, <2>4
<1>17. Field(y, Len(y) - MAC_SIZE + 1, MAC_SIZE) = t
  <2>1. Field(y, Len(a5) + 1, Len(t)) = t
    BY <1>3, <1>9, FieldAfter
  <2> QED
    BY <1>3, <1>10, <2>1
<1> QED
  BY <1>1, <1>2, <1>3, <1>8, <1>10, <1>11, <1>12, <1>13, <1>14, <1>15, <1>16, <1>17 DEF Authenticated

(* What was encrypted is decrypted with the same key and iv.               *)
LEMMA DecryptUndoesEncrypt ==
  ASSUME NEW plain, IsSequence(plain), NEW key, NEW iv
  PROVE  Decrypt(key, iv, Encrypt(key, iv, plain)) = plain
<1>1. PICK x, y : x = Encrypt(key, iv, plain) /\ y = Decrypt(key, iv, x)
  OBVIOUS
<1>2. /\ IsSequence(x) /\ Len(x) = Len(plain) /\ Len(plain) \in Nat
      /\ \A i \in 1 .. Len(plain) : x[i] = <<"ciphertext", <<key, iv, plain[i]>>, i>>
  BY <1>1, EncryptFacts
<1>3. IsSequence(y) /\ Len(y) = Len(plain)
  BY <1>1, <1>2, DecryptFacts
<1>4. DOMAIN x = 1 .. Len(plain)
  BY <1>2 DEF IsSequence
<1>5. ASSUME NEW i \in 1 .. Len(plain) PROVE y[i] = plain[i]
  <2>1. PICK u : u = plain[i]
    OBVIOUS
  <2>2. x[i] = <<"ciphertext", <<key, iv, u>>, i>>
    BY <1>2, <2>1
  <2>3. x[i][1] = "ciphertext" /\ x[i][2] = <<key, iv, u>> /\ x[i][3] = i
    BY <2>2
  <2>4. x[i][2][1] = key /\ x[i][2][2] = iv /\ x[i][2][3] = u
    BY <2>3
  <2>5. y[i] = x[i][2][3]
    BY <1>1, <1>4, <2>3, <2>4 DEF Decrypt
  <2> QED
    BY <2>1, <2>4, <2>5
<1> QED
  BY <1>1, <1>3, <1>5, SequencesEqual

(* Something that was sealed: its bytes, passphrase and certificate.       *)
WasSealed(s) ==
  /\ IsSequence(s.cert)
  /\ \E v, r :
       s.bytes = Sealed(Bytes("salt", v, KEY_SIZE), Bytes("iv", v, IV_SIZE),
                        [cert |-> s.cert, passphrase |-> s.passphrase, rounds |-> r])

(* It has a MAC at its end, and nowhere else, under a key that tells the   *)
(* passphrase; and it opens.                                               *)
SealedAs(s, front, key) ==
  /\ IsSequence(s.bytes) /\ IsSequence(front) /\ Len(s.bytes) = Len(front) + MAC_SIZE
  /\ Len(s.bytes) >= CertMinSize
  /\ s.bytes = front \o Mac(key, front, MAC_SIZE)
  /\ \A i \in 1 .. Len(front) : front[i][1] # "mac"
  /\ Field(s.bytes, 1, 3) = Magic
  /\ FileKey(s.bytes, s.passphrase) = key /\ key[2] = s.passphrase
  /\ Authenticated(s.bytes) = front
  /\ MacMatches(s.bytes, key)
  /\ Plaintext(s.bytes, s.passphrase) = s.cert

(* Two sequences without such a byte make one without such a byte.         *)
NoMac(x) == IsSequence(x) /\ \A i \in 1 .. Len(x) : x[i][1] # "mac"

(* Put together they have none either.                                     *)
LEMMA NoMacOn ==
  ASSUME NEW x, NoMac(x), NEW y, NoMac(y)
  PROVE  NoMac(x \o y)
<1>1. PICK z, m, n : z = x \o y /\ m = Len(x) /\ n = Len(y)
  OBVIOUS
<1>2. /\ m \in Nat /\ n \in Nat /\ IsSequence(z) /\ Len(z) = m + n
      /\ \A i \in 1 .. m : z[i] = x[i]
      /\ \A i \in 1 .. n : z[m + i] = y[i]
  <2>1. IsSequence(x) /\ IsSequence(y)
    BY DEF NoMac
  <2>2. /\ IsSequence(z) /\ Len(z) = m + n
        /\ \A i \in 1 .. m : z[i] = x[i]
        /\ \A i \in 1 .. n : z[m + i] = y[i]
    BY <1>1, <2>1, ConcatFacts
  <2>3. m \in Nat /\ n \in Nat
    BY <1>1, <2>1 DEF IsSequence
  <2> QED
    BY <2>2, <2>3
<1>3. ASSUME NEW i \in 1 .. m + n PROVE z[i][1] # "mac"
  <2>1. CASE i \in 1 .. m
    BY <1>1, <1>2, <2>1 DEF NoMac
  <2>2. CASE i \notin 1 .. m
    <3>1. i - m \in 1 .. n /\ m + (i - m) = i
      BY <1>2, <2>2
    <3>2. PICK j \in 1 .. n : m + j = i
      BY <3>1
    <3>3. z[i] = y[j]
      BY <1>2, <3>2
    <3> QED
      BY <1>1, <3>3 DEF NoMac
  <2> QED
    BY <2>1, <2>2
<1> QED
  BY <1>1, <1>2, <1>3 DEF NoMac

(* The bytes of the other fields have none,                                *)
LEMMA BytesNoMac ==
  ASSUME NEW n \in Nat, NEW f, f # "mac", NEW v
  PROVE  NoMac(Bytes(f, v, n))
<1>1. PICK x : x = Bytes(f, v, n)
  OBVIOUS
<1>2. IsSequence(x) /\ Len(x) = n /\ \A i \in 1 .. n : x[i] = <<f, v, i>>
  BY <1>1, BytesFacts
<1>3. \A i \in 1 .. n : x[i][1] = f
  BY <1>2
<1> QED
  BY <1>1, <1>2, <1>3 DEF NoMac

(* nor has ciphertext.                                                     *)
LEMMA EncryptNoMac ==
  ASSUME NEW plain, IsSequence(plain), NEW key, NEW iv
  PROVE  NoMac(Encrypt(key, iv, plain))
<1>1. PICK x, n : x = Encrypt(key, iv, plain) /\ n = Len(plain)
  OBVIOUS
<1>2. /\ IsSequence(x) /\ Len(x) = n
      /\ \A i \in 1 .. n : x[i] = <<"ciphertext", <<key, iv, plain[i]>>, i>>
  BY <1>1, EncryptFacts
<1>3. \A i \in 1 .. n : x[i][1] = "ciphertext"
  BY <1>2
<1> QED
  BY <1>1, <1>2, <1>3 DEF NoMac

(* Everything that was sealed is like that.                                *)
LEMMA WasSealedAs ==
  ASSUME NEW s, WasSealed(s)
  PROVE  \E front, key : SealedAs(s, front, key)
<1>1. PICK v, r :
        s.bytes = Sealed(Bytes("salt", v, KEY_SIZE), Bytes("iv", v, IV_SIZE),
                         [cert |-> s.cert, passphrase |-> s.passphrase, rounds |-> r])
  BY DEF WasSealed
<1>2. PICK salt, iv, c, y :
        /\ salt = Bytes("salt", v, KEY_SIZE) /\ iv = Bytes("iv", v, IV_SIZE)
        /\ c = [cert |-> s.cert, passphrase |-> s.passphrase, rounds |-> r]
        /\ y = Sealed(salt, iv, c)
  OBVIOUS
<1>3. y = s.bytes /\ c.cert = s.cert /\ c.passphrase = s.passphrase /\ IsSequence(c.cert)
  BY <1>1, <1>2 DEF WasSealed
<1>4. KEY_SIZE \in Nat /\ IV_SIZE \in Nat /\ MAC_SIZE \in Nat /\ CertMinSize \in Nat
  BY CertsAre
<1>5. /\ IsSequence(salt) /\ Len(salt) = KEY_SIZE /\ NoMac(salt)
      /\ IsSequence(iv) /\ Len(iv) = IV_SIZE /\ NoMac(iv)
  BY <1>2, <1>4, BytesFacts, BytesNoMac
<1>6. PICK front, key, t, x :
        /\ front = Front(salt, iv, c) /\ key = KeyOf(salt, c) /\ t = TagOf(salt, iv, c)
        /\ x = CiphertextOf(salt, iv, c)
  OBVIOUS
<1>7. /\ IsSequence(front) /\ IsSequence(t) /\ Len(t) = MAC_SIZE
      /\ y = front \o t
  <2>1. /\ IsSequence(Front(salt, iv, c)) /\ IsSequence(TagOf(salt, iv, c))
        /\ Len(TagOf(salt, iv, c)) = MAC_SIZE
        /\ Sealed(salt, iv, c) = Front(salt, iv, c) \o TagOf(salt, iv, c)
    BY <1>3, <1>5, SealedFacts
  <2> QED
    BY <1>2, <1>6, <2>1
<1>8. /\ IsSequence(y) /\ Len(y) = CertMinSize + Len(c.cert) /\ Len(c.cert) \in Nat
      /\ Field(y, 1, 3) = Magic /\ Field(y, 4, 4) = RoundsOf(c)
      /\ Field(y, 8, KEY_SIZE) = salt /\ Field(y, 8 + KEY_SIZE, IV_SIZE) = iv
      /\ Field(y, Start, Len(y) - CertMinSize) = x
      /\ Authenticated(y) = front
      /\ Field(y, Len(y) - MAC_SIZE + 1, MAC_SIZE) = t
  BY <1>2, <1>3, <1>5, <1>6, SealedFields
<1>9. t = Mac(key, front, MAC_SIZE)
  BY <1>6 DEF TagOf
<1>10. FileKey(y, s.passphrase) = key /\ key[2] = s.passphrase
  BY <1>3, <1>6, <1>8 DEF FileKey, KeyOf, DerivedKey
<1>11. MacMatches(y, key)
  BY <1>8, <1>9 DEF MacMatches
<1>12. Plaintext(y, s.passphrase) = s.cert
  <2>1. x = Encrypt(key, iv, s.cert)
    BY <1>3, <1>6 DEF CiphertextOf
  <2>2. Plaintext(y, s.passphrase) = Decrypt(key, iv, x)
    BY <1>8, <1>10 DEF Plaintext
  <2> QED
    BY <1>3, <2>1, <2>2, DecryptUndoesEncrypt
<1>13. NoMac(front)
  <2>1. PICK m, q, a2, a3, a4 : /\ m = Magic /\ q = RoundsOf(c) /\ a2 = m \o q /\ a3 = a2 \o salt
                                /\ a4 = a3 \o iv
    OBVIOUS
  <2>2. front = a4 \o x
    BY <1>6, <2>1 DEF Front
  <2>3. NoMac(m)
    BY <2>1, BytesNoMac DEF Magic
  <2>4. NoMac(q)
    BY <2>1, BytesNoMac DEF RoundsOf, RoundsBytes
  <2>5. NoMac(x)
    BY <1>3, <1>6, EncryptNoMac DEF CiphertextOf
  <2>6. NoMac(a2)
    BY <2>1, <2>3, <2>4, NoMacOn
  <2>7. NoMac(a3)
    BY <1>5, <2>1, <2>6, NoMacOn
  <2>8. NoMac(a4)
    BY <1>5, <2>1, <2>7, NoMacOn
  <2> QED
    BY <2>2, <2>5, <2>8, NoMacOn
<1>14. Len(y) = Len(front) + MAC_SIZE /\ Len(y) >= CertMinSize
  <2>1. Len(y) = Len(front) + Len(t)
    BY <1>7, ConcatFacts
  <2>2. Len(y) >= CertMinSize
    BY <1>4, <1>8
  <2> QED
    BY <1>7, <2>1, <2>2
<1>15. /\ IsSequence(s.bytes) /\ IsSequence(front) /\ Len(s.bytes) = Len(front) + MAC_SIZE
       /\ Len(s.bytes) >= CertMinSize
       /\ s.bytes = front \o Mac(key, front, MAC_SIZE)
  BY <1>3, <1>7, <1>8, <1>9, <1>14
<1>16. SealedAs(s, front, key)
  BY <1>3, <1>8, <1>10, <1>11, <1>12, <1>13, <1>15 DEF SealedAs, NoMac
<1> QED
  BY <1>16

Noise == <<"noise", 0, 0>>

(* The other file is sealed as well.                                       *)
LEMMA OtherWasSealed == WasSealed(OtherFile)
<1>1. PICK s : s = OtherFile
  OBVIOUS
<1>2. /\ s.cert = Other.cert /\ s.passphrase = Other.passphrase
      /\ s.bytes = Sealed(Bytes("salt", "other", KEY_SIZE), Bytes("iv", "other", IV_SIZE), Other)
  BY <1>1 DEF OtherFile
<1>3. s.bytes = Sealed(Bytes("salt", "other", KEY_SIZE), Bytes("iv", "other", IV_SIZE),
                       [cert |-> s.cert, passphrase |-> s.passphrase, rounds |-> Other.rounds])
  BY <1>2 DEF Sealed
<1>4. IsSequence(s.cert)
  BY <1>2, CertsAre
<1> QED
  BY <1>1, <1>3, <1>4 DEF WasSealed

(* Where a file is damaged there is noise, or the byte that the one or the *)
(* other of the sealed files has at that place.                            *)
Mixed(f, x, y) ==
  /\ IsSequence(f)
  /\ \A j \in 1 .. Len(f) : \/ f[j] = Noise
                            \/ j \in 1 .. Len(x) /\ f[j] = x[j]
                            \/ j \in 1 .. Len(y) /\ f[j] = y[j]

(* However it is damaged, this is so.                                      *)
LEMMA DamagedIsMixed ==
  ASSUME NEW x, IsSequence(x), NEW y, y = OtherFile.bytes, IsSequence(y), NEW f \in Damaged(x)
  PROVE  Mixed(f, x, y)
<1>1. PICK S, T : x \in Seq(S) /\ y \in Seq(T)
  BY DEF IsSequence
<1>0. PICK m, n : m = Len(x) /\ n = Len(y)
  OBVIOUS
<1>2. m = Len(x) /\ n = Len(y) /\ m \in Nat /\ n \in Nat
  BY <1>0, <1>1
<1>3. PICK e : e = Noise
  OBVIOUS
<1>4. \/ \E i \in 0 .. m : f = SubSeq(x, 1, i)
      \/ f = Append(x, e)
      \/ \E i \in DOMAIN x : f = [x EXCEPT ![i] = e]
      \/ \E i \in 1 .. m : f = SubSeq(x, 1, i) \o SubSeq(y, i + 1, n)
  BY <1>2, <1>3 DEF Damaged, Noise
<1>5. ASSUME NEW i \in 0 .. m, f = SubSeq(x, 1, i) PROVE Mixed(f, x, y)
  <2>1. f \in Seq(S) /\ Len(f) = i /\ \A j \in 1 .. i : f[j] = x[j]
    BY <1>1, <1>2, <1>5
  <2> QED
    BY <1>2, <2>1 DEF Mixed, IsSequence
<1>6. ASSUME f = Append(x, e) PROVE Mixed(f, x, y)
  <2>1. /\ f \in Seq(S \cup {e}) /\ Len(f) = m + 1 /\ f[m + 1] = e
        /\ \A j \in 1 .. m : f[j] = x[j]
    BY <1>1, <1>2, <1>6
  <2> QED
    BY <1>2, <1>3, <2>1 DEF Mixed, IsSequence
<1>7. ASSUME NEW i \in DOMAIN x, f = [x EXCEPT ![i] = e] PROVE Mixed(f, x, y)
  <2>1. DOMAIN x = 1 .. m
    BY <1>1, <1>2
  <2>2. \A j \in 1 .. m : f[j] = e \/ f[j] = x[j]
    BY <1>7, <2>1
  <2>3. f = [j \in 1 .. m |-> f[j]]
    BY <1>7, <2>1
  <2>4. IsSequence(f) /\ Len(f) = m
    BY <1>2, <2>3, FunctionIsSequence
  <2> QED
    BY <1>2, <1>3, <2>2, <2>4 DEF Mixed
<1>8. ASSUME NEW i \in 1 .. m, f = SubSeq(x, 1, i) \o SubSeq(y, i + 1, n) PROVE Mixed(f, x, y)
  <2>1. PICK a, b : a = SubSeq(x, 1, i) /\ b = SubSeq(y, i + 1, n)
    OBVIOUS
  <2>2. a \in Seq(S) /\ Len(a) = i /\ \A j \in 1 .. i : a[j] = x[j]
    BY <1>1, <1>2, <2>1
  <2>3. /\ b \in Seq(T)
        /\ \A j \in 1 .. Len(b) : i + j \in 1 .. n /\ b[j] = y[i + j]
    <3>1. CASE i + 1 <= n
      <4>1. b \in Seq(T) /\ Len(b) = n - i /\ \A j \in 1 .. n - i : b[j] = y[i + j]
        BY <1>1, <1>2, <2>1, <3>1
      <4> QED
        BY <1>2, <3>1, <4>1
    <3>2. CASE ~(i + 1 <= n)
      <4>1. b = <<>>
        BY <1>1, <1>2, <2>1, <3>2
      <4> QED
        BY <4>1
    <3> QED
      BY <3>1, <3>2
  <2>4. IsSequence(a) /\ IsSequence(b)
    BY <2>2, <2>3 DEF IsSequence
  <2>5. /\ IsSequence(f) /\ Len(f) = i + Len(b) /\ Len(b) \in Nat
        /\ \A j \in 1 .. i : f[j] = a[j]
        /\ \A j \in 1 .. Len(b) : f[i + j] = b[j]
    <3>1. f = a \o b
      BY <1>8, <2>1
    <3>2. /\ IsSequence(f) /\ Len(f) = Len(a) + Len(b)
          /\ \A j \in 1 .. Len(a) : f[j] = a[j]
          /\ \A j \in 1 .. Len(b) : f[Len(a) + j] = b[j]
      BY ONLY <2>4, <3>1, ConcatFacts
    <3>3. Len(b) \in Nat
      BY <2>3
    <3> QED
      BY <2>2, <3>2, <3>3
  <2>6. ASSUME NEW j \in 1 .. Len(f)
        PROVE  \/ j \in 1 .. Len(x) /\ f[j] = x[j]
               \/ j \in 1 .. Len(y) /\ f[j] = y[j]
    <3>1. CASE j \in 1 .. i
      BY <1>2, <2>2, <2>5, <3>1
    <3>2. CASE j \notin 1 .. i
      <4>1. j - i \in 1 .. Len(b) /\ i + (j - i) = j
        BY <1>2, <2>5, <3>2
      <4>2. PICK k \in 1 .. Len(b) : i + k = j
        BY <4>1
      <4>3. f[j] = y[j] /\ j \in 1 .. n
        BY <2>3, <2>5, <4>2
      <4> QED
        BY <1>2, <4>3
    <3> QED
      BY <3>1, <3>2
  <2> QED
    BY <2>5, <2>6 DEF Mixed
<1> QED
  BY <1>4, <1>5, <1>6, <1>7, <1>8

(* The last byte of a MAC that matches is one of a sealed file, and it     *)
(* tells the key and everything that is authenticated: the file is that    *)
(* sealed file and the passphrase is its passphrase.                       *)
LEMMA LastByteTells ==
  ASSUME NEW s, NEW front, NEW key, SealedAs(s, front, key),
         NEW f, IsSequence(f), Len(f) >= CertMinSize, NEW p,
         MacMatches(f, FileKey(f, p)),
         Len(f) \in 1 .. Len(s.bytes), f[Len(f)] = s.bytes[Len(f)]
  PROVE  f = s.bytes /\ p = s.passphrase
<1>1. PICK n, y, k, a, t, m :
        /\ n = Len(f) /\ y = s.bytes /\ k = FileKey(f, p) /\ a = Authenticated(f)
        /\ t = Mac(k, a, MAC_SIZE) /\ m = Len(front)
  OBVIOUS
<1>2. /\ MAC_SIZE \in Nat \ {0} /\ CertMinSize \in Nat /\ MAC_SIZE < CertMinSize
      /\ n \in Nat /\ m \in Nat
  <2>1. IsSequence(front)
    BY DEF SealedAs
  <2> QED
    BY <1>1, <2>1, CertsAre DEF IsSequence
<1>3. PICK g : g = Field(f, n - MAC_SIZE + 1, MAC_SIZE)
  OBVIOUS
<1>4. /\ n - MAC_SIZE + 1 \in Nat \ {0} /\ (n - MAC_SIZE + 1) + MAC_SIZE - 1 <= n
      /\ n - MAC_SIZE \in Nat /\ 1 + (n - MAC_SIZE) - 1 <= n /\ n > MAC_SIZE
  BY <1>1, <1>2
<1>5. \A i \in 1 .. MAC_SIZE : g[i] = f[(n - MAC_SIZE + 1) + i - 1]
  <2>1. PICK z : z = n - MAC_SIZE + 1
    OBVIOUS
  <2>2. \A i \in 1 .. MAC_SIZE : Field(f, z, MAC_SIZE)[i] = f[z + i - 1]
    <3>1. z \in Nat \ {0} /\ z + MAC_SIZE - 1 <= Len(f)
      BY <1>1, <1>4, <2>1
    <3>2. MAC_SIZE \in Nat
      BY <1>2
    <3> QED
      BY ONLY IsSequence(f), <3>1, <3>2, FieldFacts
  <2> QED
    BY <1>3, <2>1, <2>2
<1>6. \A i \in 1 .. MAC_SIZE : f[(n - MAC_SIZE) + i] = g[i]
  <2>1. \A i \in 1 .. MAC_SIZE : (n - MAC_SIZE + 1) + i - 1 = (n - MAC_SIZE) + i
    BY <1>2
  <2> QED
    BY <1>5, <2>1
<1>7. g = t
  BY <1>1, <1>3 DEF MacMatches
<1>8. \A i \in 1 .. MAC_SIZE : t[i] = <<"mac", <<k, a>>, i>>
  <2>1. PICK v : v = <<k, a>>
    OBVIOUS
  <2>2. t = Bytes("mac", v, MAC_SIZE)
    BY <1>1, <2>1 DEF Mac
  <2>3. \A i \in 1 .. MAC_SIZE : t[i] = <<"mac", v, i>>
    BY <1>2, <2>2, BytesFacts
  <2> QED
    BY <2>1, <2>3
<1>9. f[n] = <<"mac", <<k, a>>, MAC_SIZE>>
  <2>1. MAC_SIZE \in 1 .. MAC_SIZE /\ (n - MAC_SIZE) + MAC_SIZE = n
    BY <1>2
  <2> QED
    BY <1>6, <1>7, <1>8, <2>1
<1>10. PICK w, u : w = <<key, front>> /\ u = Bytes("mac", w, MAC_SIZE)
  OBVIOUS
<1>11. /\ IsSequence(u) /\ Len(u) = MAC_SIZE
       /\ \A i \in 1 .. MAC_SIZE : u[i] = <<"mac", w, i>>
  BY <1>2, <1>10, BytesFacts
<1>12. y = front \o u /\ IsSequence(front) /\ Len(y) = m + MAC_SIZE
  BY <1>1, <1>10 DEF SealedAs, Mac
<1>13. /\ \A i \in 1 .. m : y[i] = front[i]
       /\ \A i \in 1 .. MAC_SIZE : y[m + i] = u[i]
  <2>1. /\ \A i \in 1 .. Len(front) : y[i] = front[i]
        /\ \A i \in 1 .. Len(u) : y[Len(front) + i] = u[i]
    BY <1>11, <1>12, ConcatFacts
  <2> QED
    BY <1>1, <1>11, <2>1
<1>14. y[n] = f[n] /\ n \in 1 .. m + MAC_SIZE
  BY <1>1, <1>12
<1>15. n \notin 1 .. m
  <2> SUFFICES ASSUME n \in 1 .. m PROVE FALSE
    OBVIOUS
  <2>1. front[n] = f[n]
    BY <1>13, <1>14
  <2>2. front[n][1] # "mac"
    BY <1>1 DEF SealedAs
  <2>3. f[n][1] = "mac"
    BY <1>9
  <2> QED
    BY <2>1, <2>2, <2>3
<1>16. PICK i \in 1 .. MAC_SIZE : m + i = n
  <2>1. n - m \in 1 .. MAC_SIZE /\ m + (n - m) = n
    BY <1>2, <1>14, <1>15
  <2> QED
    BY <2>1
<1>17. <<"mac", w, i>> = <<"mac", <<k, a>>, MAC_SIZE>>
  BY <1>9, <1>11, <1>13, <1>14, <1>16
<1>18. i = MAC_SIZE /\ w = <<k, a>>
  BY <1>17
<1>19. k = key /\ a = front
  BY <1>10, <1>18
<1>20. n = m + MAC_SIZE
  BY <1>16, <1>18
<1>21. \A j \in 1 .. m : f[j] = front[j]
  <2>1. n - MAC_SIZE = m
    BY <1>2, <1>20
  <2>2. a = Field(f, 1, m)
    BY <1>1, <2>1 DEF Authenticated
  <2>3. 1 \in Nat \ {0} /\ 1 + m - 1 <= Len(f)
    BY <1>1, <1>2, <1>20
  <2>4. \A j \in 1 .. m : Field(f, 1, m)[j] = f[1 + j - 1]
    BY <1>2, <2>3, FieldFacts
  <2>5. \A j \in 1 .. m : 1 + j - 1 = j
    BY <1>2
  <2> QED
    BY <1>19, <2>2, <2>4, <2>5
<1>22. ASSUME NEW j \in 1 .. n PROVE f[j] = y[j]
  <2>1. CASE j \in 1 .. m
    BY <1>13, <1>21, <2>1
  <2>2. CASE j \notin 1 .. m
    <3>1. j - m \in 1 .. MAC_SIZE /\ m + (j - m) = j
      BY <1>2, <1>20, <2>2
    <3>2. PICK l \in 1 .. MAC_SIZE : m + l = j
      BY <3>1
    <3>3. y[j] = u[l]
      BY <1>13, <3>2
    <3>4. (n - MAC_SIZE) + l = j
      BY <1>2, <1>20, <3>2
    <3>5. f[j] = t[l]
      BY <1>6, <1>7, <3>4
    <3>6. u[l] = <<"mac", w, l>> /\ t[l] = <<"mac", w, l>>
      BY <1>8, <1>11, <1>18
    <3> QED
      BY <3>3, <3>5, <3>6
  <2> QED
    BY <2>1, <2>2
<1>23. f = y
  <2>1. IsSequence(y) /\ Len(y) = n
    BY <1>1, <1>12, <1>20 DEF SealedAs
  <2> QED
    BY <1>1, <1>22, <2>1, SequencesEqual
<1>24. p = s.passphrase
  <2>1. k[2] = p
    BY <1>1 DEF FileKey, DerivedKey
  <2>2. key[2] = s.passphrase
    BY DEF SealedAs
  <2> QED
    BY <1>19, <2>1, <2>2
<1> QED
  BY <1>1, <1>23, <1>24

(* So only what was sealed, and is not damaged, has a MAC that matches.    *)
LEMMA OnlySealedMatches ==
  ASSUME NEW s, WasSealed(s), NEW f \in Damaged(s.bytes), NEW p, Len(f) >= CertMinSize,
         MacMatches(f, FileKey(f, p))
  PROVE  \E o \in {s, OtherFile} : f = o.bytes /\ p = o.passphrase
<1>1. PICK front, key : SealedAs(s, front, key)
  BY WasSealedAs
<1>2. PICK o : o = OtherFile
  OBVIOUS
<1>3. WasSealed(o)
  BY <1>2, OtherWasSealed
<1>4. PICK front2, key2 : SealedAs(o, front2, key2)
  BY <1>3, WasSealedAs
<1>5. PICK x, y : x = s.bytes /\ y = o.bytes
  OBVIOUS
<1>6. IsSequence(x) /\ IsSequence(y)
  BY <1>1, <1>4, <1>5 DEF SealedAs
<1>7. Mixed(f, x, y)
  BY <1>2, <1>5, <1>6, DamagedIsMixed
<1>8. PICK n : n = Len(f) /\ n \in Nat /\ n \in 1 .. n /\ n > MAC_SIZE
  BY <1>7, CertsAre DEF Mixed, IsSequence
<1>9. f[n] # Noise
  <2>1. PICK k, a, v : k = FileKey(f, p) /\ a = Authenticated(f) /\ v = <<k, a>>
    OBVIOUS
  <2>2. PICK z : z = n - MAC_SIZE + 1
    OBVIOUS
  <2>3. MAC_SIZE \in Nat \ {0}
    BY CertsAre
  <2>4. z \in Nat \ {0} /\ z + MAC_SIZE - 1 <= n /\ z + MAC_SIZE - 1 = n /\ MAC_SIZE \in 1 .. MAC_SIZE
    BY <1>8, <2>2, <2>3
  <2>5. Field(f, z, MAC_SIZE)[MAC_SIZE] = f[n]
    <3>1. \A i \in 1 .. MAC_SIZE : Field(f, z, MAC_SIZE)[i] = f[z + i - 1]
      BY <1>7, <1>8, <2>3, <2>4, FieldFacts DEF Mixed
    <3> QED
      BY <2>4, <3>1
  <2>6. Field(f, z, MAC_SIZE) = Bytes("mac", v, MAC_SIZE)
    BY <1>8, <2>1, <2>2 DEF MacMatches, Mac
  <2>7. Bytes("mac", v, MAC_SIZE)[MAC_SIZE] = <<"mac", v, MAC_SIZE>>
    BY <2>3, <2>4, BytesFacts
  <2>8. f[n][1] = "mac"
    BY <2>5, <2>6, <2>7
  <2> QED
    BY <2>8 DEF Noise
<1>10. \/ n \in 1 .. Len(x) /\ f[n] = x[n]
       \/ n \in 1 .. Len(y) /\ f[n] = y[n]
  BY <1>7, <1>8, <1>9 DEF Mixed
<1>11. CASE n \in 1 .. Len(x) /\ f[n] = x[n]
  <2>1. f = s.bytes /\ p = s.passphrase
    BY <1>1, <1>5, <1>7, <1>8, <1>11, LastByteTells DEF Mixed
  <2> QED
    BY <2>1
<1>12. CASE n \in 1 .. Len(y) /\ f[n] = y[n]
  <2>1. f = o.bytes /\ p = o.passphrase
    BY <1>4, <1>5, <1>7, <1>8, <1>12, LastByteTells DEF Mixed
  <2> QED
    BY <1>2, <2>1
<1> QED
  BY <1>10, <1>11, <1>12

(* What was sealed with these bytes and this passphrase.                   *)
SealedLike(s, f, p) == {o \in {s, OtherFile} : o.bytes = f /\ o.passphrase = p}

(* The routine gets to its end only with something that was sealed so, and *)
(* with that no check of its own can fail.                                 *)
OpensJust(b, f, p, m) ==
  /\ Passed(b, 12) => m # {}
  /\ \A o \in m : Plaintext(f, p) = o.cert
  /\ m # {} => \A k \in 1 .. 12 : b.calls[k].check =>
                 b.calls[k].outcomes \cap {"error", "unnoticed"} = {}
  /\ \A k \in 1 .. 12 : b.calls[k].stores = FALSE

(* What certificate_decrypt does to a file that may be damaged.            *)
LEMMA DecryptOpens ==
  ASSUME NEW s, WasSealed(s), NEW f \in Damaged(s.bytes), NEW p, NEW b, b = CertificateDecrypt(f, p),
         NEW m, m = SealedLike(s, f, p)
  PROVE  OpensJust(b, f, p, m)
<1>1. PICK c, n : c = b.calls /\ n = Len(f)
  OBVIOUS
<1>2. DecryptTable(f, p, c, n)
  BY <1>1, DecryptCalls
<1>3. ASSUME Passed(b, 12) PROVE m # {}
  <2>1. "ok" \in c[3].outcomes /\ "ok" \in c[10].outcomes
    BY <1>1, <1>3 DEF Passed
  <2>2. Checks(c[3], n >= CertMinSize)
    BY <1>2 DEF DecryptTable
  <2>3. Len(f) >= CertMinSize
    BY <1>1, <2>1, <2>2 DEF Checks
  <2>4. Checks(c[10], MacMatches(f, FileKey(f, p)))
    BY <1>2 DEF DecryptTable
  <2>5. MacMatches(f, FileKey(f, p))
    BY <2>1, <2>4, Zenon DEF Checks
  <2>6. PICK o \in {s, OtherFile} : f = o.bytes /\ p = o.passphrase
    BY <2>3, <2>5, OnlySealedMatches
  <2> QED
    BY <2>6 DEF SealedLike
<1>4. ASSUME NEW o \in m PROVE \E front, key : SealedAs(o, front, key)
  <2>1. o = s \/ o = OtherFile
    BY DEF SealedLike
  <2>2. WasSealed(o)
    BY <2>1, OtherWasSealed
  <2> QED
    BY <2>2, WasSealedAs
<1>5. \A o \in m : o.bytes = f /\ o.passphrase = p
  BY DEF SealedLike
<1>6. ASSUME NEW o \in m PROVE Plaintext(f, p) = o.cert
  BY <1>4, <1>5 DEF SealedAs
<1>7. ASSUME m # {}, NEW k \in 1 .. 12, c[k].check
      PROVE  c[k].outcomes \cap {"error", "unnoticed"} = {}
  <2>1. PICK o \in m : TRUE
    BY <1>7
  <2>2. PICK front, key : SealedAs(o, front, key)
    BY <1>4
  <2>3. /\ n >= CertMinSize /\ Field(f, 1, 3) = Magic /\ FileKey(f, p) = key /\ MacMatches(f, key)
    BY <1>1, <1>5, <2>2 DEF SealedAs
  <2>4. c[3].outcomes \cap {"error", "unnoticed"} = {}
    <3>1. Checks(c[3], n >= CertMinSize)
      BY <1>2 DEF DecryptTable
    <3> QED
      BY <2>3, <3>1 DEF Checks
  <2>5. c[4].outcomes \cap {"error", "unnoticed"} = {}
    <3>1. Checks(c[4], Field(f, 1, 3) = Magic)
      BY <1>2 DEF DecryptTable
    <3> QED
      BY <2>3, <3>1 DEF Checks
  <2>6. c[10].outcomes \cap {"error", "unnoticed"} = {}
    <3>1. Checks(c[10], MacMatches(f, FileKey(f, p)))
      BY <1>2 DEF DecryptTable
    <3>2. MacMatches(f, FileKey(f, p))
      BY <2>3
    <3>3. "error" \notin c[10].outcomes /\ "unnoticed" \notin c[10].outcomes
      BY <3>1, <3>2, Zenon DEF Checks
    <3> QED
      BY <3>3
  <2>7. /\ c[1].check = FALSE /\ c[2].check = FALSE /\ c[5].check = FALSE /\ c[6].check = FALSE
        /\ c[7].check = FALSE /\ c[8].check = FALSE /\ c[9].check = FALSE
        /\ c[11].check = FALSE /\ c[12].check = FALSE
    BY <1>2 DEF DecryptTable
  <2>8. k \in {3, 4, 10}
    BY <1>7, <2>7
  <2> QED
    BY ONLY <2>4, <2>5, <2>6, <2>8
<1>8. \A k \in 1 .. 12 : c[k].stores = FALSE
  <2>1. /\ c[1].stores = FALSE /\ c[2].stores = FALSE /\ c[3].stores = FALSE /\ c[4].stores = FALSE
        /\ c[5].stores = FALSE /\ c[6].stores = FALSE /\ c[7].stores = FALSE /\ c[8].stores = FALSE
        /\ c[9].stores = FALSE /\ c[10].stores = FALSE /\ c[11].stores = FALSE /\ c[12].stores = FALSE
    BY <1>2 DEF DecryptTable, Gives
  <2> QED
    BY <2>1
<1> QED
  BY <1>1, <1>3, <1>6, <1>7, <1>8 DEF OpensJust

(* The file that is opened is one that was sealed, and may have been       *)
(* damaged since.                                                          *)
FileInv ==
  /\ body.name # "certificate_decrypt" => body \in Routines
  /\ body.name = "certificate_decrypt" =>
       /\ WasSealed(original) /\ stored \in Damaged(original.bytes)
       /\ body = CertificateDecrypt(stored, body.input.passphrase)

(* A damaged file is a sequence of bytes all the same.                     *)
LEMMA DamagedIsSequence ==
  ASSUME NEW s, WasSealed(s), NEW f \in Damaged(s.bytes)
  PROVE  IsSequence(f)
<1>1. IsSequence(s.bytes)
  BY WasSealedAs DEF SealedAs
<1>2. IsSequence(OtherFile.bytes)
  BY OtherWasSealed, WasSealedAs DEF SealedAs
<1>3. PICK x, y : x = s.bytes /\ y = OtherFile.bytes
  OBVIOUS
<1>4. Mixed(f, x, y)
  BY <1>1, <1>2, <1>3, DamagedIsMixed
<1> QED
  BY <1>4 DEF Mixed

(* What certificate_encrypt leaves when it succeeds is sealed.             *)
LEMMA EncryptedIsSealed ==
  ASSUME ScriptInv, ReadBack
  PROVE  WasSealed(original')
<1>1. PICK W, D : /\ Script(body.calls, W, D) /\ Meant(body, W, D)
                  /\ \E n \in 0 .. Len(body.calls) : Stage(W, D, n)
  BY DEF ScriptInv
<1>2. PICK n \in 0 .. Len(body.calls) : Stage(W, D, n)
  BY <1>1
<1>3. pc = "returned" /\ AllIsWell /\ body.name = "certificate_encrypt"
  BY DEF ReadBack, Succeeded
<1>4. n = Len(body.calls) /\ written = W[n]
  BY <1>2, <1>3 DEF Stage
<1>5. Seals(body, written)
  BY <1>1, <1>3, <1>4 DEF Meant
<1>6. PICK c \in Certs, p \in Passphrases, r \in Rounds :
        /\ body.input = [cert |-> c, passphrase |-> p]
        /\ written = Sealed(Salt, IV, [cert |-> c, passphrase |-> p, rounds |-> r])
  BY <1>5 DEF Seals
<1>7. PICK o : o = original'
  OBVIOUS
<1>8. o.bytes = written /\ o.passphrase = p /\ o.cert = c
  BY <1>6, <1>7 DEF ReadBack
<1>9. IsSequence(c)
  BY CertsAre
<1> QED
  BY <1>6, <1>7, <1>8, <1>9 DEF WasSealed, Salt, IV

(* Nobody touches the file while it is opened.                             *)
LEMMA FileInvNext ==
  ASSUME FileInv, ScriptInv, LadderInv, Disciplined(body), [RecordsNext]_recordVars
  PROVE  FileInv'
<1>1. CASE ReadBack
  <2>1. PICK p : body' = CertificateDecrypt(stored', p)
    BY <1>1 DEF ReadBack, Enter
  <2>2. body'.name = "certificate_decrypt" /\ body'.input = [passphrase |-> p]
    BY <2>1 DEF CertificateDecrypt, Table
  <2>3. body'.input.passphrase = p
    BY <2>2
  <2>4. stored' \in Damaged(original'.bytes)
    BY <1>1 DEF ReadBack
  <2>5. WasSealed(original')
    BY <1>1, EncryptedIsSealed
  <2> QED
    BY <2>1, <2>2, <2>3, <2>4, <2>5 DEF FileInv
<1>2. CASE RunCall
  <2>1. body' = body /\ original' = original
    BY <1>2 DEF RunCall, Succeed
  <2>2. ASSUME body.name = "certificate_decrypt" PROVE stored' = stored
    <3>1. /\ WasSealed(original) /\ stored \in Damaged(original.bytes)
          /\ body = CertificateDecrypt(stored, body.input.passphrase)
      BY <2>2 DEF FileInv
    <3>2. PICK s, f, p : s = original /\ f = stored /\ p = body.input.passphrase
      OBVIOUS
    <3>3. \A k \in 1 .. 12 : body.calls[k].stores = FALSE
      <4>1. WasSealed(s) /\ f \in Damaged(s.bytes) /\ body = CertificateDecrypt(f, p)
        BY <3>1, <3>2
      <4>2. PICK b, m : b = body /\ m = SealedLike(s, f, p)
        OBVIOUS
      <4>3. b = CertificateDecrypt(f, p)
        BY <4>1, <4>2
      <4>4. OpensJust(b, f, p, m)
        BY ONLY <4>1, <4>2, <4>3, DecryptOpens
      <4> QED
        BY <4>2, <4>4 DEF OpensJust
    <3>4. Len(body.calls) = 12
      <4>1. PICK n : n = Len(f)
        OBVIOUS
      <4>2. DecryptTable(f, p, body.calls, n)
        BY <3>1, <3>2, <4>1, DecryptCalls
      <4> QED
        BY <4>2 DEF DecryptTable
    <3>5. at \in 1 .. 12
      <4>1. pc = "calls" /\ at <= Len(body.calls)
        BY <1>2 DEF RunCall, Succeed
      <4> QED
        BY <3>4, <4>1 DEF LadderInv
    <3>6. Call.stores = FALSE
      BY <3>3, <3>5 DEF Call
    <3> QED
      BY <1>2, <3>6 DEF RunCall
  <2> QED
    BY <2>1, <2>2 DEF FileInv
<1>3. CASE body' = body /\ original' = original /\ stored' = stored
  BY <1>3 DEF FileInv
<1> QED
  BY <1>1, <1>2, <1>3 DEF RecordsNext, FailCall, CleanUp, Finished, Fail, Crash, Done,
     PassOver, Release, Return, GoTo, recordVars, ladderVars

(* So an encrypted certificate opens just when it was sealed so.           *)
LEMMA OpensFollows ==
  ASSUME FileInv, ScriptInv, RefusedInv
  PROVE  OpensWhatWasSealed
<1> SUFFICES ASSUME body.name = "certificate_decrypt" PROVE OpensWhatWasSealed
  BY DEF OpensWhatWasSealed
<1>1. PICK s, f, p : s = original /\ f = stored /\ p = body.input.passphrase
  OBVIOUS
<1>2. WasSealed(s) /\ f \in Damaged(s.bytes) /\ body = CertificateDecrypt(f, p)
  BY <1>1 DEF FileInv
<1>3. PICK W, D : /\ Script(body.calls, W, D) /\ Meant(body, W, D)
                  /\ \E n \in 0 .. Len(body.calls) : Stage(W, D, n)
  BY DEF ScriptInv
<1>4. PICK n \in 0 .. Len(body.calls) : Stage(W, D, n)
  BY <1>3
<1>5. /\ Len(body.calls) = 12 /\ \A i \in 0 .. 11 : W[i] = <<>>
      /\ W[12] = Plaintext(f, p) /\ D[12] = Authenticated(f)
  <2>1. Opens(body, W, D)
    BY <1>3 DEF Meant
  <2> QED
    BY <1>2, <2>1 DEF Opens
<1>6. PICK m : m = SealedLike(s, f, p)
  OBVIOUS
<1>7. /\ Passed(body, 12) => m # {}
      /\ \A o \in m : Plaintext(f, p) = o.cert
      /\ m # {} => \A k \in 1 .. 12 : body.calls[k].check =>
                     body.calls[k].outcomes \cap {"error", "unnoticed"} = {}
  <2>1. PICK b : b = body
    OBVIOUS
  <2>2. b = CertificateDecrypt(f, p)
    BY <1>2, <2>1
  <2>3. OpensJust(b, f, p, m)
    BY ONLY <1>2, <1>6, <2>2, DecryptOpens
  <2> QED
    BY <2>1, <2>3 DEF OpensJust
<1>8. written = W[n] /\ digested = D[n] /\ Passed(body, n)
  BY <1>4 DEF Stage
<1>9. ASSUME Succeeded PROVE \E o \in m : written = o.cert
  <2>1. n = 12
    BY <1>4, <1>5, <1>9 DEF Stage, Succeeded
  <2>2. m # {} /\ written = Plaintext(f, p)
    BY <1>5, <1>7, <1>8, <2>1
  <2> QED
    BY <1>7, <2>2
<1>10. ASSUME refused PROVE m = {}
  <2>1. PICK k \in 1 .. Len(body.calls) :
          body.calls[k].check /\ body.calls[k].outcomes \cap {"error", "unnoticed"} # {}
    BY <1>10 DEF RefusedInv
  <2> QED
    BY <1>5, <1>7, <2>1
<1>11. ASSUME written # <<>>
       PROVE  m # {} /\ digested = Field(f, 1, Len(f) - MAC_SIZE)
  <2>1. n = 12
    <3>1. n \notin 0 .. 11
      BY <1>5, <1>8, <1>11
    <3> QED
      BY <1>5, <3>1
  <2> QED
    BY <1>5, <1>7, <1>8, <2>1 DEF Authenticated
<1>12. m = {o \in {original, OtherFile} : o.bytes = stored /\ o.passphrase = body.input.passphrase}
  BY <1>1, <1>6 DEF SealedLike
<1> QED
  BY <1>1, <1>9, <1>10, <1>11, <1>12 DEF OpensWhatWasSealed

(* The halves of the short-term key.                                       *)
LEMMA HalvesFacts ==
  ASSUME NEW k
  PROVE  /\ IsSequence(SubSeq(ShortKey, 1, BLOCK_SIZE)) /\ Len(SubSeq(ShortKey, 1, BLOCK_SIZE)) = 2
         /\ IsSequence(SubSeq(ShortKey, BLOCK_SIZE + 1, 2 * BLOCK_SIZE))
         /\ Len(SubSeq(ShortKey, BLOCK_SIZE + 1, 2 * BLOCK_SIZE)) = 2
         /\ SubSeq(ShortKey, 1, BLOCK_SIZE) \o SubSeq(ShortKey, BLOCK_SIZE + 1, 2 * BLOCK_SIZE) = ShortKey
         /\ \A i \in DOMAIN ShortKey : ShortKey[i][1] = "st_key"
         /\ IsSequence(FirstHalf(k)) /\ Len(FirstHalf(k)) = 2
         /\ IsSequence(SecondHalf(k)) /\ Len(SecondHalf(k)) = 2
<1>1. PICK x, a, b : x = ShortKey /\ a = SubSeq(x, 1, 2) /\ b = SubSeq(x, 3, 4)
  OBVIOUS
<1>2. IsSequence(x) /\ Len(x) = 4 /\ \A i \in 1 .. 4 : x[i] = <<"st_key", "fresh", i>>
  BY <1>1, BytesFacts DEF ShortKey, LONG_KEY_SIZE
<1>3. a = Field(x, 1, 2) /\ b = Field(x, 3, 2)
  BY <1>1, <1>2 DEF Field
<1>4. /\ IsSequence(a) /\ Len(a) = 2 /\ a[1] = x[1] /\ a[2] = x[2]
      /\ IsSequence(b) /\ Len(b) = 2 /\ b[1] = x[3] /\ b[2] = x[4]
  <2>1. IsSequence(a) /\ Len(a) = 2 /\ \A i \in 1 .. 2 : a[i] = x[1 + i - 1]
    <3>1. PICK m, n : m = 1 /\ n = 2
      OBVIOUS
    <3>2. m \in Nat \ {0} /\ n \in Nat /\ m + n - 1 <= Len(x)
      BY <1>2, <3>1
    <3>3. /\ IsSequence(Field(x, m, n)) /\ Len(Field(x, m, n)) = n
          /\ \A i \in 1 .. n : Field(x, m, n)[i] = x[m + i - 1]
      BY <1>2, <3>2, FieldFacts
    <3> QED
      BY <1>3, <3>1, <3>3
  <2>2. IsSequence(b) /\ Len(b) = 2 /\ \A i \in 1 .. 2 : b[i] = x[3 + i - 1]
    <3>1. PICK m, n : m = 3 /\ n = 2
      OBVIOUS
    <3>2. m \in Nat \ {0} /\ n \in Nat /\ m + n - 1 <= Len(x)
      BY <1>2, <3>1
    <3>3. /\ IsSequence(Field(x, m, n)) /\ Len(Field(x, m, n)) = n
          /\ \A i \in 1 .. n : Field(x, m, n)[i] = x[m + i - 1]
      BY <1>2, <3>2, FieldFacts
    <3> QED
      BY <1>3, <3>1, <3>3
  <2>3. a[1] = x[1] /\ a[2] = x[2]
    BY <2>1
  <2>4. b[1] = x[3] /\ b[2] = x[4]
    BY <2>2
  <2> QED
    BY ONLY <2>1, <2>2, <2>3, <2>4
<1>5. a \o b = x
  <2>1. IsSequence(a) /\ IsSequence(b)
    BY <1>4
  <2>2. PICK c : c = a \o b
    OBVIOUS
  <2>3. /\ IsSequence(c) /\ Len(c) = Len(a) + Len(b)
        /\ \A i \in 1 .. Len(a) : c[i] = a[i]
        /\ \A i \in 1 .. Len(b) : c[Len(a) + i] = b[i]
    BY ONLY <2>1, <2>2, ConcatFacts
  <2>4. Len(c) = 4 /\ c[1] = a[1] /\ c[2] = a[2] /\ c[2 + 1] = b[1] /\ c[2 + 2] = b[2]
    BY <1>4, <2>3
  <2>5. \A i \in 1 .. 4 : c[i] = x[i]
    BY <1>4, <2>4
  <2> QED
    BY <1>2, <2>2, <2>3, <2>4, <2>5, SequencesEqual
<1>6. \A i \in DOMAIN x : x[i][1] = "st_key"
  <2>1. DOMAIN x = 1 .. 4
    BY <1>2 DEF IsSequence
  <2>2. \A i \in 1 .. 4 : x[i][1] = "st_key"
    BY <1>2
  <2> QED
    BY <2>1, <2>2
<1>7. IsSequence(a) /\ IsSequence(b)
  BY <1>4
<1>8. a = SubSeq(ShortKey, 1, BLOCK_SIZE) /\ b = SubSeq(ShortKey, BLOCK_SIZE + 1, 2 * BLOCK_SIZE)
  BY <1>1 DEF BLOCK_SIZE
<1>9. IsSequence(FirstHalf(k)) /\ Len(FirstHalf(k)) = 2
  BY <1>4, <1>7, <1>8, EncryptFacts DEF FirstHalf
<1>10. IsSequence(SecondHalf(k)) /\ Len(SecondHalf(k)) = 2
  BY <1>4, <1>7, <1>8, EncryptFacts DEF SecondHalf
<1> QED
  BY <1>1, <1>4, <1>5, <1>6, <1>7, <1>8, <1>9, <1>10

(* The parts of a header are found where the header's layout says.         *)
LEMMA HeaderFields ==
  ASSUME NEW p, NEW r, NEW k, k = DerivedKey(p, HeaderSalt, RoundsBytes(r, 1)),
         NEW rec, rec = HeaderBytes(p, r)
  PROVE  /\ IsSequence(rec) /\ Len(rec) = 14
         /\ \A y : Starts(rec, y) =>
              /\ Field(y, 1, 14) = rec /\ Field(y, 4, 1) = RoundsBytes(r, 1)
              /\ Field(y, 5, 4) = HeaderSalt /\ Field(y, 9, 2) = HeaderIv
              /\ Field(y, 11, 2) = FirstHalf(k) /\ Field(y, 13, 2) = SecondHalf(k)
<1>1. PICK m, v, z, q, sa, iv, h1, h2 :
        /\ m = Bytes("magic", "ENCVCBAK", 1) /\ v = Bytes("version", "0x10000000", 1)
        /\ z = Bytes("size", HeaderSize, 1) /\ q = RoundsBytes(r, 1)
        /\ sa = HeaderSalt /\ iv = HeaderIv /\ h1 = FirstHalf(k) /\ h2 = SecondHalf(k)
  OBVIOUS
<1>2. PICK a2, a3, a4, a5, a6, a7 :
        /\ a2 = m \o v /\ a3 = a2 \o z /\ a4 = a3 \o q /\ a5 = a4 \o sa /\ a6 = a5 \o iv /\ a7 = a6 \o h1
  OBVIOUS
<1>3. rec = a7 \o h2
  BY <1>1, <1>2 DEF HeaderBytes
<1>4. /\ IsSequence(m) /\ Len(m) = 1 /\ IsSequence(v) /\ Len(v) = 1 /\ IsSequence(z) /\ Len(z) = 1
      /\ IsSequence(q) /\ Len(q) = 1 /\ IsSequence(sa) /\ Len(sa) = 4 /\ IsSequence(iv) /\ Len(iv) = 2
  BY <1>1, BytesFacts DEF RoundsBytes, HeaderSalt, HeaderIv, SALT_SIZE, HEADER_IV_SIZE
<1>5. IsSequence(h1) /\ Len(h1) = 2 /\ IsSequence(h2) /\ Len(h2) = 2
  BY <1>1, HalvesFacts
<1>6. IsSequence(a2) /\ Len(a2) = 2
  <2>1. IsSequence(a2) /\ Len(a2) = Len(m) + Len(v)
    BY <1>2, <1>4, ConcatFacts
  <2> QED
    BY <1>4, <2>1
<1>7. IsSequence(a3) /\ Len(a3) = 3
  <2>1. IsSequence(a3) /\ Len(a3) = Len(a2) + Len(z)
    BY <1>2, <1>4, <1>6, ConcatFacts
  <2> QED
    BY <1>4, <1>6, <2>1
<1>8. IsSequence(a4) /\ Len(a4) = 4 /\ Starts(a3, a4)
  <2>1. IsSequence(a4) /\ Len(a4) = Len(a3) + Len(q) /\ Starts(a3, a4)
    BY <1>2, <1>4, <1>7, ConcatFacts, StartsFacts
  <2> QED
    BY <1>4, <1>7, <2>1
<1>9. IsSequence(a5) /\ Len(a5) = 8 /\ Starts(a4, a5)
  <2>1. IsSequence(a5) /\ Len(a5) = Len(a4) + Len(sa) /\ Starts(a4, a5)
    BY <1>2, <1>4, <1>8, ConcatFacts, StartsFacts
  <2> QED
    BY <1>4, <1>8, <2>1
<1>10. IsSequence(a6) /\ Len(a6) = 10 /\ Starts(a5, a6)
  <2>1. IsSequence(a6) /\ Len(a6) = Len(a5) + Len(iv) /\ Starts(a5, a6)
    BY <1>2, <1>4, <1>9, ConcatFacts, StartsFacts
  <2> QED
    BY <1>4, <1>9, <2>1
<1>11. IsSequence(a7) /\ Len(a7) = 12 /\ Starts(a6, a7)
  <2>1. IsSequence(a7) /\ Len(a7) = Len(a6) + Len(h1) /\ Starts(a6, a7)
    <3>1. IsSequence(a6) /\ IsSequence(h1) /\ a7 = a6 \o h1
      BY <1>2, <1>5, <1>10
    <3>2. IsSequence(a7) /\ Len(a7) = Len(a6) + Len(h1)
      BY ONLY <3>1, ConcatFacts
    <3>3. Starts(a6, a7)
      BY ONLY <3>1, StartsFacts
    <3> QED
      BY <3>2, <3>3
  <2> QED
    BY <1>5, <1>10, <2>1
<1>12. IsSequence(rec) /\ Len(rec) = 14 /\ Starts(a7, rec)
  <2>1. IsSequence(rec) /\ Len(rec) = Len(a7) + Len(h2) /\ Starts(a7, rec)
    <3>1. IsSequence(a7) /\ IsSequence(h2) /\ rec = a7 \o h2
      BY <1>3, <1>5, <1>11
    <3>2. IsSequence(rec) /\ Len(rec) = Len(a7) + Len(h2)
      BY ONLY <3>1, ConcatFacts
    <3>3. Starts(a7, rec)
      BY ONLY <3>1, StartsFacts
    <3> QED
      BY <3>2, <3>3
  <2> QED
    BY <1>5, <1>11, <2>1
<1>13. ASSUME NEW y, Starts(rec, y)
       PROVE  /\ Field(y, 1, 14) = rec /\ Field(y, 4, 1) = q
              /\ Field(y, 5, 4) = sa /\ Field(y, 9, 2) = iv
              /\ Field(y, 11, 2) = h1 /\ Field(y, 13, 2) = h2
  <2>1. Starts(a7, y)
    BY <1>12, <1>13, StartsFacts
  <2>2. Starts(a6, y)
    BY <1>11, <2>1, StartsFacts
  <2>3. Starts(a5, y)
    BY <1>10, <2>2, StartsFacts
  <2>4. Starts(a4, y)
    BY <1>9, <2>3, StartsFacts
  <2>5. Field(y, 4, 1) = q
    <3>1. Field(y, Len(a3) + 1, Len(q)) = q
      BY <1>2, <1>4, <1>7, <2>4, FieldAfter
    <3> QED
      BY <1>4, <1>7, <3>1
  <2>6. Field(y, 5, 4) = sa
    <3>1. Field(y, Len(a4) + 1, Len(sa)) = sa
      BY <1>2, <1>4, <1>8, <2>3, FieldAfter
    <3> QED
      BY <1>4, <1>8, <3>1
  <2>7. Field(y, 9, 2) = iv
    <3>1. Field(y, Len(a5) + 1, Len(iv)) = iv
      BY <1>2, <1>4, <1>9, <2>2, FieldAfter
    <3> QED
      BY <1>4, <1>9, <3>1
  <2>8. Field(y, 11, 2) = h1
    <3>1. Field(y, Len(a6) + 1, Len(h1)) = h1
      BY <1>2, <1>5, <1>10, <2>1, FieldAfter
    <3> QED
      BY <1>5, <1>10, <3>1
  <2>9. Field(y, 13, 2) = h2
    <3>1. Field(y, Len(a7) + 1, Len(h2)) = h2
      BY <1>3, <1>5, <1>11, <1>13, FieldAfter
    <3> QED
      BY <1>5, <1>11, <3>1
  <2>10. Field(y, 1, 14) = rec
    <3>1. PICK e : e = <<>>
      OBVIOUS
    <3>2. IsSequence(e) /\ Len(e) = 0 /\ e \o rec = rec
      BY <1>12, <3>1, ConcatEmpty
    <3>3. Starts(e \o rec, y)
      BY <1>13, <3>2
    <3>4. Field(y, Len(e) + 1, Len(rec)) = rec
      BY <1>12, <3>2, <3>3, FieldAfter
    <3> QED
      BY <1>12, <3>2, <3>4
  <2> QED
    BY <2>5, <2>6, <2>7, <2>8, <2>9, <2>10
<1> QED
  BY <1>1, <1>12, <1>13

(* What a finished header is.                                              *)
IsHeader(v, p) ==
  \E r \in Rounds :
    LET record == HeaderBytes(p, r)
    IN  v = record \o Mac(ShortKey, Field(record, 1, HeaderSize - HEADER_MAC_SIZE), HEADER_MAC_SIZE)

(* Whoever has the passphrase gets at the short-term key.                  *)
LEMMA HeaderTells ==
  ASSUME NEW y, NEW p, IsHeader(y, p),
         NEW k, k = DerivedKey(p, Field(y, 5, 4), Field(y, 4, 1)),
         NEW h, h = Field(y, 11, 2)
  PROVE  /\ Len(y) = 18
         /\ Decrypt(k, Field(y, 9, 2), h) \o Decrypt(k, h, Field(y, 13, 2)) = ShortKey
         /\ Field(y, 15, 4) = Mac(ShortKey, Field(y, 1, 14), 4)
<1>0. PICK r \in Rounds :
        LET record == HeaderBytes(p, r)
        IN  y = record \o Mac(ShortKey, Field(record, 1, HeaderSize - HEADER_MAC_SIZE), HEADER_MAC_SIZE)
  BY DEF IsHeader
<1>1. PICK rec :
        /\ rec = HeaderBytes(p, r)
        /\ y = rec \o Mac(ShortKey, Field(rec, 1, HeaderSize - HEADER_MAC_SIZE), HEADER_MAC_SIZE)
  BY <1>0
<1>2. HEADER_MAC_SIZE = 4 /\ HeaderSize - HEADER_MAC_SIZE = 14
  BY DEF HeaderSize, HEADER_MAC_SIZE, SALT_SIZE, HEADER_IV_SIZE, LONG_KEY_SIZE
<1>3. PICK k1 : k1 = DerivedKey(p, HeaderSalt, RoundsBytes(r, 1))
  OBVIOUS
<1>4. /\ IsSequence(rec) /\ Len(rec) = 14
      /\ \A x : Starts(rec, x) =>
           /\ Field(x, 1, 14) = rec /\ Field(x, 4, 1) = RoundsBytes(r, 1)
           /\ Field(x, 5, 4) = HeaderSalt /\ Field(x, 9, 2) = HeaderIv
           /\ Field(x, 11, 2) = FirstHalf(k1) /\ Field(x, 13, 2) = SecondHalf(k1)
  BY <1>1, <1>3, HeaderFields
<1>5. PICK t : t = Mac(ShortKey, rec, 4)
  OBVIOUS
<1>6. IsSequence(t) /\ Len(t) = 4
  BY <1>5, BytesFacts DEF Mac
<1>7. y = rec \o t
  <2>1. Starts(rec, rec)
    BY <1>4, StartsFacts
  <2>2. Field(rec, 1, 14) = rec
    BY <1>4, <2>1
  <2> QED
    BY <1>1, <1>2, <1>5, <2>2
<1>8. Starts(rec, y) /\ Len(y) = 18
  <2>1. Starts(rec, y) /\ Len(y) = Len(rec) + Len(t) /\ IsSequence(y)
    BY <1>4, <1>6, <1>7, StartsFacts, ConcatFacts
  <2> QED
    BY <1>4, <1>6, <2>1
<1>9. /\ Field(y, 1, 14) = rec /\ Field(y, 4, 1) = RoundsBytes(r, 1)
      /\ Field(y, 5, 4) = HeaderSalt /\ Field(y, 9, 2) = HeaderIv
      /\ h = FirstHalf(k1) /\ Field(y, 13, 2) = SecondHalf(k1)
  BY <1>4, <1>8
<1>10. k = k1
  BY <1>3, <1>9
<1>11. PICK a, b : a = SubSeq(ShortKey, 1, BLOCK_SIZE) /\ b = SubSeq(ShortKey, BLOCK_SIZE + 1, 2 * BLOCK_SIZE)
  OBVIOUS
<1>12. IsSequence(a) /\ IsSequence(b) /\ a \o b = ShortKey
  BY <1>11, HalvesFacts
<1>13. Decrypt(k, Field(y, 9, 2), h) = a
  BY <1>9, <1>10, <1>11, <1>12, DecryptUndoesEncrypt DEF FirstHalf
<1>14. Decrypt(k, h, Field(y, 13, 2)) = b
  BY <1>9, <1>10, <1>11, <1>12, DecryptUndoesEncrypt DEF SecondHalf
<1>15. Field(y, 15, 4) = t
  <2>1. Starts(y, y)
    <3>1. IsSequence(y)
      BY <1>8 DEF Starts
    <3> QED
      BY <3>1, StartsFacts
  <2>2. Field(y, Len(rec) + 1, Len(t)) = t
    BY <1>4, <1>6, <1>7, <2>1, FieldAfter
  <2> QED
    BY <1>4, <1>6, <2>2
<1> QED
  BY <1>5, <1>8, <1>9, <1>12, <1>13, <1>14, <1>15

(* Nothing is written before the keys are there,                           *)
LEMMA HeaderSetUpQuiet ==
  ASSUME NEW valid
  PROVE  /\ IsSequence(HeaderSetUp(valid)) /\ Len(HeaderSetUp(valid)) = 12
         /\ \A i \in 1 .. 12 : Quiet(HeaderSetUp(valid)[i])
<1>1. PICK g, c : g = HeaderSetUp(valid) /\ c = Check(valid, "done")
  OBVIOUS
<1>2. g = <<c, Acquire({"prng"}, "done"), Acquire({"iv"}, "prng"), Acquire({"salt"}, "iv"),
            Acquire({"lt_key"}, "salt"), Acquire({"st_key"}, "lt_key"),
            Acquire({"encrypted_key"}, "st_key"), Acquire({"record"}, "encrypted_key"),
            Acquire({"mac_buffer"}, "record"),
            Do("mac_buffer"), Do("mac_buffer"), Do("mac_buffer")>>
  BY <1>1, Zenon DEF HeaderSetUp
<1>3. g \in Seq({g[i] : i \in 1 .. 12}) /\ Len(g) = 12
  BY <1>2
<1>4. Quiet(c)
  BY <1>1, QuietFacts, Zenon
<1>5. \A i \in 1 .. 12 : Quiet(g[i])
  BY <1>2, <1>4, QuietFacts
<1> QED
  BY <1>1, <1>3, <1>5 DEF IsSequence

(* nor while the key is derived and the blocks are encrypted,              *)
LEMMA HeaderKeysQuiet ==
  /\ IsSequence(HeaderKeys) /\ Len(HeaderKeys) = 6
  /\ \A i \in 1 .. 6 : Quiet(HeaderKeys[i])
<1>1. PICK g : g = HeaderKeys
  OBVIOUS
<1>2. g \in Seq({g[i] : i \in 1 .. 6}) /\ Len(g) = 6
  BY <1>1 DEF HeaderKeys
<1>3. \A i \in 1 .. 6 : Quiet(g[i])
  BY <1>1, QuietFacts DEF HeaderKeys
<1> QED
  BY <1>1, <1>2, <1>3 DEF IsSequence

(* and then call by call.                                                  *)
HeaderTable(s, rec, w) ==
  /\ Len(s) = 24
  /\ \A i \in 1 .. 18 : Puts(s[i], <<>>, <<>>)
  /\ Puts(s[19], rec, <<>>) /\ Puts(s[20], <<>>, w) /\ Puts(s[21], <<>>, <<>>)
  /\ s[22] = WriteMac(ShortKey, HEADER_MAC_SIZE)
  /\ Puts(s[23], <<>>, <<>>) /\ s[24] = FileCheck

(* That is its table.                                                      *)
LEMMA HeaderCalls ==
  ASSUME NEW valid, NEW p, NEW r, NEW s, s = HeaderWrite(valid, p, r).calls,
         NEW rec, rec = HeaderBytes(p, r),
         NEW w, w = Field(rec, 1, HeaderSize - HEADER_MAC_SIZE)
  PROVE  HeaderTable(s, rec, w)
<1>1. PICK a, b, c, d, ab, abc :
        /\ a = HeaderSetUp(valid) /\ b = HeaderKeys /\ c = HeaderRecord(p, r) /\ d = HeaderFile
        /\ ab = a \o b /\ abc = ab \o c
  OBVIOUS
<1>2. s = abc \o d
  BY <1>1 DEF HeaderWrite, Table
<1>3. IsSequence(a) /\ Len(a) = 12 /\ \A i \in 1 .. 12 : Quiet(a[i])
  BY <1>1, HeaderSetUpQuiet
<1>4. IsSequence(b) /\ Len(b) = 6 /\ \A i \in 1 .. 6 : Quiet(b[i])
  BY <1>1, HeaderKeysQuiet
<1>5. c = <<Write(rec), Digest(w, "mac"), Do("mac"), WriteMac(ShortKey, HEADER_MAC_SIZE)>>
  BY <1>1, Zenon DEF HeaderRecord, HeaderBytes, HeaderSalt, HeaderIv, ShortKey, FirstHalf, SecondHalf
<1>6. c \in Seq({c[i] : i \in 1 .. 4}) /\ Len(c) = 4
  BY <1>5
<1>7. PICK st : st = [Do("mac") EXCEPT !.stores = TRUE]
  OBVIOUS
<1>8. d = <<st, FileCheck>>
  BY <1>1, <1>7, Zenon DEF HeaderFile, FileCheck
<1>9. d \in Seq({d[i] : i \in 1 .. 2}) /\ Len(d) = 2
  BY <1>8
<1>10. IsSequence(c) /\ IsSequence(d)
  BY <1>6, <1>9 DEF IsSequence
<1>11. /\ IsSequence(ab) /\ Len(ab) = 18
       /\ \A i \in 1 .. 12 : ab[i] = a[i]
       /\ \A i \in 1 .. 6 : ab[12 + i] = b[i]
  <2>1. /\ IsSequence(ab) /\ Len(ab) = Len(a) + Len(b)
        /\ \A i \in 1 .. Len(a) : ab[i] = a[i]
        /\ \A i \in 1 .. Len(b) : ab[Len(a) + i] = b[i]
    <3>1. IsSequence(a) /\ IsSequence(b) /\ ab = a \o b
      BY <1>1, <1>3, <1>4
    <3> QED
      BY ONLY <3>1, ConcatFacts
  <2> QED
    BY <1>3, <1>4, <2>1
<1>12. \A i \in 1 .. 18 : Puts(ab[i], <<>>, <<>>)
  <2> SUFFICES ASSUME NEW i \in 1 .. 18 PROVE Puts(ab[i], <<>>, <<>>)
    OBVIOUS
  <2>1. CASE i \in 1 .. 12
    BY <1>3, <1>11, <2>1, PutsFacts
  <2>2. CASE i \notin 1 .. 12
    <3>1. i - 12 \in 1 .. 6 /\ 12 + (i - 12) = i
      BY <2>2
    <3>2. PICK j \in 1 .. 6 : 12 + j = i
      BY <3>1
    <3>3. ab[i] = b[j]
      BY <1>11, <3>2
    <3> QED
      BY <1>4, <3>3, PutsFacts
  <2> QED
    BY <2>1, <2>2
<1>13. /\ IsSequence(abc) /\ Len(abc) = 22
       /\ \A i \in 1 .. 18 : abc[i] = ab[i]
       /\ \A i \in 1 .. 4 : abc[18 + i] = c[i]
  <2>1. /\ IsSequence(abc) /\ Len(abc) = Len(ab) + Len(c)
        /\ \A i \in 1 .. Len(ab) : abc[i] = ab[i]
        /\ \A i \in 1 .. Len(c) : abc[Len(ab) + i] = c[i]
    <3>1. IsSequence(ab) /\ IsSequence(c) /\ abc = ab \o c
      BY <1>1, <1>10, <1>11
    <3> QED
      BY ONLY <3>1, ConcatFacts
  <2> QED
    BY <1>6, <1>11, <2>1
<1>14. /\ IsSequence(s) /\ Len(s) = 24
       /\ \A i \in 1 .. 22 : s[i] = abc[i]
       /\ \A i \in 1 .. 2 : s[22 + i] = d[i]
  <2>1. /\ IsSequence(s) /\ Len(s) = Len(abc) + Len(d)
        /\ \A i \in 1 .. Len(abc) : s[i] = abc[i]
        /\ \A i \in 1 .. Len(d) : s[Len(abc) + i] = d[i]
    <3>1. IsSequence(abc) /\ IsSequence(d) /\ s = abc \o d
      BY <1>2, <1>10, <1>13
    <3> QED
      BY ONLY <3>1, ConcatFacts
  <2> QED
    BY <1>9, <1>13, <2>1
<1>15. \A i \in 1 .. 18 : Puts(s[i], <<>>, <<>>)
  <2>1. \A i \in 1 .. 18 : s[i] = ab[i]
    BY <1>13, <1>14
  <2> QED
    BY <1>12, <2>1
<1>16. s[19] = c[1] /\ s[20] = c[2] /\ s[21] = c[3] /\ s[22] = c[4]
  <2>1. \A i \in 1 .. 4 : abc[18 + i] = c[i]
    BY <1>13
  <2>2. abc[19] = c[1] /\ abc[20] = c[2] /\ abc[21] = c[3] /\ abc[22] = c[4]
    BY <2>1
  <2> QED
    BY <1>14, <2>2
<1>17. s[23] = d[1] /\ s[24] = d[2]
  <2>1. \A i \in 1 .. 2 : s[22 + i] = d[i]
    BY <1>14
  <2> QED
    BY <2>1
<1>18. c[1] = Write(rec) /\ c[2] = Digest(w, "mac") /\ c[3] = Do("mac") /\ c[4] = WriteMac(ShortKey, HEADER_MAC_SIZE)
  BY <1>5
<1>19. Puts(c[1], rec, <<>>) /\ Puts(c[2], <<>>, w) /\ Puts(c[3], <<>>, <<>>)
  <2>1. Puts(Do("mac"), <<>>, <<>>)
    BY DEF Puts, Do
  <2> QED
    BY <1>18, <2>1, PutsFacts
<1>20. Puts(d[1], <<>>, <<>>) /\ d[2] = FileCheck
  <2>1. Puts(st, <<>>, <<>>)
    BY <1>7 DEF Puts, Do
  <2>2. d[1] = st /\ d[2] = FileCheck
    BY <1>8
  <2> QED
    BY <2>1, <2>2
<1> QED
  BY <1>14, <1>15, <1>16, <1>17, <1>18, <1>19, <1>20 DEF HeaderTable

(* The routine follows a script, and what it writes is a header.           *)
LEMMA HeaderScripted ==
  ASSUME NEW valid, NEW p, NEW r \in Rounds
  PROVE  Scripted(HeaderWrite(valid, p, r))
<1>1. PICK b, s, rec, w, u :
        /\ b = HeaderWrite(valid, p, r) /\ s = b.calls /\ rec = HeaderBytes(p, r)
        /\ w = Field(rec, 1, HeaderSize - HEADER_MAC_SIZE)
        /\ u = Mac(ShortKey, w, HEADER_MAC_SIZE)
  OBVIOUS
<1>2. HeaderTable(s, rec, w)
  BY <1>1, HeaderCalls
<1>3. /\ b.name = "backup_file_encryption_header_write" /\ b.size = 18
      /\ b.input = [passphrase |-> p]
  BY <1>1 DEF HeaderWrite, Table, HeaderSize, HEADER_MAC_SIZE, SALT_SIZE, HEADER_IV_SIZE, LONG_KEY_SIZE
<1>4. IsSequence(rec) /\ Len(rec) = 14 /\ w = rec
  <2>1. PICK k : k = DerivedKey(p, HeaderSalt, RoundsBytes(r, 1))
    OBVIOUS
  <2>2. /\ IsSequence(rec) /\ Len(rec) = 14
        /\ \A y : Starts(rec, y) => Field(y, 1, 14) = rec
    BY <1>1, <2>1, HeaderFields
  <2>3. Field(rec, 1, 14) = rec
    BY <2>2, StartsFacts
  <2>4. HeaderSize - HEADER_MAC_SIZE = 14
    BY DEF HeaderSize, HEADER_MAC_SIZE, SALT_SIZE, HEADER_IV_SIZE, LONG_KEY_SIZE
  <2> QED
    BY <1>1, <2>2, <2>3, <2>4
<1>5. IsSequence(u) /\ Len(u) = 4
  <2>1. PICK v : v = <<ShortKey, w>>
    OBVIOUS
  <2>2. u = Bytes("mac", v, HEADER_MAC_SIZE) /\ HEADER_MAC_SIZE = 4
    BY <1>1, <2>1 DEF Mac, HEADER_MAC_SIZE
  <2> QED
    BY <2>2, BytesFacts
<1>6. PICK all : all = rec \o u
  OBVIOUS
<1>7. IsSequence(all) /\ Len(all) = 18
  <2>1. IsSequence(all) /\ Len(all) = Len(rec) + Len(u)
    BY <1>4, <1>5, <1>6, ConcatFacts
  <2> QED
    BY <1>4, <1>5, <2>1
<1>8. PICK e : e = <<>>
  OBVIOUS
<1>9. IsSequence(e) /\ Len(e) = 0 /\ e \o rec = rec /\ e \o w = w
  BY <1>4, <1>8, ConcatEmpty
<1> DEFINE W == [i \in 0 .. 24 |-> IF i <= 18 THEN e ELSE IF i <= 21 THEN rec ELSE all]
           D == [i \in 0 .. 24 |-> IF i <= 19 THEN e ELSE w]
<1>10. /\ \A i \in 0 .. 18 : W[i] = e
       /\ W[18] = e /\ W[19] = rec /\ W[20] = rec /\ W[21] = rec /\ W[22] = all /\ W[23] = all /\ W[24] = all
  OBVIOUS
<1>11. /\ \A i \in 0 .. 19 : D[i] = e
       /\ D[18] = e /\ D[19] = e /\ D[20] = w /\ D[21] = w /\ D[22] = w /\ D[23] = w /\ D[24] = w
  OBVIOUS
<1>12. \A i \in 0 .. 24 : W[i] \in {e, rec, all}
  OBVIOUS
<1> HIDE DEF W, D
<1>13. ASSUME NEW i \in 1 .. 18 PROVE Further(s[i], W[i - 1], D[i - 1], W[i], D[i])
  <2>1. i - 1 \in 0 .. 18 /\ i \in 0 .. 18 /\ i - 1 \in 0 .. 19 /\ i \in 0 .. 19
    OBVIOUS
  <2>2. W[i - 1] = e /\ D[i - 1] = e /\ W[i] = e /\ D[i] = e
    BY <1>10, <1>11, <2>1
  <2>3. Puts(s[i], <<>>, <<>>)
    BY <1>2 DEF HeaderTable
  <2>4. Further(s[i], e, e, e, e)
    BY <1>9, <2>3, PutsFurther
  <2> QED
    BY <2>2, <2>4
<1>14. /\ Further(s[19], e, e, rec, e) /\ Further(s[20], rec, e, rec, w)
       /\ Further(s[21], rec, w, rec, w) /\ Further(s[23], all, w, all, w)
  <2>1. /\ Puts(s[19], rec, <<>>) /\ Puts(s[20], <<>>, w) /\ Puts(s[21], <<>>, <<>>)
        /\ Puts(s[23], <<>>, <<>>)
    BY <1>2 DEF HeaderTable
  <2> USE <1>4, <1>7, <1>9, PutsFurther
  <2>2. Further(s[19], e, e, rec, e)
    BY <2>1
  <2>3. Further(s[20], rec, e, rec, w)
    BY <2>1
  <2>4. Further(s[21], rec, w, rec, w)
    BY <2>1
  <2>5. Further(s[23], all, w, all, w)
    BY <2>1
  <2> QED
    BY ONLY <2>2, <2>3, <2>4, <2>5
<1>15. Further(s[22], rec, w, all, w)
  <2>1. s[22] = WriteMac(ShortKey, HEADER_MAC_SIZE)
    BY <1>2 DEF HeaderTable
  <2>2. s[22].mac = <<ShortKey, HEADER_MAC_SIZE>> /\ s[22].writes = <<>> /\ s[22].digests = <<>>
    BY <2>1 DEF WriteMac, Do
  <2>3. s[22].mac[1] = ShortKey /\ s[22].mac[2] = HEADER_MAC_SIZE /\ s[22].mac # <<>>
    BY <2>2
  <2>4. Tag(s[22], w) = u
    BY <1>1, <2>3 DEF Tag
  <2> QED
    BY <1>4, <1>6, <2>2, <2>4, ConcatEmpty DEF Further
<1>16. Further(s[24], all, w, all, w)
  <2>1. s[24] = FileCheck
    BY <1>2 DEF HeaderTable
  <2>2. Puts(s[24], <<>>, <<>>)
    BY <2>1 DEF FileCheck, Puts, Do
  <2> QED
    BY <1>4, <1>7, <2>2, PutsFurther
<1>17. ASSUME NEW i \in 1 .. 24 PROVE Further(s[i], W[i - 1], D[i - 1], W[i], D[i])
  <2>1. CASE i \in 1 .. 18
    BY <1>13, <2>1
  <2>2. CASE i \in 19 .. 24
    BY <1>10, <1>11, <1>14, <1>15, <1>16, <2>2
  <2> QED
    BY <2>1, <2>2
<1>18. Len(s) = 24
  BY <1>2 DEF HeaderTable
<1>19. Script(s, W, D)
  <2>1. \A i \in 1 .. Len(s) : Further(s[i], W[i - 1], D[i - 1], W[i], D[i])
    BY <1>17, <1>18
  <2>2. Follows(s, W, D)
    BY <2>1 DEF Follows, Further
  <2>3. W[0] = <<>> /\ D[0] = <<>>
    BY <1>8, <1>10, <1>11
  <2> QED
    BY <2>2, <2>3 DEF Script
<1>20. Sized(b, W)
  <2>1. \A i \in 0 .. 24 : IsSequence(W[i]) /\ Len(W[i]) <= 18
    <3>0. /\ IsSequence(e) /\ IsSequence(rec) /\ IsSequence(all)
          /\ Len(e) <= 18 /\ Len(rec) <= 18 /\ Len(all) <= 18
      BY <1>4, <1>7, <1>9
    <3>1. \A y \in {e, rec, all} : IsSequence(y) /\ Len(y) <= 18
      BY ONLY <3>0
    <3> QED
      BY <1>12, <3>1
  <2>2. Len(W[24]) = 18
    BY <1>7, <1>10
  <2> QED
    BY <1>1, <1>3, <1>18, <2>1, <2>2 DEF Sized
<1>21. \A i \in 1 .. 24 : s[i].reads = {}
  <2>1. s[22].reads = {} /\ s[24].reads = {}
    BY <1>2 DEF HeaderTable, WriteMac, FileCheck, Do
  <2>2. /\ \A i \in 1 .. 18 : s[i].reads = {}
        /\ s[19].reads = {} /\ s[20].reads = {} /\ s[21].reads = {} /\ s[23].reads = {}
    BY <1>2 DEF HeaderTable, Puts
  <2> QED
    BY <2>1, <2>2
<1>22. Heads(b, W[24])
  <2>1. W[24] = rec \o Mac(ShortKey, Field(rec, 1, HeaderSize - HEADER_MAC_SIZE), HEADER_MAC_SIZE)
    BY <1>1, <1>6, <1>10
  <2>2. b.input.passphrase = p
    BY <1>3
  <2>3. Len(b.calls) \in Nat \ {0} /\ b.calls[Len(b.calls)] = FileCheck
    BY <1>1, <1>2, <1>18 DEF HeaderTable
  <2> QED
    BY <1>1, <2>1, <2>2, <2>3 DEF Heads
<1>23. Meant(b, W, D)
  BY <1>1, <1>3, <1>18, <1>20, <1>21, <1>22 DEF Meant
<1> QED
  BY <1>1, <1>19, <1>23 DEF Scripted

(* Every routine follows a script.                                         *)
LEMMA RoutinesScripted ==
  ASSUME NEW b \in Routines
  PROVE  Scripted(b) /\ b.name # "certificate_decrypt"
<1>1. ASSUME FillsItsRecord(b) PROVE Scripted(b) /\ b.name # "certificate_decrypt"
  BY <1>1, FillsScripted DEF FillsItsRecord, Plain, Special
<1>2. CASE b \in EndorseTables
  BY <1>1, <1>2, EndorseTablesFill
<1>3. CASE b \in {CipherMacInit, KeypairCertificateCreate, PubkeyCertificateCreate}
  BY <1>1, <1>3, CipherMacInitQuiet, KeypairCertificateCreateFills, PubkeyCertificateCreateFills
<1>4. ASSUME NEW valid \in BOOLEAN, NEW p \in Passphrases, NEW r \in Rounds, b = HeaderWrite(valid, p, r)
      PROVE  Scripted(b) /\ b.name # "certificate_decrypt"
  <2>1. b.name = "backup_file_encryption_header_write"
    BY <1>4 DEF HeaderWrite, Table
  <2> QED
    BY <1>4, <2>1, HeaderScripted
<1>5. ASSUME NEW c \in Certs, NEW p \in Passphrases, NEW r \in Rounds, b = CertificateEncrypt(c, p, r)
      PROVE  Scripted(b) /\ b.name # "certificate_decrypt"
  <2>1. b.name = "certificate_encrypt"
    BY <1>5 DEF CertificateEncrypt, Table
  <2> QED
    BY <1>5, <2>1, EncryptScripted
<1> QED
  BY <1>2, <1>3, <1>4, <1>5 DEF Routines

(* What holds of the contents of records and files.                        *)
ContentsInv == FileInv /\ ScriptInv /\ RefusedInv

(* It holds of the first routine,                                          *)
LEMMA ContentsInvInit ==
  ASSUME RecordsInit, Disciplined(body)
  PROVE  ContentsInv
<1>1. body \in Routines
  BY DEF RecordsInit, LadderInit
<1>2. Scripted(body) /\ body.name # "certificate_decrypt"
  BY <1>1, RoutinesScripted
<1>3. FileInv
  BY <1>1, <1>2 DEF FileInv
<1> QED
  BY <1>2, <1>3, ScriptInvInit DEF ContentsInv

(* and every step keeps it.                                                *)
LEMMA ContentsInvNext ==
  ASSUME ContentsInv, LadderInv, Disciplined(body), Disciplined(body)', [RecordsNext]_recordVars
  PROVE  ContentsInv'
<1> USE DEF ContentsInv
<1>1. FileInv'
  BY FileInvNext
<1>2. CASE RunCall
  BY <1>1, <1>2, RunCallFollows
<1>3. CASE FailCall
  BY <1>1, <1>3, FailCallFollows
<1>4. CASE CleanUp
  BY <1>1, <1>4, CleanUpFollows
<1>5. CASE ReadBack
  <2>1. PICK p : body' = CertificateDecrypt(stored', p)
    BY <1>5 DEF ReadBack, Enter
  <2>2. WasSealed(original') /\ stored' \in Damaged(original'.bytes)
    BY <1>5, EncryptedIsSealed DEF ReadBack
  <2>3. PICK b, f, s : b = body' /\ f = stored' /\ s = original'
    OBVIOUS
  <2>4. WasSealed(s) /\ f \in Damaged(s.bytes) /\ b = CertificateDecrypt(f, p)
    BY <2>1, <2>2, <2>3
  <2>5. IsSequence(f)
    BY <2>4, DamagedIsSequence
  <2>6. Scripted(b)
    BY <2>4, <2>5, DecryptScripted
  <2>7. Scripted(body') /\ Len(body'.calls) \in Nat
    BY <2>3, <2>6 DEF Disciplined
  <2> QED
    BY <1>1, <1>5, <2>7, ReadBackFollows
<1>6. CASE UNCHANGED recordVars
  <2>1. /\ body' = body /\ at' = at /\ pc' = pc /\ retval' = retval /\ unnoticed' = unnoticed
        /\ written' = written /\ digested' = digested /\ stored' = stored /\ refused' = refused
    BY <1>6 DEF recordVars, ladderVars
  <2>2. AllIsWell' <=> AllIsWell
    BY <2>1 DEF AllIsWell
  <2>3. PICK W, D : /\ Script(body.calls, W, D) /\ Meant(body, W, D)
                    /\ \E n \in 0 .. Len(body.calls) : Stage(W, D, n)
    BY DEF ScriptInv
  <2>4. PICK n \in 0 .. Len(body.calls) : Stage(W, D, n)
    BY <2>3
  <2>5. Passed(body, n)'
    BY <2>1, <2>4 DEF Stage
  <2>6. Stage(W, D, n)'
    BY <2>1, <2>2, <2>4, <2>5 DEF Stage
  <2>7. ScriptInv'
    BY <2>1, <2>3, <2>6 DEF ScriptInv
  <2>8. RefusedInv'
    BY <2>1, <2>2 DEF RefusedInv
  <2> QED
    BY <1>1, <2>7, <2>8
<1> QED
  BY <1>2, <1>3, <1>4, <1>5, <1>6 DEF RecordsNext, Finished

(* A routine writes what its record has room for, and reads what the file  *)
(* has.                                                                    *)
LEMMA SizesFollow ==
  ASSUME ContentsInv, LadderInv, Disciplined(body)
  PROVE  SizesAgree
<1>1. PICK W, D : /\ Script(body.calls, W, D) /\ Meant(body, W, D)
                  /\ \E n \in 0 .. Len(body.calls) : Stage(W, D, n)
  BY DEF ContentsInv, ScriptInv
<1>2. PICK n \in 0 .. Len(body.calls) : Stage(W, D, n)
  BY <1>1
<1>3. Sized(body, W)
  BY <1>1 DEF Meant
<1>4. written = W[n] /\ Passed(body, n)
  BY <1>2 DEF Stage
<1>5. body.size >= 0 => Len(written) <= body.size
  BY <1>3, <1>4 DEF Sized
<1>6. ASSUME Succeeded PROVE Len(written) = body.size
  <2>1. n = Len(body.calls)
    BY <1>2, <1>6 DEF Stage, Succeeded
  <2> QED
    BY <1>3, <1>4, <2>1 DEF Sized
<1>7. ASSUME pc = "calls", at <= Len(body.calls), NEW r \in Call.reads
      PROVE  0 <= r[2] /\ r[1] + r[2] - 1 <= Len(stored)
  <2>1. at \in 1 .. Len(body.calls) /\ Passed(body, at - 1)
    <3>1. Len(body.calls) \in Nat
      BY DEF Disciplined
    <3> QED
      BY <1>2, <1>4, <1>7, <3>1 DEF Stage, LadderInv
  <2>2. CASE body.name # "certificate_decrypt"
    BY <1>1, <1>7, <2>1, <2>2 DEF Meant, Call
  <2>3. CASE body.name = "certificate_decrypt"
    <3>1. PICK s, f, p, b : s = original /\ f = stored /\ p = body.input.passphrase /\ b = body
      OBVIOUS
    <3>2. WasSealed(s) /\ f \in Damaged(s.bytes) /\ b = CertificateDecrypt(f, p)
      BY <2>3, <3>1 DEF ContentsInv, FileInv
    <3>3. IsSequence(f)
      BY <3>2, DamagedIsSequence
    <3>4. Reads(b, f)
      BY <3>2, <3>3, DecryptReads
    <3> QED
      BY <1>7, <2>1, <3>1, <3>4 DEF Reads, Call
  <2> QED
    BY <2>2, <2>3
<1> QED
  BY <1>5, <1>6, <1>7 DEF SizesAgree

(* A header that has been written to the file tells what it should.        *)
LEMMA HeaderFollows ==
  ASSUME ContentsInv
  PROVE  HeaderOpens
<1> SUFFICES ASSUME body.name = "backup_file_encryption_header_write", Succeeded
             PROVE  HeaderOpens
  BY DEF HeaderOpens
<1>1. PICK W, D : /\ Script(body.calls, W, D) /\ Meant(body, W, D)
                  /\ \E n \in 0 .. Len(body.calls) : Stage(W, D, n)
  BY DEF ContentsInv, ScriptInv
<1>2. PICK n \in 0 .. Len(body.calls) : Stage(W, D, n)
  BY <1>1
<1>3. n = Len(body.calls) /\ written = W[n] /\ stored = written
  BY <1>2 DEF Stage, Succeeded
<1>4. PICK y, p : y = stored /\ p = body.input.passphrase
  OBVIOUS
<1>5. IsHeader(y, p)
  <2>1. Heads(body, W[Len(body.calls)])
    BY <1>1 DEF Meant
  <2>2. Heads(body, y)
    BY <1>3, <1>4, <2>1
  <2> QED
    BY <1>4, <2>2 DEF Heads, IsHeader
<1>6. PICK h, k : h = Field(y, 11, 2) /\ k = DerivedKey(p, Field(y, 5, 4), Field(y, 4, 1))
  OBVIOUS
<1>7. PICK x : x = Decrypt(k, Field(y, 9, 2), h) \o Decrypt(k, h, Field(y, 13, 2))
  OBVIOUS
<1>8. Len(y) = 18 /\ x = ShortKey /\ Field(y, 15, 4) = Mac(ShortKey, Field(y, 1, 14), 4)
  BY <1>5, <1>6, <1>7, HeaderTells
<1>9. \A i \in DOMAIN x : x[i][1] = "st_key"
  BY <1>8, HalvesFacts
<1>10. Field(y, 15, 4) = Mac(x, Field(y, 1, 14), 4)
  BY <1>8
<1> QED
  BY <1>4, <1>6, <1>7, <1>8, <1>9, <1>10 DEF HeaderOpens

(* All of this holds together, of every step.                              *)
LEMMA ContentsKept == RecordsSpec => [](Disciplined(body) /\ LadderInv /\ ContentsInv)
<1>1. RecordsInit /\ Disciplined(body) => LadderInv /\ ContentsInv
  BY LadderInvInit, ContentsInvInit DEF RecordsInit
<1>2. LadderInv /\ ContentsInv /\ Disciplined(body) /\ Disciplined(body)' /\ [RecordsNext]_recordVars
        => LadderInv' /\ ContentsInv'
  BY RecordsStepKeeps, ContentsInvNext
<1> QED
  BY <1>1, <1>2, TablesAreDisciplined, PTL DEF RecordsSpec

(* Records are never written past their end and files never read past      *)
(* theirs, and what succeeds has filled its record; whatever the sizes of  *)
(* keys, ivs and MACs are, and whatever has happened to the file.          *)
THEOREM SizesAlwaysAgree == RecordsSpec => []SizesAgree
<1>1. Disciplined(body) /\ LadderInv /\ ContentsInv => SizesAgree
  BY SizesFollow
<1> QED
  BY <1>1, ContentsKept, PTL

(* An encrypted certificate opens just when it is, byte for byte, one that *)
(* was sealed and the passphrase is the one it was sealed with; then what  *)
(* comes out is what was sealed, and otherwise a check refuses it before   *)
(* any of it is decrypted.                                                 *)
THEOREM OnlyTheSealedOpens == RecordsSpec => []OpensWhatWasSealed
<1>1. ContentsInv => OpensWhatWasSealed
  BY OpensFollows DEF ContentsInv
<1> QED
  BY <1>1, ContentsKept, PTL

(* When backup_file_encryption_header_write succeeds all of the header is  *)
(* in the file, and the passphrase is enough to get at the short-term key  *)
(* and to see that nothing of the header was changed.                      *)
THEOREM HeadersOpen == RecordsSpec => []HeaderOpens
<1>1. ContentsInv => HeaderOpens
  BY HeaderFollows
<1> QED
  BY <1>1, ContentsKept, PTL
=============================================================================
