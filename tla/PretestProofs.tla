-------------------------- MODULE PretestProofs --------------------------
(***************************************************************************)
(* Proofs about Pretest, for every hardware list and event number.         *)
(***************************************************************************)
EXTENDS Pretest, FiniteSetTheorems, TLAPS

\* Eleven calls of check_scripts, for eleven items
LEMMA ChecksFacts == Len(Checks) = 11 /\ \A c \in 1 .. 11 : Checks[c] \in Checked
<1>1. Len(Checks) = 11
  BY DEF Checks
<1> QED
  BY <1>1 DEF Checked

LEMMA ChecksDistinct ==
  \A a, b \in 1 .. 11 : Checks[a] = Checks[b] => a = b
BY DEF Checks

LEMMA ListFacts == Len(HardwareList) \in Nat /\ Items = 1 .. Len(HardwareList)
BY ListAssumption DEF Items

---------------------------------------------------------------------------
(* Types.  check stays in its range because the scripts and the loop over   *)
(* the items run only inside it.                                            *)

Control ==
  /\ pc \in {"items", "script"} => check \in 1 .. Len(Checks)
  /\ pc = "script" => k \in Items /\ HardwareList[k] = Checks[check]

TypeInv == TypeOK /\ Control

LEMMA TypeInit == Init => TypeInv
<1> SUFFICES ASSUME Init PROVE TypeInv
  OBVIOUS
<1>1. /\ touchscreen \in {"registered", "absent"}
      /\ log \in [listed : {"yes", "no"}, event : Devices \cup {"none"}]
  BY DEF Init, NoLog
<1>2. runs \in [Items -> {"untested", "passed", "failed"}]
  BY DEF Init
<1>3. failures \in Seq(Checked)
  BY DEF Init
<1>4. check \in 0 .. LastTouch /\ k \in 1 .. Len(HardwareList) + 1
  BY ChecksFacts, ListFacts DEF Init, LastTouch
<1> QED
  BY <1>1, <1>2, <1>3, <1>4 DEF Init, TypeInv, TypeOK, Control, Statuses

LEMMA StatusIsByte == ExitStatus(TsNum) = TsNum /\ ExitStatus(-1) = 255
<1>1. ExitStatus(TsNum) = TsNum
  BY NumberAssumption DEF ExitStatus
<1>2. ExitStatus(-1) = 255
  BY DEF ExitStatus
<1> QED
  BY <1>1, <1>2

LEMMA TypeStep == TypeInv /\ [Next]_vars => TypeInv'
<1> SUFFICES ASSUME TypeInv, [Next]_vars PROVE TypeInv'
  OBVIOUS
<1> USE DEF TypeInv
<1>1. CASE Register
  BY <1>1 DEF Register, touching, checking, TypeOK, Control
<1>2. CASE SkipItem
  <2>1. k' \in 1 .. Len(HardwareList) + 1
    BY <1>2, ListFacts DEF SkipItem
  <2> QED
    BY <1>2, <2>1 DEF SkipItem, system, touching, TypeOK, Control
<1>3. CASE StartScript
  BY <1>3 DEF StartScript, system, touching, checking, TypeOK, Control
<1>4. ASSUME NEW s \in Statuses, ScriptReturns(s) PROVE TypeInv'
  <2>1. k' \in 1 .. Len(HardwareList) + 1
    BY <1>4, ListFacts DEF ScriptReturns, Control
  <2>2. runs' \in [Items -> {"untested", "passed", "failed"}]
    BY <1>4 DEF ScriptReturns, TypeOK
  <2>3. failed_count' \in Nat
    BY <1>4 DEF ScriptReturns, TypeOK
  <2> QED
    BY <1>4, <2>1, <2>2, <2>3 DEF ScriptReturns, system, touching, TypeOK, Control
<1>5. CASE CheckReturns
  <2>1. check \in 1 .. Len(Checks)
    BY <1>5 DEF CheckReturns, Control
  <2>2. failures' \in Seq(Checked)
    BY <1>5, <2>1, ChecksFacts, SMTT(60) DEF CheckReturns, TypeOK
  <2>3. /\ check' \in 0 .. LastTouch /\ k' \in 1 .. Len(HardwareList) + 1
        /\ pc' = "items" => check' \in 1 .. Len(Checks)
    BY <1>5, <2>1, ChecksFacts, ListFacts DEF CheckReturns, LastTouch
  <2> QED
    BY <1>5, <2>2, <2>3 DEF CheckReturns, system, touching, TypeOK, Control, Statuses
<1>6. ASSUME NEW d \in Devices, GetEvent(d) PROVE TypeInv'
  <2>1. eventnum' \in {-1, TsNum, 255}
    BY <1>6, StatusIsByte DEF GetEvent, test_eventnum, TypeOK
  <2>2. log' \in [listed : {"yes", "no"}, event : Devices \cup {"none"}]
    BY <1>6 DEF GetEvent
  <2>3. /\ check' \in 0 .. LastTouch /\ k' \in 1 .. Len(HardwareList) + 1
        /\ pc' \in {"again", "items", "passed"}
        /\ pc' = "items" => check' \in 1 .. Len(Checks)
    BY <1>6, ChecksFacts, ListFacts, SMTT(60) DEF GetEvent, TouchSeen, TypeOK, LastTouch
  <2>4. confirmed' \in {"none", "some"}
    BY <1>6 DEF GetEvent, TypeOK
  <2> QED
    BY <1>6, <2>1, <2>2, <2>3, <2>4 DEF GetEvent, system, TypeOK, Control
<1>7. CASE UNCHANGED vars
  BY <1>7 DEF vars, system, touching, checking, TypeOK, Control
<1> QED
  BY <1>1, <1>2, <1>3, <1>4, <1>5, <1>6, <1>7 DEF Next, Run

LEMMA TypeInvariant == Spec => []TypeInv
BY TypeInit, TypeStep, PTL DEF Spec

\* The variables of the script keep their types for every hardware list; the
\* checks are counted through once, and a script runs only for an item of its
\* check (pretest.sh:91-101).
THEOREM TypeCorrect == Spec => []TypeOK
<1>1. TypeInv => TypeOK
  BY DEF TypeInv
<1> QED
  BY <1>1, TypeInvariant, PTL

---------------------------------------------------------------------------
(* What a script finds: checktouch is left only with a log of the touch.    *)

TouchInv == pc \in {"items", "script"} => log.listed = "yes" /\ confirmed = "some"

LEMMA TouchStep == TypeInv /\ TouchInv /\ [Next]_vars => TouchInv'
<1> SUFFICES ASSUME TypeInv, TouchInv, [Next]_vars PROVE TouchInv'
  OBVIOUS
<1> USE DEF TouchInv
<1>1. CASE Register
  BY <1>1 DEF Register, touching
<1>2. CASE SkipItem \/ StartScript
  BY <1>2 DEF SkipItem, StartScript, touching
<1>3. ASSUME NEW s \in Statuses, ScriptReturns(s) PROVE TouchInv'
  BY <1>3 DEF ScriptReturns
<1>4. CASE CheckReturns
  BY <1>4 DEF CheckReturns, touching
<1>5. ASSUME NEW d \in Devices, GetEvent(d) PROVE TouchInv'
  <2>1. CASE d = "touchscreen"
    BY <1>5, <2>1 DEF GetEvent
  <2>2. CASE d # "touchscreen"
    BY <1>5, <2>2 DEF GetEvent
  <2> QED
    BY <2>1, <2>2
<1>6. CASE UNCHANGED vars
  BY <1>6 DEF vars, touching
<1> QED
  BY <1>1, <1>2, <1>3, <1>4, <1>5, <1>6 DEF Next, Run

LEMMA TouchInvariant == Spec => []TouchInv
<1>1. Init => TouchInv
  BY DEF Init, TouchInv
<1> QED
  BY <1>1, TouchStep, TypeInvariant, PTL DEF Spec

\* The log that the current test of a script reads lists the touch screen,
\* however late its driver registers (pretest.sh:60-78).
THEOREM ScriptFindsTouchscreenCorrect == Spec => []ScriptFindsTouchscreen
<1>1. TouchInv => ScriptFindsTouchscreen
  BY DEF TouchInv, ScriptFindsTouchscreen
<1> QED
  BY <1>1, TouchInvariant, PTL

\* No script starts before a touch that came after the last script
\* (pretest.sh:99, 116).
THEOREM StartsAfterTouchCorrect == Spec => []StartsAfterTouch
<1>1. TouchInv => StartsAfterTouch
  BY DEF TouchInv, StartsAfterTouch
<1> QED
  BY <1>1, TouchInvariant, PTL

---------------------------------------------------------------------------
(* "pretest pass".  Every item the loops have been over has run; no count   *)
(* means no failure; and the last touch is asked for only without a count.  *)

Tested(c, i) == c < check \/ (c = check /\ i < k)

PassInv ==
  /\ \A i \in Items : runs[i] = "failed" => failed_count > 0
  /\ \A i \in Items, c \in 1 .. Len(Checks) :
       Checks[c] = HardwareList[i] /\ Tested(c, i) => runs[i] # "untested"
  /\ check = LastTouch /\ pc # "hang" => failed_count = 0
  /\ pc = "passed" => check = LastTouch

LEMMA PassStep == TypeInv /\ PassInv /\ [Next]_vars => PassInv'
<1> SUFFICES ASSUME TypeInv, PassInv, [Next]_vars PROVE PassInv'
  OBVIOUS
<1> USE ChecksFacts, ListFacts DEF TypeInv, TypeOK, Control, LastTouch, Tested, PassInv
<1>1. CASE Register
  BY <1>1, SMTT(60) DEF Register, checking
<1>2. CASE SkipItem
  <2>1. \A i \in Items, c \in 1 .. Len(Checks) :
          Checks[c] = HardwareList[i] /\ Tested(c, i)' => Tested(c, i)
    BY <1>2, SMTT(60) DEF SkipItem
  <2> QED
    BY <1>2, <2>1, SMTT(60) DEF SkipItem
<1>3. CASE StartScript
  BY <1>3 DEF StartScript, checking
<1>4. ASSUME NEW s \in Statuses, ScriptReturns(s) PROVE PassInv'
  <2>1. k \in Items /\ check \in 1 .. Len(Checks) /\ check' = check
    BY <1>4 DEF ScriptReturns
  <2>2. \A i \in Items, c \in 1 .. Len(Checks) : Tested(c, i)' => Tested(c, i) \/ i = k
    BY <1>4, <2>1 DEF ScriptReturns
  <2>3. \A i \in Items : runs'[i] = IF i = k THEN IF s = 0 THEN "passed" ELSE "failed"
                                    ELSE runs[i]
    BY <1>4 DEF ScriptReturns
  <2>4. \A i \in Items : runs'[i] = "failed" => failed_count' > 0
    BY <1>4, <2>3 DEF ScriptReturns
  <2>5. check' # LastTouch /\ pc' # "passed"
    BY <1>4, <2>1 DEF ScriptReturns
  <2>6. \A i \in Items, c \in 1 .. Len(Checks) :
          Checks[c] = HardwareList[i] /\ Tested(c, i)' => runs'[i] # "untested"
    BY <2>2, <2>3, SMTT(60)
  <2> QED
    BY <2>4, <2>5, <2>6
<1>5. CASE CheckReturns
  <2>1. \A i \in Items : i < k
    BY <1>5 DEF CheckReturns
  <2>2. check' = check + 1 /\ k' = 1 /\ check \in Nat
    BY <1>5 DEF CheckReturns
  <2>3. \A i \in Items, c \in 1 .. Len(Checks) : Tested(c, i)' => Tested(c, i)
    BY <2>1, <2>2, SMTT(60)
  <2>4. check' = LastTouch /\ pc' # "hang" => failed_count' = 0
    BY <1>5, SMTT(60) DEF CheckReturns
  <2> QED
    BY <1>5, <2>3, <2>4, SMTT(60) DEF CheckReturns
<1>6. ASSUME NEW d \in Devices, GetEvent(d) PROVE PassInv'
  <2>1. runs' = runs /\ failed_count' = failed_count /\ pc # "hang"
    BY <1>6 DEF GetEvent
  <2>2. \/ check' = check /\ k' = k
        \/ check = 0 /\ check' = 1 /\ k' = 1 /\ pc' = "items"
    BY <1>6, SMTT(60) DEF GetEvent, TouchSeen
  <2>3. pc' = "passed" => check' = LastTouch
    BY <1>6 DEF GetEvent, TouchSeen
  <2>4. \A i \in Items, c \in 1 .. Len(Checks) : Tested(c, i)' => Tested(c, i)
    BY <2>2, SMTT(60)
  <2>5. check' = LastTouch => check = LastTouch
    BY <2>2
  <2> QED
    BY <2>1, <2>3, <2>4, <2>5, SMTT(60)
<1>7. CASE UNCHANGED vars
  BY <1>7, SMTT(60) DEF vars, checking
<1> QED
  BY <1>1, <1>2, <1>3, <1>4, <1>5, <1>6, <1>7 DEF Next, Run

\* The watch passes only when every listed item that has a check was tested
\* and no script failed, for every hardware list, items listed twice included
\* (pretest.sh:216, 247).
THEOREM PassCorrect == Spec => []PassMeansAllPassed
<1>1. Init => PassInv
  BY ChecksFacts, ListFacts DEF Init, PassInv, Tested, LastTouch
<1>2. TypeInv /\ PassInv => PassMeansAllPassed
  <2> SUFFICES ASSUME TypeInv, PassInv, pc = "passed",
                      NEW i \in Items, NEW c \in 1 .. Len(Checks),
                      Checks[c] = HardwareList[i]
               PROVE  runs[i] = "passed"
    BY DEF PassMeansAllPassed, Checked
  <2>1. runs[i] # "untested"
    BY ChecksFacts DEF PassInv, Tested, LastTouch
  <2>2. runs[i] # "failed"
    BY DEF PassInv
  <2> QED
    BY <2>1, <2>2 DEF TypeInv, TypeOK
<1> QED
  BY <1>1, <1>2, PassStep, TypeInvariant, PTL DEF Spec

---------------------------------------------------------------------------
(* The failures shown and the count.  err is the result of the last script  *)
(* of the present check; $@ names the checks before it whose last script    *)
(* failed; the count is the number of failed scripts, repeated items        *)
(* included.                                                                *)

FailedItems == {i \in Items : runs[i] = "failed"}
Named(c) == Shown(Checks[c])

\* Of the items before n with this check, the last one has failed.
LastFailed(c, n) ==
  \E i \in Items : /\ i < n /\ runs[i] = "failed" /\ HardwareList[i] = Checks[c]
                   /\ \A j \in Items : i < j /\ j < n => HardwareList[j] # Checks[c]

End == Len(HardwareList) + 1

NamedInv ==
  /\ err # 0 <=> check \in 1 .. 11 /\ LastFailed(check, k)
  /\ \A c \in 1 .. 11 : Named(c) <=> c < check /\ LastFailed(c, End)
  /\ failed_count = Cardinality(FailedItems)
  /\ \A i \in Items : runs[i] # "untested" =>
       \E c \in 1 .. 11 : Checks[c] = HardwareList[i] /\ Tested(c, i)

\* A script that ends changes the result of item k only, and this item belongs
\* to the present check.
LEMMA NamedScript ==
  ASSUME TypeInv, NamedInv, NEW s \in Statuses, ScriptReturns(s)
  PROVE  NamedInv'
<1>1. /\ k \in Items /\ check \in 1 .. 11 /\ HardwareList[k] = Checks[check]
      /\ k' = k + 1 /\ check' = check /\ failures' = failures /\ err' = s
      /\ k \in Nat /\ Items \subseteq Nat
  BY ChecksFacts, ListFacts, SMTT(60) DEF ScriptReturns, TypeInv, Control
<1>2. /\ \A i \in Items : i # k => runs'[i] = runs[i]
      /\ runs'[k] = "failed" <=> s # 0
  BY <1>1 DEF ScriptReturns, TypeInv, TypeOK
<1>3. runs[k] = "untested"
  <2> SUFFICES ASSUME NEW c \in 1 .. 11, Checks[c] = HardwareList[k], Tested(c, k)
               PROVE  FALSE
    BY <1>1 DEF NamedInv
  <2>1. c = check
    BY <1>1, ChecksDistinct
  <2> QED
    BY <1>1, <2>1 DEF Tested
<1>4. err' # 0 <=> LastFailed(check, k)'
  <2>1. CASE s # 0
    BY <1>1, <1>2, <2>1 DEF LastFailed
  <2>2. CASE s = 0
    <3> SUFFICES ASSUME NEW i \in Items, i < k + 1, runs'[i] = "failed",
                        \A j \in Items : i < j /\ j < k + 1 => HardwareList[j] # Checks[check]
                 PROVE  FALSE
      BY <1>1, <2>2 DEF LastFailed
    <3>1. i # k
      BY <1>2, <2>2
    <3>2. i < k /\ k < k + 1
      BY <1>1, <3>1
    <3> QED
      BY <1>1, <3>2
  <2> QED
    BY <2>1, <2>2
<1>5. (\A c \in 1 .. 11 : Named(c) <=> c < check /\ LastFailed(c, End))'
  <2> SUFFICES ASSUME NEW c \in 1 .. 11
               PROVE  Named(c) <=> c < check /\ LastFailed(c, End)'
    BY <1>1 DEF Named, Shown
  <2>1. ASSUME c < check PROVE LastFailed(c, End)' <=> LastFailed(c, End)
    <3>1. HardwareList[k] # Checks[c]
      BY <1>1, <2>1, ChecksDistinct
    <3> QED
      BY <1>2, <3>1 DEF LastFailed, End
  <2> QED
    BY <2>1 DEF NamedInv
<1>6. failed_count' = Cardinality(FailedItems')
  <2>1. IsFiniteSet(FailedItems)
    <3>1. IsFiniteSet(Items)
      BY ListFacts, FS_Interval
    <3> QED
      BY <3>1, FS_Subset DEF FailedItems
  <2>2. k \notin FailedItems
    BY <1>3 DEF FailedItems
  <2>3. CASE s # 0
    <3>1. FailedItems' = FailedItems \cup {k}
      BY <1>1, <1>2, <2>3 DEF FailedItems
    <3>2. Cardinality(FailedItems') = Cardinality(FailedItems) + 1
      BY <2>1, <2>2, <3>1, FS_AddElement
    <3> QED
      BY <2>3, <3>2 DEF NamedInv, ScriptReturns
  <2>4. CASE s = 0
    <3>1. FailedItems' = FailedItems
      BY <1>1, <1>2, <1>3, <2>4 DEF FailedItems
    <3> QED
      BY <2>4, <3>1 DEF NamedInv, ScriptReturns
  <2> QED
    BY <2>3, <2>4
<1>7. (\A i \in Items : runs[i] # "untested" =>
         \E c \in 1 .. 11 : Checks[c] = HardwareList[i] /\ Tested(c, i))'
  <2> SUFFICES ASSUME NEW i \in Items, runs'[i] # "untested"
               PROVE  \E c \in 1 .. 11 : Checks[c] = HardwareList[i] /\ Tested(c, i)'
    OBVIOUS
  <2>1. CASE i = k
    BY <1>1, <2>1 DEF Tested
  <2>2. CASE i # k
    <3>1. \A c \in 1 .. 11 : Tested(c, i) => Tested(c, i)'
      BY <1>1 DEF Tested
    <3> QED
      BY <1>2, <2>2, <3>1 DEF NamedInv
  <2> QED
    BY <2>1, <2>2
<1> QED
  BY <1>1, <1>4, <1>5, <1>6, <1>7 DEF NamedInv

LEMMA NamedReturn ==
  ASSUME TypeInv, NamedInv, CheckReturns
  PROVE  NamedInv'
<1>1. /\ check \in 1 .. 11 /\ check' = check + 1 /\ k' = 1 /\ err' = 0
      /\ runs' = runs /\ failed_count' = failed_count
      /\ failures' = IF err # 0 THEN Append(failures, Checks[check]) ELSE failures
  BY ChecksFacts DEF CheckReturns, TypeInv, Control
<1>2. k = End /\ \A i \in Items : i < k /\ ~(i < 1)
  BY ListFacts DEF CheckReturns, TypeInv, TypeOK, End
<1>3. ~ LastFailed(check, k)'
  BY <1>1, <1>2 DEF LastFailed
<1>4. failures \in Seq(Checked) /\ Checks[check] \in Checked
  BY <1>1, ChecksFacts DEF TypeInv, TypeOK
<1>5. \A c \in 1 .. 11 : Named(c)' <=> Named(c) \/ (err # 0 /\ c = check)
  <2>1. CASE err = 0
    BY <1>1, <2>1 DEF Named, Shown
  <2>2. CASE err # 0
    <3>1. /\ Len(failures') = Len(failures) + 1 /\ Len(failures) \in Nat
          /\ failures'[Len(failures) + 1] = Checks[check]
          /\ \A f \in 1 .. Len(failures) : failures'[f] = failures[f]
      BY <1>1, <1>4, <2>2
    <3>2. \A c \in 1 .. 11 : Named(c)' <=> Named(c) \/ Checks[check] = Checks[c]
      BY <3>1 DEF Named, Shown
    <3> QED
      BY <1>1, <2>2, <3>2, ChecksDistinct
  <2> QED
    BY <2>1, <2>2
<1>6. err # 0 <=> LastFailed(check, End)
  BY <1>1, <1>2 DEF NamedInv
<1>7. (\A c \in 1 .. 11 : Named(c) <=> c < check /\ LastFailed(c, End))'
  <2> SUFFICES ASSUME NEW c \in 1 .. 11
               PROVE  Named(c)' <=> c < check + 1 /\ LastFailed(c, End)
    BY <1>1 DEF LastFailed, End
  <2>1. Named(c) <=> c < check /\ LastFailed(c, End)
    BY DEF NamedInv
  <2>2. c < check + 1 <=> c < check \/ c = check
    BY <1>1
  <2> QED
    BY <1>5, <1>6, <2>1, <2>2
<1>8. failed_count' = Cardinality(FailedItems')
  BY <1>1 DEF NamedInv, FailedItems
<1>9. (\A i \in Items : runs[i] # "untested" =>
         \E c \in 1 .. 11 : Checks[c] = HardwareList[i] /\ Tested(c, i))'
  BY <1>1 DEF NamedInv, Tested
<1> QED
  BY <1>1, <1>3, <1>7, <1>8, <1>9 DEF NamedInv

\* What leaves the items, the results and the failures alone keeps NamedInv.
LEMMA NamedFrame ==
  ASSUME TypeInv, NamedInv, UNCHANGED <<err, failed_count, failures, runs, check>>,
         k' = k
  PROVE  NamedInv'
BY DEF NamedInv, Named, Shown, FailedItems, LastFailed, Tested, End

\* Small as it is, the provers want it apart.
LEMMA StillLess == \A m, n \in Nat : m < n => m < n + 1
  OBVIOUS

\* An item of another check is passed over.
LEMMA NamedSkip ==
  ASSUME TypeInv, NamedInv, SkipItem
  PROVE  NamedInv'
<1>1. /\ UNCHANGED <<err, failed_count, failures, runs, check>>
      /\ k' = k + 1 /\ k \in Items /\ HardwareList[k] # Checks[check]
      /\ k \in Nat /\ Items \subseteq Nat
  BY ListFacts DEF SkipItem
<1>2. LastFailed(check, k)' <=> LastFailed(check, k)
  <2>1. \A i \in Items : i < k + 1 <=> i < k \/ i = k
    BY <1>1
  <2> QED
    BY <1>1, <2>1 DEF LastFailed
<1>3. \A c \in 1 .. 11, i \in Items : Tested(c, i) => Tested(c, i)'
  <2>1. k \in Nat /\ Items \subseteq Nat
    BY <1>1
  <2>2. \A i \in Items : i < k => i < k + 1
    BY <2>1, StillLess
  <2>3. check' = check /\ k' = k + 1
    BY <1>1
  <2> QED
    BY <2>2, <2>3 DEF Tested
<1>4. (\A i \in Items : runs[i] # "untested" =>
         \E c \in 1 .. 11 : Checks[c] = HardwareList[i] /\ Tested(c, i))'
  BY <1>1, <1>3 DEF NamedInv
<1>5. (\A c \in 1 .. 11 : Named(c) <=> c < check /\ LastFailed(c, End))'
  BY <1>1 DEF NamedInv, Named, Shown, LastFailed, End
<1> QED
  BY <1>1, <1>2, <1>4, <1>5 DEF NamedInv, FailedItems

\* The first touch starts the first check.
LEMMA NamedBegins ==
  ASSUME TypeInv, NamedInv, UNCHANGED <<err, failed_count, failures, runs>>,
         check = 0, check' = 1, k' = 1
  PROVE  NamedInv'
<1>1. \A i \in Items : ~(i < 1)
  BY ListFacts
<1>2. err' = 0 /\ ~ LastFailed(check, k)'
  BY <1>1 DEF NamedInv, LastFailed
<1>3. \A i \in Items : runs'[i] = "untested"
  <2>1. \A c \in 1 .. 11, i \in Items : ~ Tested(c, i)
    BY DEF Tested
  <2> QED
    BY <2>1 DEF NamedInv
<1>4. (\A c \in 1 .. 11 : Named(c) <=> c < check /\ LastFailed(c, End))'
  <2>1. \A c \in 1 .. 11 : ~ Named(c)
    BY DEF NamedInv
  <2>2. \A c \in 1 .. 11 : ~ (c < check')
    OBVIOUS
  <2> QED
    BY <2>1, <2>2 DEF Named, Shown
<1>5. failed_count' = Cardinality(FailedItems')
  BY DEF NamedInv, FailedItems
<1> QED
  BY <1>2, <1>3, <1>4, <1>5 DEF NamedInv, FailedItems

LEMMA NamedStep == TypeInv /\ NamedInv /\ [Next]_vars => NamedInv'
<1> SUFFICES ASSUME TypeInv, NamedInv, [Next]_vars PROVE NamedInv'
  OBVIOUS
<1>1. CASE Register \/ StartScript
  BY <1>1, NamedFrame DEF Register, StartScript, checking
<1>2. ASSUME NEW d \in Devices, GetEvent(d) PROVE NamedInv'
  <2>1. UNCHANGED <<err, failed_count, failures, runs>>
    BY <1>2 DEF GetEvent
  <2>2. \/ check' = check /\ k' = k
        \/ check = 0 /\ check' = 1 /\ k' = 1
    BY <1>2 DEF GetEvent, TouchSeen
  <2> QED
    BY <2>1, <2>2, NamedFrame, NamedBegins
<1>3. CASE UNCHANGED vars
  BY <1>3, NamedFrame DEF vars, checking
<1> QED
  BY <1>1, <1>2, <1>3, NamedSkip, NamedScript, NamedReturn DEF Next, Run

\* For every hardware list the count is the number of failed scripts, what is shown
\* failed, and what is listed once and failed is shown (pretest.sh:90-120, 211-216).
THEOREM FailuresNamedCorrect == Spec => []FailuresNamed
<1>1. Init => NamedInv
  <2> SUFFICES ASSUME Init PROVE NamedInv
    OBVIOUS
  <2>1. FailedItems = {} /\ failed_count = 0
    BY DEF Init, FailedItems
  <2>2. failed_count = Cardinality(FailedItems)
    BY <2>1, FS_EmptySet
  <2> QED
    BY <2>2 DEF Init, NamedInv, Named, Shown, LastFailed
<1>2. TypeInv /\ NamedInv => FailuresNamed
  <2> SUFFICES ASSUME TypeInv, NamedInv, check = LastTouch PROVE FailuresNamed
    BY DEF FailuresNamed
  <2>1. check = 12
    BY ChecksFacts DEF LastTouch
  <2>2. \A i \in Items : i < End
    BY ListFacts DEF End
  <2>3. \A c \in 1 .. 11 : Named(c) <=> LastFailed(c, End)
    BY <2>1 DEF NamedInv
  <2>4. \A c \in 1 .. 11 : Named(c) => \E i \in Items : /\ runs[i] = "failed"
                                                         /\ HardwareList[i] = Checks[c]
    BY <2>3 DEF LastFailed
  <2>5. ASSUME NEW i \in Items, runs[i] = "failed",
               \A j \in Items \ {i} : HardwareList[j] # HardwareList[i]
        PROVE  Shown(HardwareList[i])
    <3>1. PICK c \in 1 .. 11 : Checks[c] = HardwareList[i]
      BY <2>5 DEF NamedInv
    <3>2. \A j \in Items : i < j => j # i
      BY ListFacts
    <3>3. LastFailed(c, End)
      BY <2>2, <2>5, <3>1, <3>2 DEF LastFailed
    <3> QED
      BY <2>3, <3>1, <3>3 DEF Named
  <2> QED
    BY <2>4, <2>5, ChecksFacts DEF FailuresNamed, Named, NamedInv, FailedItems
<1> QED
  BY <1>1, <1>2, NamedStep, TypeInvariant, PTL DEF Spec
===========================================================================
