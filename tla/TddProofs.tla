----------------------------- MODULE TddProofs ------------------------------
(***************************************************************************)
(* Proofs about TddLoop, for any number of items of any shapes, iterations  *)
(* and drives.                                                              *)
(***************************************************************************)
EXTENDS TddLoop, WellFoundedInduction, FiniteSetTheorems, TLAPS

(* A set of natural numbers that is not empty has a least element.          *)
LEMMA FirstOf ==
    ASSUME NEW T \in SUBSET Nat, T # {}
    PROVE  \E x \in T : \A y \in T : x <= y
  <1> DEFINE R == OpToRel(<, Nat)
  <1>1. IsWellFoundedOn(R, Nat)
    BY NatLessThanWellFounded
  <1>2. PICK x \in T : \A y \in T : ~ (<<y, x>> \in R)
    <2> HIDE DEF R
    <2> QED
      BY <1>1, WFMin
  <1>3. \A y \in T : ~ (y < x)
    BY <1>2 DEF OpToRel
  <1> QED
    BY <1>3

Run == [item : Items, phase : Phases, iteration : 1..MaxIterations,
        status : {"running", "passed", "failed"}]

Loop == [at : {"idle", "reading", "next", "started", "ran", "recorded", "axe",
               "resolved", "browsing", "returned", "evaluated", "done"},
         iteration : 0..MaxIterations, items : SUBSET Items, todo : SUBSET Items,
         phase : Phases, logicPassed : BOOLEAN, failed : BOOLEAN,
         run : 0..Len(runs), answer : {"none", "passed", "failed", "blocked"},
         outcome : Returned \cup {"none"}]

(* Inside an iteration, and while the current item has a row of the phase.  *)
Working == {"next", "started", "ran", "recorded", "axe", "resolved", "browsing"}
HasRow == {"started", "ran", "recorded", "axe"}

NoneApproved == \A i \in Items : status[i] # "approved"

(* Where the loop is, and what it holds there.                              *)
Placed ==
    /\ loop.at \in Working =>
         /\ loop.iteration = 1 /\ loop.todo \subseteq loop.items
         /\ \A i \in Items : status[i] = "approved" => i \in loop.items
    /\ loop.at \in Working \ {"next"} => loop.todo # {}
    /\ loop.at \in {"started", "ran", "recorded"} => item[Current].command
    /\ loop.at \in {"axe", "resolved", "browsing"} =>
         loop.phase = "post_green" /\ ~item[Current].command
    /\ loop.at \in HasRow =>
         /\ loop.run = Len(runs) /\ loop.run > 0
         /\ runs[loop.run].item = Current /\ runs[loop.run].phase = loop.phase
    /\ loop.at \in {"ran", "recorded"} =>
         loop.answer \in {"passed", "failed"} /\ logs[Current] = loop.run
    /\ loop.at = "recorded" =>
         /\ runs[loop.run].status = loop.answer
         /\ status[Current] = IF loop.answer = "passed" THEN "green" ELSE "failed"
    /\ loop.at = "resolved" => loop.answer \in {"passed", "blocked"}
    /\ loop.at \in {"returned", "evaluated"} => loop.iteration = 1 /\ NoneApproved
    /\ loop.at = "reading" => loop.iteration = 1 \/ NoneApproved

(* An item that is approved was never tried, a row names an item and phase  *)
(* of its own, and all of them an iteration that is the first.              *)
Once ==
    /\ \A i \in Items : status[i] = "approved" =>
         results[i] = <<>> /\ \A r \in 1..Len(runs) : runs[r].item # i
    /\ \A q, r \in 1..Len(runs) :
         runs[q].item = runs[r].item /\ runs[q].phase = runs[r].phase => q = r
    /\ \A i \in Items : Len(results[i]) <= 1
    /\ \A r \in 1..Len(runs) : runs[r].iteration = 1

(* Nothing of an item ran after the edits.                                  *)
NotAfter(i) ==
    /\ results[i] = <<>>
    /\ \A r \in 1..Len(runs) : runs[r].item = i => runs[r].phase = "pre_red"

(* It ran before them; a logic item failed.                                 *)
RedOf(i) ==
    \E red \in 1..Len(runs) :
      /\ runs[red].item = i /\ runs[red].phase = "pre_red"
      /\ IsLogic(item[i]) => runs[red].status = "failed"

(* And then it passed.                                                      *)
Turned(i) ==
    \E red, green \in 1..Len(runs) :
      /\ runs[red].item = i /\ runs[red].phase = "pre_red"
      /\ runs[green].item = i /\ runs[green].phase = "post_green"
      /\ red < green /\ runs[green].status = "passed"
      /\ IsLogic(item[i]) => runs[red].status = "failed"

Settled(i) == status[i] = "green" /\ (item[i].command => Turned(i))

(* An item whose turn in this phase is still to come.                       *)
Ahead(i) == i \in loop.todo /\ ~(loop.at \in HasRow /\ i = Current)

BeforeTheEdits ==
    loop.at \in Working /\ loop.phase = "pre_red" =>
      /\ \A i \in loop.todo : item[i].command
      /\ \A i \in loop.items : NotAfter(i)
      /\ \A i \in loop.items : Ahead(i) \/ ~item[i].command => status[i] = "approved"
      /\ ~loop.logicPassed =>
           \A i \in loop.items \ loop.todo : item[i].command => RedOf(i)

AfterTheEdits ==
    loop.at \in Working /\ loop.phase = "post_green" =>
      /\ \A i \in loop.items : item[i].command => RedOf(i)
      /\ \A i \in loop.items : Ahead(i) => NotAfter(i)
      /\ \A i \in loop.items \ loop.todo : status[i] # "approved"
      /\ ~loop.failed => \A i \in loop.items \ loop.todo : Settled(i)

(* What a loop that is over says of its items.                              *)
Over ==
    /\ loop.outcome = "passed" => loop.at = "done" /\ \A i \in loop.items : Settled(i)
    /\ loop.outcome = "tdd_invariant_violated" =>
         loop.at = "done" /\ \A i \in loop.items : NotAfter(i)

(* The first loop takes every item.                                         *)
FirstDrive ==
    /\ drives = 0 => loop = NotDriven /\ runs = <<>>
    /\ drives = 0 \/ (drives = 1 /\ loop.at = "reading" /\ loop.iteration = 1) =>
         \A i \in Items : status[i] = "approved"
    /\ drives = 1 /\ (loop.at \in Working \/ loop.outcome = "passed") => loop.items = Items

(* Finished rows of commands are in their directories.                      *)
Finished(r) == item[runs[r].item].command /\ runs[r].status # "running"

Files ==
    /\ \A i \in Items : meta[i] <= logs[i]
    /\ \A r \in 1..Len(runs) : Finished(r) =>
         /\ r <= logs[runs[r].item]
         /\ drives = 1 /\ loop.at \notin {"idle", "done"} =>
              r <= meta[runs[r].item] \/ (loop.at = "recorded" /\ r = loop.run)

TddInv ==
    /\ TypeOK /\ Placed /\ Once /\ BeforeTheEdits /\ AfterTheEdits /\ Over
    /\ FirstDrive /\ Files

-----------------------------------------------------------------------------
(* The beginning *)

LEMMA Constants ==
    /\ N \in Nat \ {0} /\ Shapes \subseteq Shape /\ MaxIterations \in Nat \ {0}
    /\ MaxDrives \in Nat /\ Items = 1..N /\ Items \subseteq Nat
  BY TddAssumption DEF Items

LEMMA Types ==
    ASSUME TypeOK
    PROVE  /\ item \in [Items -> Shape]
           /\ status \in [Items -> {"approved", "running", "green", "failed"}]
           /\ runs \in Seq(Run) /\ results \in [Items -> Seq({"passed", "failed", "blocked"})]
           /\ logs \in [Items -> 0..Len(runs)] /\ meta \in [Items -> 0..Len(runs)]
           /\ loop \in Loop /\ drives \in 0..MaxDrives /\ Len(runs) \in Nat
  <1>1. runs \in Seq(Run) /\ Len(runs) \in Nat
    BY DEF TypeOK, Run
  <1>2. loop \in Loop
    BY DEF TypeOK, Loop
  <1>3. item \in [Items -> Shape]
    BY Constants DEF TypeOK
  <1> QED
    BY <1>1, <1>2, <1>3 DEF TypeOK

LEMMA Start ==
    /\ NotDriven.at = "idle" /\ NotDriven.iteration = 0 /\ NotDriven.items = {}
    /\ NotDriven.todo = {} /\ NotDriven.phase = "pre_red" /\ NotDriven.logicPassed = FALSE
    /\ NotDriven.failed = FALSE /\ NotDriven.run = 0 /\ NotDriven.answer = "none"
    /\ NotDriven.outcome = "none"
  BY DEF NotDriven

LEMMA StartIsLoop == Len(runs) \in Nat => NotDriven \in Loop
  BY Constants DEF NotDriven, Loop, Phases

LEMMA InitInv == Init => TddInv
  <1> SUFFICES ASSUME Init PROVE TddInv
    OBVIOUS
  <1>1. /\ runs = <<>> /\ Len(runs) = 0 /\ loop = NotDriven /\ drives = 0
        /\ results = [i \in Items |-> <<>>] /\ status = [i \in Items |-> "approved"]
        /\ logs = [i \in Items |-> 0] /\ meta = [i \in Items |-> 0]
    BY DEF Init
  <1>2. TypeOK
    <2>1. loop \in Loop
      BY <1>1, StartIsLoop
    <2>2. runs \in Seq(Run) /\ results \in [Items -> Seq({"passed", "failed", "blocked"})]
      BY <1>1
    <2>3. logs \in [Items -> 0..Len(runs)] /\ meta \in [Items -> 0..Len(runs)]
      BY <1>1
    <2>4. drives \in 0..MaxDrives
      BY <1>1, Constants
    <2> QED
      BY <1>1, <2>1, <2>2, <2>3, <2>4 DEF Init, TypeOK, Loop, Run, AssetStatus
  <1>3. Placed /\ BeforeTheEdits /\ AfterTheEdits /\ Over
    BY <1>1, Start DEF Placed, BeforeTheEdits, AfterTheEdits, Over, Working, HasRow
  <1>4. Once /\ Files
    BY <1>1 DEF Once, Files
  <1>5. FirstDrive
    BY <1>1, Start DEF FirstDrive, Working
  <1> QED
    BY <1>2, <1>3, <1>4, <1>5 DEF TddInv

-----------------------------------------------------------------------------
(* Steps of the loop alone *)

LEMMA CurrentIs ==
    ASSUME TypeOK, loop.todo # {}
    PROVE  Current \in loop.todo /\ Current \in Items /\ \A k \in loop.todo : Current <= k
  <1>1. loop.todo \subseteq Items
    BY Types DEF Loop
  <1>2. loop.todo \in SUBSET Nat
    BY <1>1, Constants
  <1>3. \E i \in loop.todo : \A k \in loop.todo : i <= k
    BY <1>2, FirstOf
  <1> QED
    BY <1>1, <1>3 DEF Current

LEMMA SameCurrent == loop'.todo = loop.todo => Current' = Current
  BY DEF Current

(* What is neither the loop's nor a row's: assets, and whether the          *)
(* execution can be verified.                                               *)
LEMMA Aside ==
    ASSUME TddInv, UNCHANGED <<item, status, runs, results, logs, meta, loop, drives>>,
           runnable' \in BOOLEAN,
           assets' \in [{"expected", "linked", "task"} -> AssetStatus]
    PROVE  TddInv'
  <1>1. Current' = Current
    BY SameCurrent
  <1>2. TypeOK' /\ Placed' /\ Once'
    BY <1>1 DEF TddInv, TypeOK, Placed, Once, NoneApproved
  <1>3. BeforeTheEdits' /\ AfterTheEdits'
    BY <1>1 DEF TddInv, BeforeTheEdits, AfterTheEdits, NotAfter, RedOf, Turned, Settled,
       Ahead
  <1>4. Over' /\ FirstDrive' /\ Files'
    BY DEF TddInv, Over, FirstDrive, Files, Finished, NotAfter, Turned, Settled
  <1> QED
    BY <1>2, <1>3, <1>4 DEF TddInv

(* A step that changes the loop, and where it is, only.                     *)
LoopOnly ==
    UNCHANGED <<item, status, assets, runs, results, logs, meta>> /\ runnable' \in BOOLEAN

LEMMA LoopTurn ==
    ASSUME TddInv, LoopOnly, loop' \in Loop, drives' \in 0..MaxDrives
    PROVE  TypeOK' /\ Once'
  <1>1. TypeOK'
    BY DEF LoopOnly, TddInv, TypeOK, Loop
  <1>2. Once'
    BY DEF LoopOnly, TddInv, Once
  <1> QED
    BY <1>1, <1>2

(* Out of an iteration: nothing is at stake but the files of a first drive. *)
LEMMA Leaves ==
    ASSUME TddInv, LoopOnly, NEW l \in Loop, loop' = l, UNCHANGED drives,
           l.at \in {"idle", "reading", "returned", "evaluated", "done"},
           l.at \in {"returned", "evaluated"} => l.iteration = 1 /\ NoneApproved,
           l.at = "reading" => l.iteration # 1 /\ NoneApproved,
           l.at \in {"returned", "evaluated", "reading"} =>
             loop.at \notin {"idle", "done", "recorded"},
           l.outcome = "passed" => l.at = "done" /\ \A i \in l.items : Settled(i),
           l.outcome = "tdd_invariant_violated" =>
             l.at = "done" /\ \A i \in l.items : NotAfter(i),
           l.outcome = "passed" => loop.at \in Working /\ l.items = loop.items,
           drives = 0 => l = NotDriven
    PROVE  TddInv'
  <1>1. TypeOK' /\ Once'
    BY LoopTurn DEF TddInv, TypeOK
  <1>2. Placed' /\ BeforeTheEdits' /\ AfterTheEdits'
    BY DEF Placed, BeforeTheEdits, AfterTheEdits, Working, HasRow, LoopOnly, NoneApproved
  <1>3. Over'
    BY DEF Over, LoopOnly, NotAfter, Settled, Turned
  <1>4. FirstDrive'
    <2>1. drives = 0 \/ (drives = 1 /\ l.at = "reading" /\ l.iteration = 1) =>
            \A i \in Items : status[i] = "approved"
      <3>1. CASE drives = 0
        BY <3>1 DEF TddInv, FirstDrive
      <3>2. CASE l.at = "reading" /\ drives # 0
        BY <3>2
      <3> QED
        BY <3>1, <3>2
    <2> QED
      BY <2>1 DEF FirstDrive, LoopOnly, TddInv, Working
  <1>5. Files'
    BY DEF Files, Finished, LoopOnly, TddInv
  <1> QED
    BY <1>1, <1>2, <1>3, <1>4, <1>5 DEF TddInv

LEMMA Drives ==
    ASSUME TddInv, Drive
    PROVE  TddInv'
  <1> DEFINE l == [NotDriven EXCEPT !.at = "reading", !.iteration = 1]
  <1>1. /\ loop \in Loop /\ drives \in 0..MaxDrives /\ Len(runs) \in Nat
        /\ runnable \in BOOLEAN
    BY Types DEF TddInv, TypeOK
  <1>2. /\ l \in Loop /\ l.at = "reading" /\ l.iteration = 1 /\ l.outcome = "none"
    <2>1. NotDriven \in Loop /\ 1 \in 0..MaxIterations
      BY <1>1, StartIsLoop, Constants
    <2> QED
      BY <2>1, Start DEF Loop
  <1>3. loop' = l /\ LoopOnly /\ drives' = drives + 1 /\ drives' \in 0..MaxDrives
    BY <1>1, Constants DEF Drive, LoopOnly
  <1> HIDE DEF l
  <1>4. TypeOK' /\ Once'
    <2>1. loop' \in Loop
      BY <1>2, <1>3
    <2> QED
      BY <1>3, <2>1, LoopTurn
  <1>5. Placed' /\ BeforeTheEdits' /\ AfterTheEdits' /\ Over'
    BY <1>2, <1>3 DEF Placed, BeforeTheEdits, AfterTheEdits, Over, Working, HasRow
  <1>6. FirstDrive'
    BY <1>1, <1>2, <1>3 DEF TddInv, FirstDrive, Working, LoopOnly
  <1>7. Files'
    <2>1. drives' = 1 => runs' = <<>>
      BY <1>1, <1>3 DEF TddInv, FirstDrive, LoopOnly
    <2>2. \A i \in Items : meta'[i] <= logs'[i]
      BY <1>3 DEF TddInv, Files, LoopOnly
    <2>3. \A r \in 1..Len(runs) : Finished(r)' = Finished(r)
      BY <1>3 DEF Finished, LoopOnly
    <2>4. drives' = 1 => 1..Len(runs') = {}
      BY <2>1
    <2> QED
      BY <1>3, <2>2, <2>3, <2>4 DEF TddInv, Files, LoopOnly
  <1> QED
    BY <1>4, <1>5, <1>6, <1>7 DEF TddInv

LEMMA Restarts ==
    ASSUME TddInv, Restart
    PROVE  TddInv'
  <1>1. Len(runs) \in Nat /\ runnable \in BOOLEAN
    BY Types DEF TddInv, TypeOK
  <1>2. loop' = NotDriven /\ LoopOnly /\ UNCHANGED drives
    BY <1>1 DEF Restart, LoopOnly
  <1> QED
    BY <1>1, <1>2, Leaves, Start, StartIsLoop

(* The ends of an iteration and of the loop.                                *)
LEMMA Ends ==
    ASSUME TddInv, AbortOnGreen \/ Return \/ Evaluate \/ Retry
    PROVE  TddInv'
  <1>1. loop \in Loop /\ Len(runs) \in Nat /\ runnable \in BOOLEAN /\ loop.at # "idle"
    BY Types DEF TddInv, TypeOK, AbortOnGreen, Return, Evaluate, Retry
  <1>2. LoopOnly /\ UNCHANGED drives /\ drives # 0
    <2>1. drives # 0
      BY <1>1, Start DEF TddInv, FirstDrive
    <2> QED
      BY <1>1, <2>1 DEF AbortOnGreen, Return, Evaluate, Retry, LoopOnly
  <1>3. loop.at # "done" => loop.outcome \notin {"passed", "tdd_invariant_violated"}
    BY DEF TddInv, Over
  <1>4. CASE AbortOnGreen
    <2> DEFINE l == [loop EXCEPT !.at = "done", !.outcome = "tdd_invariant_violated"]
    <2>1. /\ loop' = l /\ l \in Loop /\ l.at = "done"
          /\ l.outcome = "tdd_invariant_violated" /\ l.items = loop.items
      BY <1>1, <1>4 DEF AbortOnGreen, Loop, Returned
    <2>2. \A i \in loop.items : NotAfter(i)
      BY <1>4 DEF AbortOnGreen, TddInv, BeforeTheEdits, Working
    <2> HIDE DEF l
    <2> QED
      BY <1>2, <2>1, <2>2, Leaves
  <1>5. CASE Return
    <2>1. CASE loop.failed
      <3> DEFINE l == [loop EXCEPT !.at = "returned"]
      <3>1. /\ loop' = l /\ l \in Loop /\ l.at = "returned" /\ loop.at = "next"
            /\ l.outcome = loop.outcome /\ l.iteration = loop.iteration
        BY <1>1, <1>5, <2>1 DEF Return, Loop
      <3>2. NoneApproved /\ loop.iteration = 1
        BY <1>5 DEF Return, TddInv, Placed, AfterTheEdits, Working, NoneApproved
      <3> HIDE DEF l
      <3> QED
        BY <1>2, <1>3, <3>1, <3>2, Leaves
    <2>2. CASE ~loop.failed
      <3> DEFINE l == [loop EXCEPT !.at = "done", !.outcome = "passed"]
      <3>1. /\ loop' = l /\ l \in Loop /\ l.at = "done" /\ l.outcome = "passed"
            /\ l.items = loop.items /\ loop.at \in Working
        BY <1>1, <1>5, <2>2 DEF Return, Loop, Returned, Working
      <3>2. \A i \in loop.items : Settled(i)
        BY <1>5, <2>2 DEF Return, TddInv, AfterTheEdits, Working
      <3> HIDE DEF l
      <3> QED
        BY <1>2, <3>1, <3>2, Leaves
    <2> QED
      BY <2>1, <2>2
  <1>6. CASE Evaluate \/ Retry
    <2>1. NoneApproved /\ loop.iteration = 1 /\ loop.at \in {"returned", "evaluated"}
      BY <1>6 DEF Evaluate, Retry, TddInv, Placed
    <2>2. PICK l \in Loop :
            /\ loop' = l
            /\ \/ l.at = "evaluated" /\ l.outcome = loop.outcome /\ l.iteration = 1
               \/ l.at = "reading" /\ l.outcome = loop.outcome /\ l.iteration = 2
               \/ /\ l.at = "done"
                  /\ l.outcome \in {"retry_terminated", "max_iterations", "rejected"}
      <3>1. CASE Evaluate
        <4>1. /\ [loop EXCEPT !.at = "evaluated"] \in Loop
              /\ [loop EXCEPT !.at = "done", !.outcome = "retry_terminated"] \in Loop
              /\ Reject \in Loop
          BY <1>1 DEF Loop, Returned, Reject
        <4>2. \/ loop' = [loop EXCEPT !.at = "evaluated"]
              \/ loop' = [loop EXCEPT !.at = "done", !.outcome = "retry_terminated"]
              \/ loop' = Reject
          BY <3>1 DEF Evaluate
        <4>3. loop' \in Loop
          BY <4>1, <4>2
        <4> QED
          BY <1>1, <2>1, <4>2, <4>3 DEF Loop, Reject
      <3>2. CASE Retry
        <4>1. \/ /\ loop.iteration < MaxIterations
                 /\ loop' = [loop EXCEPT !.at = "reading", !.iteration = loop.iteration + 1]
              \/ loop' = [loop EXCEPT !.at = "done", !.outcome = "max_iterations"]
              \/ loop' = [loop EXCEPT !.at = "done", !.outcome = "retry_terminated"]
              \/ loop' = Reject
          BY <3>2 DEF Retry
        <4>2. CASE /\ loop.iteration < MaxIterations
                   /\ loop' = [loop EXCEPT !.at = "reading", !.iteration = loop.iteration + 1]
          <5>1. loop.iteration + 1 \in 0..MaxIterations /\ loop.iteration + 1 = 2
            BY <2>1, <4>2, Constants
          <5>2. /\ loop' \in Loop /\ loop'.at = "reading" /\ loop'.outcome = loop.outcome
                /\ loop'.iteration = 2
            BY <1>1, <4>2, <5>1 DEF Loop
          <5> QED
            BY <5>2
        <4>3. CASE \/ loop' = [loop EXCEPT !.at = "done", !.outcome = "max_iterations"]
                   \/ loop' = [loop EXCEPT !.at = "done", !.outcome = "retry_terminated"]
                   \/ loop' = Reject
          <5>1. /\ loop' \in Loop /\ loop'.at = "done"
                /\ loop'.outcome \in {"retry_terminated", "max_iterations", "rejected"}
            <6>1. CASE loop' = [loop EXCEPT !.at = "done", !.outcome = "max_iterations"]
              BY <1>1, <6>1 DEF Loop, Returned
            <6>2. CASE loop' = [loop EXCEPT !.at = "done", !.outcome = "retry_terminated"]
              BY <1>1, <6>2 DEF Loop, Returned
            <6>3. CASE loop' = Reject
              BY <1>1, <6>3 DEF Loop, Returned, Reject
            <6> QED
              BY <4>3, <6>1, <6>2, <6>3
          <5> QED
            BY <5>1
        <4> QED
          BY <4>1, <4>2, <4>3
      <3> QED
        BY <1>6, <3>1, <3>2
    <2> QED
      BY <1>2, <1>3, <2>1, <2>2, Leaves
  <1> QED
    BY <1>4, <1>5, <1>6

LEMMA Rejects ==
    ASSUME TddInv, LoopOnly, UNCHANGED drives, loop' = Reject, loop.at = "reading"
    PROVE  TddInv'
  <1>1. loop \in Loop
    BY Types DEF TddInv
  <1>2. Reject \in Loop /\ Reject.at = "done" /\ Reject.outcome = "rejected"
    BY <1>1 DEF Reject, Loop, Returned
  <1>3. drives # 0
    BY Start DEF TddInv, FirstDrive
  <1> QED
    BY <1>2, <1>3, Leaves

LEMMA Reads ==
    ASSUME TddInv, ReadContext
    PROVE  TddInv'
  <1> DEFINE l == [loop EXCEPT !.at = "next", !.phase = "pre_red", !.run = 0,
                               !.items = Snapshot,
                               !.todo = {i \in Snapshot : item[i].command},
                               !.logicPassed = FALSE, !.failed = FALSE]
  <1>1. /\ loop \in Loop /\ Len(runs) \in Nat /\ LoopOnly /\ UNCHANGED drives
        /\ loop.at = "reading" /\ drives \in 0..MaxDrives
    BY Types DEF TddInv, TypeOK, ReadContext, LoopOnly
  <1>2. CASE loop' = Reject
    BY <1>1, <1>2, Rejects
  <1>3. CASE loop' = l /\ Snapshot # {}
    <2>1. Snapshot \subseteq Items /\ Snapshot = {i \in Items : status[i] = "approved"}
      BY DEF Snapshot
    <2>2. /\ l \in Loop /\ l.at = "next" /\ l.phase = "pre_red" /\ l.items = Snapshot
          /\ l.todo = {i \in Snapshot : item[i].command} /\ l.logicPassed = FALSE
          /\ l.iteration = loop.iteration /\ l.outcome = loop.outcome
      <3> DEFINE T == {i \in Snapshot : item[i].command}
      <3>1. /\ T \in SUBSET Items /\ Snapshot \in SUBSET Items
            /\ 0 \in 0..Len(runs) /\ "pre_red" \in Phases
        BY <1>1, <2>1 DEF Phases
      <3> HIDE DEF T
      <3>2. [loop EXCEPT !.at = "next", !.phase = "pre_red", !.run = 0, !.items = Snapshot,
                         !.todo = T, !.logicPassed = FALSE, !.failed = FALSE] \in Loop
        BY <1>1, <3>1 DEF Loop
      <3> QED
        BY <1>1, <3>2 DEF Loop, T
    <2> HIDE DEF l
    <2>3. loop.iteration = 1 /\ loop.outcome \notin {"passed", "tdd_invariant_violated"}
      BY <1>1, <1>3, <2>1 DEF TddInv, Placed, NoneApproved, Over
    <2>4. TypeOK' /\ Once'
      BY <1>1, <1>3, <2>2, LoopTurn
    <2>5. Placed'
      BY <1>1, <1>3, <2>1, <2>2, <2>3 DEF Placed, LoopOnly, Working, HasRow
    <2>6. BeforeTheEdits' /\ AfterTheEdits'
      <3>1. \A i \in Snapshot : NotAfter(i)'
        BY <1>1, <2>1 DEF TddInv, Once, NotAfter, LoopOnly
      <3> QED
        BY <1>1, <1>3, <2>1, <2>2, <3>1 DEF BeforeTheEdits, AfterTheEdits, LoopOnly
    <2>7. Over' /\ FirstDrive'
      BY <1>1, <1>3, <2>1, <2>2, <2>3, Start DEF TddInv, Over, FirstDrive, LoopOnly
    <2>8. Files'
      BY <1>1, <1>3, <2>2 DEF TddInv, Files, Finished, LoopOnly
    <2> QED
      BY <2>4, <2>5, <2>6, <2>7, <2>8 DEF TddInv
  <1> QED
    BY <1>2, <1>3 DEF ReadContext

(* After the edits everything is to be run that was taken.                  *)
LEMMA Turns ==
    ASSUME TddInv, TurnGreen
    PROVE  TddInv'
  <1> DEFINE l == [loop EXCEPT !.phase = "post_green", !.todo = loop.items]
  <1>1. /\ loop \in Loop /\ LoopOnly /\ UNCHANGED drives
        /\ loop.at = "next" /\ loop.phase = "pre_red" /\ loop.todo = {}
        /\ ~loop.logicPassed /\ drives \in 0..MaxDrives
    BY Types DEF TddInv, TypeOK, TurnGreen, LoopOnly
  <1>2. /\ loop' = l /\ l \in Loop /\ l.at = "next" /\ l.phase = "post_green"
        /\ l.items = loop.items /\ l.todo = loop.items /\ l.iteration = loop.iteration
        /\ l.outcome = loop.outcome
    BY <1>1 DEF Loop, Phases, TurnGreen
  <1> HIDE DEF l
  <1>3. TypeOK' /\ Once'
    BY <1>1, <1>2, LoopTurn
  <1>4. Placed'
    BY <1>1, <1>2 DEF TddInv, Placed, LoopOnly, Working, HasRow
  <1>5. BeforeTheEdits' /\ AfterTheEdits'
    <2>1. /\ \A i \in loop.items : NotAfter(i)
          /\ \A i \in loop.items : item[i].command => RedOf(i)
      BY <1>1 DEF TddInv, BeforeTheEdits, Working
    <2>2. /\ \A i \in loop.items : NotAfter(i)'
          /\ \A i \in loop.items : item[i].command => RedOf(i)'
      BY <1>1, <2>1 DEF NotAfter, RedOf, LoopOnly
    <2> QED
      BY <1>1, <1>2, <2>2 DEF BeforeTheEdits, AfterTheEdits, LoopOnly
  <1>6. Over' /\ FirstDrive'
    BY <1>1, <1>2, Start DEF TddInv, Over, FirstDrive, LoopOnly, Working
  <1>7. Files'
    BY <1>1, <1>2 DEF TddInv, Files, Finished, LoopOnly
  <1> QED
    BY <1>3, <1>4, <1>5, <1>6, <1>7 DEF TddInv

-----------------------------------------------------------------------------
(* Steps that write rows and files *)

(* Rows that change, if at all, are of one item and phase.                  *)
RowsBut(i, phase) ==
    /\ Len(runs') >= Len(runs)
    /\ \A r \in 1..Len(runs) :
         runs[r].item # i \/ runs[r].phase # phase => runs'[r] = runs[r]

LEMMA KeepsRed ==
    ASSUME NEW j, NEW phase, RowsBut(j, phase), Len(runs) \in Nat, Len(runs') \in Nat,
           UNCHANGED item, NEW i, i # j \/ phase # "pre_red", RedOf(i)
    PROVE  RedOf(i)'
  <1>1. PICK red \in 1..Len(runs) :
          /\ runs[red].item = i /\ runs[red].phase = "pre_red"
          /\ IsLogic(item[i]) => runs[red].status = "failed"
    BY DEF RedOf
  <1>2. red \in 1..Len(runs') /\ runs'[red] = runs[red]
    BY <1>1 DEF RowsBut
  <1> QED
    BY <1>1, <1>2 DEF RedOf

LEMMA KeepsTurned ==
    ASSUME NEW j, NEW phase, RowsBut(j, phase), Len(runs) \in Nat, Len(runs') \in Nat,
           UNCHANGED item, NEW i, i # j, Turned(i)
    PROVE  Turned(i)'
  <1>1. PICK red \in 1..Len(runs), green \in 1..Len(runs) :
          /\ runs[red].item = i /\ runs[red].phase = "pre_red"
          /\ runs[green].item = i /\ runs[green].phase = "post_green"
          /\ red < green /\ runs[green].status = "passed"
          /\ IsLogic(item[i]) => runs[red].status = "failed"
    BY DEF Turned
  <1>2. /\ red \in 1..Len(runs') /\ runs'[red] = runs[red]
        /\ green \in 1..Len(runs') /\ runs'[green] = runs[green]
    BY <1>1 DEF RowsBut
  <1> QED
    BY <1>1, <1>2 DEF Turned

(* A run is created for the current item, in this phase.                    *)
LEMMA Creates ==
    ASSUME TddInv, loop.at = "next", loop.todo # {}, NEW at \in {"started", "axe"},
           CreateRun(Current, loop.phase, loop.iteration),
           loop' = [loop EXCEPT !.at = at, !.run = Len(runs')],
           UNCHANGED <<item, runnable, assets, results, logs, meta, drives>>,
           at = "started" => item[Current].command,
           at = "axe" => ~item[Current].command /\ loop.phase = "post_green"
    PROVE  TddInv'
  <1> DEFINE n == Len(runs)
             row == [item |-> Current, phase |-> loop.phase, iteration |-> 1,
                     status |-> "running"]
  <1>1. /\ item \in [Items -> Shape] /\ loop \in Loop /\ n \in Nat /\ runs \in Seq(Run)
        /\ status \in [Items -> {"approved", "running", "green", "failed"}]
        /\ results \in [Items -> Seq({"passed", "failed", "blocked"})]
        /\ logs \in [Items -> 0..n] /\ meta \in [Items -> 0..n] /\ drives \in 0..MaxDrives
        /\ loop.iteration = 1 /\ loop.phase \in Phases
    BY Types DEF TddInv, Placed, Working, Loop
  <1>2. Current \in loop.todo /\ Current \in Items /\ Current \in loop.items
    BY CurrentIs DEF TddInv, Placed, Working
  <1>3. row \in Run /\ row.item = Current /\ row.phase = loop.phase /\ row.iteration = 1
        /\ row.status = "running"
    <2>1. 1 \in 1..MaxIterations
      BY Constants
    <2> QED
      BY <1>1, <1>2, <2>1 DEF Run
  <1>4. runs' = Append(runs, row) /\ status' = [status EXCEPT ![Current] = "running"]
    BY <1>1 DEF CreateRun
  <1> HIDE DEF row
  <1>5. /\ runs' \in Seq(Run) /\ Len(runs') = n + 1 /\ runs'[n + 1] = row
        /\ \A r \in 1..n : runs'[r] = runs[r]
    BY <1>1, <1>3, <1>4
  <1>0. /\ n \in Nat
        /\ \A r \in 1..Len(runs') :
             \/ r \in 1..n /\ runs'[r] = runs[r]
             \/ /\ r = n + 1 /\ runs'[r].item = Current /\ runs'[r].phase = loop.phase
                /\ runs'[r].iteration = 1 /\ runs'[r].status = "running"
    <2> SUFFICES ASSUME NEW r \in 1..n + 1
                 PROVE  \/ r \in 1..n /\ runs'[r] = runs[r]
                        \/ /\ r = n + 1 /\ runs'[r].item = Current /\ runs'[r].phase = loop.phase
                           /\ runs'[r].iteration = 1 /\ runs'[r].status = "running"
      BY <1>1, <1>5
    <2>1. n \in Nat /\ (r \in 1..n \/ r = n + 1)
      BY <1>1
    <2> QED
      BY <1>3, <1>5, <2>1
  <1>6. /\ loop'.at = at /\ loop'.run = n + 1 /\ loop'.iteration = 1
        /\ loop'.items = loop.items /\ loop'.todo = loop.todo /\ loop'.phase = loop.phase
        /\ loop'.logicPassed = loop.logicPassed /\ loop'.failed = loop.failed
        /\ loop'.answer = loop.answer /\ loop'.outcome = loop.outcome
        /\ loop' \in Loop' /\ Current' = Current
    <2>1. n + 1 \in 0..Len(runs')
      BY <1>1, <1>5
    <2>2. loop' = [loop EXCEPT !.at = at, !.run = n + 1]
      BY <1>5
    <2>3. loop' \in Loop'
      BY <1>1, <2>1, <2>2 DEF Loop
    <2> QED
      BY <1>1, <2>2, <2>3, SameCurrent DEF Loop
  <1>7. status'[Current] = "running" /\ \A i \in Items \ {Current} : status'[i] = status[i]
    BY <1>1, <1>2, <1>4
  <1>8. /\ \A r \in 1..n : runs[r].item # Current \/ runs[r].phase # loop.phase
        /\ NotAfter(Current)
        /\ loop.phase = "pre_red" => at = "started"
    <2>1. Ahead(Current)
      BY <1>2 DEF Ahead, HasRow
    <2>2. CASE loop.phase = "pre_red"
      <3>1. status[Current] = "approved" /\ item[Current].command
        BY <1>2, <2>1, <2>2 DEF TddInv, BeforeTheEdits, Working
      <3>2. \A r \in 1..n : runs[r].item # Current
        BY <1>2, <3>1 DEF TddInv, Once
      <3>3. NotAfter(Current)
        BY <1>2, <2>2 DEF TddInv, BeforeTheEdits, Working
      <3> QED
        BY <3>1, <3>2, <3>3
    <2>3. CASE loop.phase = "post_green"
      <3>1. NotAfter(Current)
        BY <1>2, <2>1, <2>3 DEF TddInv, AfterTheEdits, Working
      <3> QED
        BY <2>3, <3>1 DEF NotAfter
    <2> QED
      BY <1>1, <2>2, <2>3 DEF Phases
  <1>9. RowsBut(Current, loop.phase) /\ Len(runs') \in Nat
    BY <1>1, <1>5 DEF RowsBut
  <1>10. TypeOK'
    <2>1. /\ logs' \in [Items -> 0..Len(runs')] /\ meta' \in [Items -> 0..Len(runs')]
      <3>1. \A i \in Items : logs[i] \in 0..n + 1 /\ meta[i] \in 0..n + 1
        BY <1>1
      <3> QED
        BY <1>1, <1>5, <3>1
    <2>2. status' \in [Items -> {"approved", "running", "green", "failed"}]
      BY <1>1, <1>2, <1>4
    <2> QED
      BY <1>5, <1>6, <2>1, <2>2 DEF TddInv, TypeOK, Loop, Run
  <1>11. Placed'
    BY <1>1, <1>2, <1>3, <1>5, <1>6, <1>7, <1>8 DEF TddInv, Placed, Working, HasRow
  <1>12. Once'
    <2>1. ASSUME NEW i \in Items, status'[i] = "approved"
          PROVE  results'[i] = <<>> /\ \A r \in 1..Len(runs') : runs'[r].item # i
      <3>1. i # Current /\ status[i] = "approved"
        BY <1>7, <2>1
      <3>2. results[i] = <<>> /\ \A r \in 1..n : runs[r].item # i
        BY <3>1 DEF TddInv, Once
      <3> QED
        BY <1>0, <3>1, <3>2
    <2>2. ASSUME NEW q \in 1..Len(runs'), NEW r \in 1..Len(runs'),
                 runs'[q].item = runs'[r].item, runs'[q].phase = runs'[r].phase
          PROVE  q = r
      <3>1. CASE q \in 1..n /\ r \in 1..n
        BY <1>5, <2>2, <3>1 DEF TddInv, Once
      <3>2. CASE q = n + 1 \/ r = n + 1
        BY <1>0, <1>8, <2>2, <3>2
      <3> QED
        BY <1>0, <3>1, <3>2
    <2>3. \A r \in 1..Len(runs') : runs'[r].iteration = 1
      BY <1>0 DEF TddInv, Once
    <2> QED
      BY <2>1, <2>2, <2>3 DEF TddInv, Once
  <1>13. BeforeTheEdits'
    <2> SUFFICES ASSUME loop.phase = "pre_red" PROVE BeforeTheEdits'
      BY <1>6 DEF BeforeTheEdits
    <2>0. loop.phase = "pre_red"
      OBVIOUS
    <2>1. \A i \in loop.items : NotAfter(i)'
      <3>1. \A i \in loop.items : NotAfter(i)
        BY DEF TddInv, BeforeTheEdits, Working
      <3> QED
        BY <1>0, <2>0, <3>1 DEF NotAfter
    <2>2. \A i \in loop.items : Ahead(i)' \/ ~item[i].command => status'[i] = "approved"
      <3>1. \A i \in loop.items : Ahead(i)' \/ ~item[i].command => i # Current
        BY <1>6, <1>8 DEF Ahead, HasRow
      <3>2. \A i \in loop.items : Ahead(i)' => Ahead(i)
        BY <1>6 DEF Ahead, HasRow
      <3> QED
        BY <1>1, <1>7, <3>1, <3>2 DEF TddInv, BeforeTheEdits, Working, Loop
    <2>3. ~loop.logicPassed =>
            \A i \in loop.items \ loop.todo : item[i].command => RedOf(i)'
      <3> SUFFICES ASSUME ~loop.logicPassed, NEW i \in loop.items \ loop.todo, item[i].command
                   PROVE  RedOf(i)'
        OBVIOUS
      <3>1. RedOf(i) /\ i # Current
        BY <1>2 DEF TddInv, BeforeTheEdits, Working
      <3> QED
        BY <1>1, <1>9, <3>1, KeepsRed
    <2> QED
      BY <1>6, <2>1, <2>2, <2>3 DEF TddInv, BeforeTheEdits, Working
  <1>14. AfterTheEdits'
    <2> SUFFICES ASSUME loop.phase = "post_green" PROVE AfterTheEdits'
      BY <1>6 DEF AfterTheEdits
    <2>1. \A i \in loop.items : item[i].command => RedOf(i)'
      <3> SUFFICES ASSUME NEW i \in loop.items, item[i].command PROVE RedOf(i)'
        OBVIOUS
      <3>1. RedOf(i)
        BY DEF TddInv, AfterTheEdits, Working
      <3> QED
        BY <1>1, <1>9, <3>1, KeepsRed
    <2>2. \A i \in loop.items : Ahead(i)' => NotAfter(i)'
      <3> SUFFICES ASSUME NEW i \in loop.items, Ahead(i)' PROVE NotAfter(i)'
        OBVIOUS
      <3>1. i # Current /\ Ahead(i)
        BY <1>6 DEF Ahead, HasRow
      <3>2. NotAfter(i)
        BY <3>1 DEF TddInv, AfterTheEdits, Working
      <3> QED
        BY <1>0, <3>1, <3>2 DEF NotAfter
    <2>3. ASSUME NEW i \in loop.items \ loop.todo
          PROVE  status'[i] # "approved" /\ (~loop.failed => Settled(i)')
      <3>1. i # Current /\ i \in Items
        BY <1>1, <1>2 DEF Loop
      <3>2. status[i] # "approved" /\ (~loop.failed => Settled(i))
        BY DEF TddInv, AfterTheEdits, Working
      <3> QED
        BY <1>1, <1>7, <1>9, <3>1, <3>2, KeepsTurned DEF Settled
    <2> QED
      BY <1>6, <2>1, <2>2, <2>3 DEF AfterTheEdits
  <1>15. Over' /\ FirstDrive'
    BY <1>1, <1>6, Start DEF TddInv, Over, FirstDrive, Working
  <1>16. Files'
    <2>1. ASSUME NEW r \in 1..n + 1, Finished(r)'
          PROVE  r \in 1..n /\ Finished(r) /\ runs'[r] = runs[r]
      BY <1>1, <1>3, <1>5, <2>1 DEF Finished
    <2> QED
      BY <1>5, <1>6, <2>1 DEF TddInv, Files
  <1> QED
    BY <1>10, <1>11, <1>12, <1>13, <1>14, <1>15, <1>16 DEF TddInv

(* The row of the current item's run is finished, with the item.            *)
LEMMA Finishes ==
    ASSUME TddInv, loop.at \in HasRow, NEW answer \in {"passed", "failed"}, FinishRun(answer)
    PROVE  /\ runs' \in Seq(Run) /\ Len(runs') = Len(runs) /\ Len(runs) \in Nat
           /\ \A r \in 1..Len(runs) :
                /\ runs'[r].item = runs[r].item /\ runs'[r].phase = runs[r].phase
                /\ runs'[r].iteration = runs[r].iteration
                /\ r # loop.run => runs'[r] = runs[r]
           /\ loop.run \in 1..Len(runs) /\ runs'[loop.run].status = answer
           /\ status' \in [Items -> {"approved", "running", "green", "failed"}]
           /\ status'[Current] = IF answer = "passed" THEN "green" ELSE "failed"
           /\ \A i \in Items \ {Current} : status'[i] = status[i]
           /\ RowsBut(Current, loop.phase)
  <1> DEFINE row == [runs[loop.run] EXCEPT !.status = answer]
             s == IF answer = "passed" THEN "green" ELSE "failed"
  <1>1. /\ runs \in Seq(Run) /\ Len(runs) \in Nat
        /\ status \in [Items -> {"approved", "running", "green", "failed"}]
    BY Types DEF TddInv
  <1>2. /\ Current \in Items /\ loop.run = Len(runs) /\ loop.run > 0
        /\ runs[loop.run].item = Current /\ runs[loop.run].phase = loop.phase
    BY CurrentIs DEF TddInv, Placed, Working, HasRow
  <1>3. loop.run \in 1..Len(runs) /\ runs[loop.run] \in Run
    BY <1>1, <1>2
  <1>4. /\ row \in Run /\ row.status = answer /\ row.item = runs[loop.run].item
        /\ row.phase = runs[loop.run].phase /\ row.iteration = runs[loop.run].iteration
    BY <1>3 DEF Run
  <1>5. runs' = [runs EXCEPT ![loop.run] = row]
    BY <1>1, <1>3 DEF FinishRun
  <1> HIDE DEF row
  <1>6. /\ runs' \in Seq(Run) /\ Len(runs') = Len(runs) /\ runs'[loop.run] = row
        /\ \A r \in 1..Len(runs) : r # loop.run => runs'[r] = runs[r]
    BY <1>1, <1>3, <1>4, <1>5
  <1>7. \A r \in 1..Len(runs) :
          /\ runs'[r].item = runs[r].item /\ runs'[r].phase = runs[r].phase
          /\ runs'[r].iteration = runs[r].iteration
    BY <1>4, <1>6
  <1>8. RowsBut(Current, loop.phase)
    BY <1>1, <1>2, <1>6 DEF RowsBut
  <1>9. /\ status' \in [Items -> {"approved", "running", "green", "failed"}]
        /\ status'[Current] = s /\ \A i \in Items \ {Current} : status'[i] = status[i]
    <2>1. s \in {"approved", "running", "green", "failed"}
      OBVIOUS
    <2>2. status' = [status EXCEPT ![Current] = s]
      BY DEF FinishRun
    <2> QED
      BY <1>1, <1>2, <2>1, <2>2
  <1> QED
    BY <1>1, <1>3, <1>4, <1>6, <1>7, <1>8, <1>9

LEMMA RunsCommand ==
    ASSUME TddInv, RunCommand
    PROVE  TddInv'
  <1>1. /\ loop \in Loop /\ Len(runs) \in Nat /\ loop.at = "started"
        /\ logs \in [Items -> 0..Len(runs)] /\ meta \in [Items -> 0..Len(runs)]
        /\ loop.run = Len(runs) /\ loop.run > 0 /\ loop.todo # {} /\ drives # 0
        /\ logs' = [logs EXCEPT ![Current] = loop.run]
        /\ UNCHANGED <<item, status, runnable, assets, runs, results, meta, drives>>
    BY Types, Start DEF TddInv, Placed, Working, HasRow, FirstDrive, RunCommand
  <1>2. Current \in Items
    BY <1>1, CurrentIs DEF TddInv
  <1>3. PICK answer \in {"passed", "failed"} :
          loop' = [loop EXCEPT !.at = "ran", !.answer = answer]
    BY DEF RunCommand
  <1>4. /\ loop' \in Loop /\ loop'.at = "ran" /\ loop'.run = loop.run
        /\ loop'.iteration = loop.iteration /\ loop'.items = loop.items
        /\ loop'.todo = loop.todo /\ loop'.phase = loop.phase
        /\ loop'.logicPassed = loop.logicPassed /\ loop'.failed = loop.failed
        /\ loop'.answer = answer /\ loop'.outcome = loop.outcome /\ Current' = Current
    BY <1>1, <1>3, SameCurrent DEF Loop
  <1>5. /\ logs' \in [Items -> 0..Len(runs)] /\ logs'[Current] = loop.run
        /\ \A i \in Items \ {Current} : logs'[i] = logs[i]
    BY <1>1, <1>2
  <1>6. TypeOK' /\ Placed' /\ Once'
    <2>1. TypeOK'
      BY <1>1, <1>4, <1>5 DEF TddInv, TypeOK, Loop
    <2>2. Placed'
      BY <1>1, <1>4, <1>5 DEF TddInv, Placed, Working, HasRow
    <2> QED
      BY <1>1, <2>1, <2>2 DEF TddInv, Once
  <1>7. BeforeTheEdits' /\ AfterTheEdits'
    <2>1. \A i \in Items : Ahead(i)' = Ahead(i)
      BY <1>1, <1>4 DEF Ahead, HasRow
    <2>2. \A i \in Items : /\ NotAfter(i)' = NotAfter(i) /\ RedOf(i)' = RedOf(i)
                           /\ Settled(i)' = Settled(i)
      BY <1>1 DEF NotAfter, RedOf, Settled, Turned
    <2>3. loop.items \subseteq Items /\ loop.todo \subseteq Items
      BY <1>1 DEF Loop
    <2>4. BeforeTheEdits'
      BY <1>1, <1>4, <2>1, <2>2, <2>3 DEF TddInv, BeforeTheEdits, Working
    <2>5. AfterTheEdits'
      BY <1>1, <1>4, <2>1, <2>2, <2>3 DEF TddInv, AfterTheEdits, Working
    <2> QED
      BY <2>4, <2>5
  <1>8. Over' /\ FirstDrive'
    BY <1>1, <1>4 DEF TddInv, Over, FirstDrive, Working
  <1>9. Files'
    <2>1. \A i \in Items : meta[i] <= logs'[i]
      BY <1>1, <1>2, <1>5 DEF TddInv, Files
    <2>2. ASSUME NEW r \in 1..Len(runs), Finished(r)'
          PROVE  r <= logs'[runs[r].item] /\ (drives = 1 => r <= meta[runs[r].item])
      <3>1. /\ r <= logs[runs[r].item]
            /\ drives = 1 => r <= meta[runs[r].item]
        BY <1>1, <2>2 DEF TddInv, Files, Finished
      <3>2. runs[r].item \in Items
        <4>1. runs \in Seq(Run)
          BY Types DEF TddInv
        <4>2. runs[r] \in Run
          BY <4>1
        <4> QED
          BY <4>2 DEF Run
      <3> QED
        BY <1>1, <1>5, <3>1, <3>2
    <2> QED
      BY <1>1, <1>4, <2>1, <2>2 DEF Files
  <1> QED
    BY <1>6, <1>7, <1>8, <1>9 DEF TddInv

LEMMA RecordsCommand ==
    ASSUME TddInv, RecordCommand
    PROVE  TddInv'
  <1>1. /\ loop \in Loop /\ Len(runs) \in Nat /\ loop.at = "ran"
        /\ loop.run = Len(runs) /\ loop.todo # {} /\ drives # 0
        /\ loop.answer \in {"passed", "failed"} /\ logs[Current] = loop.run
        /\ runs[loop.run].item = Current /\ item[Current].command
        /\ FinishRun(loop.answer) /\ loop' = [loop EXCEPT !.at = "recorded"]
        /\ UNCHANGED <<item, runnable, assets, results, logs, meta, drives>>
    BY Types, Start DEF TddInv, Placed, Working, HasRow, FirstDrive, RecordCommand
  <1>2. Current \in loop.todo /\ Current \in Items /\ loop.items \subseteq Items
    BY <1>1, CurrentIs DEF TddInv, Loop
  <1>3. /\ loop' \in Loop /\ loop'.at = "recorded" /\ loop'.run = loop.run
        /\ loop'.iteration = loop.iteration /\ loop'.items = loop.items
        /\ loop'.todo = loop.todo /\ loop'.phase = loop.phase
        /\ loop'.logicPassed = loop.logicPassed /\ loop'.failed = loop.failed
        /\ loop'.answer = loop.answer /\ loop'.outcome = loop.outcome /\ Current' = Current
    BY <1>1, SameCurrent DEF Loop
  <1>4. /\ runs' \in Seq(Run) /\ Len(runs') = Len(runs)
        /\ \A r \in 1..Len(runs) :
             /\ runs'[r].item = runs[r].item /\ runs'[r].phase = runs[r].phase
             /\ runs'[r].iteration = runs[r].iteration
             /\ r # loop.run => runs'[r] = runs[r]
        /\ loop.run \in 1..Len(runs) /\ runs'[loop.run].status = loop.answer
        /\ status' \in [Items -> {"approved", "running", "green", "failed"}]
        /\ status'[Current] = IF loop.answer = "passed" THEN "green" ELSE "failed"
        /\ \A i \in Items \ {Current} : status'[i] = status[i]
        /\ RowsBut(Current, loop.phase)
    BY <1>1, Finishes DEF HasRow
  <1>5. TypeOK' /\ Placed' /\ Once'
    <2>1. TypeOK'
      BY <1>1, <1>3, <1>4 DEF TddInv, TypeOK, Loop, Run
    <2>2. Placed'
      BY <1>1, <1>2, <1>3, <1>4 DEF TddInv, Placed, Working, HasRow
    <2>3. Once'
      BY <1>1, <1>2, <1>4 DEF TddInv, Once
    <2> QED
      BY <2>1, <2>2, <2>3
  <1>6. \A i \in Items : /\ Ahead(i)' = Ahead(i) /\ (Ahead(i) => i # Current)
                         /\ NotAfter(i) => NotAfter(i)'
    BY <1>1, <1>3, <1>4 DEF Ahead, HasRow, NotAfter
  <1>7. BeforeTheEdits'
    <2> SUFFICES ASSUME loop.phase = "pre_red" PROVE BeforeTheEdits'
      BY <1>3 DEF BeforeTheEdits
    <2>1. ~loop.logicPassed =>
            \A i \in loop.items \ loop.todo : item[i].command => RedOf(i)'
      <3> SUFFICES ASSUME ~loop.logicPassed, NEW i \in loop.items \ loop.todo, item[i].command
                   PROVE  RedOf(i)'
        OBVIOUS
      <3>1. RedOf(i) /\ i # Current
        BY <1>1, <1>2 DEF TddInv, BeforeTheEdits, Working
      <3> QED
        BY <1>1, <1>4, <3>1, KeepsRed
    <2>2. \A i \in loop.items : Ahead(i)' \/ ~item[i].command => status'[i] = "approved"
      BY <1>1, <1>2, <1>4, <1>6 DEF TddInv, BeforeTheEdits, Working
    <2> QED
      BY <1>1, <1>2, <1>3, <1>6, <2>1, <2>2 DEF TddInv, BeforeTheEdits, Working
  <1>8. AfterTheEdits'
    <2> SUFFICES ASSUME loop.phase = "post_green" PROVE AfterTheEdits'
      BY <1>3 DEF AfterTheEdits
    <2>1. \A i \in loop.items : item[i].command => RedOf(i)'
      <3> SUFFICES ASSUME NEW i \in loop.items, item[i].command PROVE RedOf(i)'
        OBVIOUS
      <3>1. RedOf(i)
        BY <1>1 DEF TddInv, AfterTheEdits, Working
      <3> QED
        BY <1>1, <1>4, <3>1, KeepsRed
    <2>2. ASSUME NEW i \in loop.items \ loop.todo
          PROVE  status'[i] # "approved" /\ (~loop.failed => Settled(i)')
      <3>1. i # Current /\ i \in Items
        BY <1>2
      <3>2. status[i] # "approved" /\ (~loop.failed => Settled(i))
        BY <1>1 DEF TddInv, AfterTheEdits, Working
      <3> QED
        BY <1>1, <1>4, <3>1, <3>2, KeepsTurned DEF Settled
    <2>3. \A i \in loop.items : Ahead(i)' => NotAfter(i)'
      BY <1>1, <1>2, <1>6 DEF TddInv, AfterTheEdits, Working
    <2> QED
      BY <1>1, <1>3, <2>1, <2>2, <2>3 DEF AfterTheEdits
  <1>9. Over' /\ FirstDrive'
    BY <1>1, <1>3 DEF TddInv, Over, FirstDrive, Working
  <1>10. Files'
    <2>1. ASSUME NEW r \in 1..Len(runs), Finished(r)'
          PROVE  /\ r <= logs[runs'[r].item]
                 /\ drives = 1 => r <= meta[runs'[r].item] \/ r = loop.run
      <3>1. CASE r = loop.run
        BY <1>1, <1>4, <3>1
      <3>2. CASE r # loop.run
        BY <1>1, <1>4, <2>1, <3>2 DEF TddInv, Files, Finished
      <3> QED
        BY <3>1, <3>2
    <2> QED
      BY <1>1, <1>3, <1>4, <2>1 DEF TddInv, Files
  <1> QED
    BY <1>5, <1>7, <1>8, <1>9, <1>10 DEF TddInv

LEMMA ResolvesAsset ==
    ASSUME TddInv, ResolveAsset
    PROVE  TddInv'
  <1>1. /\ loop \in Loop /\ Len(runs) \in Nat /\ loop.at = "next" /\ loop.todo # {}
        /\ status \in [Items -> {"approved", "running", "green", "failed"}]
        /\ ~item[Current].command /\ drives # 0
        /\ UNCHANGED <<item, runnable, assets, runs, results, logs, meta, drives>>
    BY Types, Start DEF TddInv, FirstDrive, ResolveAsset
  <1>2. Current \in loop.todo /\ Current \in Items /\ loop.items \subseteq Items
        /\ loop.todo \subseteq Items
    BY <1>1, CurrentIs DEF TddInv, Loop
  <1>3. PICK at \in {"browsing", "resolved"}, answer \in {"passed", "blocked"} :
          loop' = [loop EXCEPT !.at = at, !.answer = answer]
    BY DEF ResolveAsset
  <1>4. /\ loop' \in Loop /\ loop'.at = at /\ loop'.run = loop.run
        /\ loop'.iteration = loop.iteration /\ loop'.items = loop.items
        /\ loop'.todo = loop.todo /\ loop'.phase = loop.phase
        /\ loop'.logicPassed = loop.logicPassed /\ loop'.failed = loop.failed
        /\ loop'.answer = answer /\ loop'.outcome = loop.outcome /\ Current' = Current
    BY <1>1, <1>3, SameCurrent DEF Loop
  <1>5. /\ status' \in [Items -> {"approved", "running", "green", "failed"}]
        /\ status'[Current] = "approved" => status[Current] = "approved"
        /\ \A i \in Items \ {Current} : status'[i] = status[i]
    <2>1. status' = status \/ status' = [status EXCEPT ![Current] = "running"]
      BY DEF ResolveAsset
    <2> QED
      BY <1>1, <1>2, <2>1
  <1>6. loop.phase = "post_green"
    BY <1>1, <1>2 DEF TddInv, BeforeTheEdits, Working, Loop, Phases
  <1>7. TypeOK' /\ Placed' /\ Once'
    <2>1. TypeOK'
      BY <1>1, <1>4, <1>5 DEF TddInv, TypeOK, Loop
    <2>2. Placed'
      BY <1>1, <1>2, <1>4, <1>5, <1>6 DEF TddInv, Placed, Working, HasRow
    <2>3. Once'
      BY <1>1, <1>2, <1>5 DEF TddInv, Once
    <2> QED
      BY <2>1, <2>2, <2>3
  <1>8. BeforeTheEdits' /\ AfterTheEdits'
    <2>1. \A i \in Items :
            /\ Ahead(i)' = Ahead(i) /\ NotAfter(i)' = NotAfter(i) /\ RedOf(i)' = RedOf(i)
            /\ i # Current /\ Settled(i) => Settled(i)'
      BY <1>1, <1>4, <1>5 DEF Ahead, HasRow, NotAfter, RedOf, Settled, Turned
    <2>2. \A i \in loop.items \ loop.todo : i # Current /\ status'[i] = status[i]
      BY <1>2, <1>5
    <2>3. AfterTheEdits'
      BY <1>1, <1>2, <1>4, <1>6, <2>1, <2>2 DEF TddInv, AfterTheEdits, Working
    <2> QED
      BY <1>4, <1>6, <2>3 DEF BeforeTheEdits
  <1>9. Over' /\ FirstDrive' /\ Files'
    <2>1. Over' /\ FirstDrive'
      BY <1>1, <1>4 DEF TddInv, Over, FirstDrive, Working
    <2>2. Files'
      BY <1>1, <1>4 DEF TddInv, Files, Finished
    <2> QED
      BY <2>1, <2>2
  <1> QED
    BY <1>7, <1>8, <1>9 DEF TddInv

(* The current item is done with in this phase, with this answer.           *)
LEMMA Advances ==
    ASSUME TddInv, loop.at \in Working \ {"next"},
           NEW answer \in {"passed", "failed", "blocked"}, loop' = Noted(answer),
           TypeOK', Once', Files', UNCHANGED <<item, drives>>,
           RowsBut(Current, loop.phase), Len(runs') = Len(runs),
           \A r \in 1..Len(runs) :
             runs'[r].item = runs[r].item /\ runs'[r].phase = runs[r].phase,
           \A i \in Items \ {Current} : status'[i] = status[i] /\ results'[i] = results[i],
           status'[Current] = IF answer = "passed" THEN "green" ELSE "failed",
           item[Current].command =>
             loop.at = "recorded" /\ answer = loop.answer /\ UNCHANGED <<runs, results>>
    PROVE  TddInv'
  <1>1. loop \in Loop /\ Len(runs) \in Nat /\ loop.todo # {} /\ drives # 0
    BY Types, Start DEF TddInv, Placed, FirstDrive, Working
  <1>2. Current \in loop.todo /\ Current \in Items /\ loop.items \subseteq Items
        /\ loop.todo \subseteq loop.items
    BY <1>1, CurrentIs DEF TddInv, Placed, Loop
  <1>3. /\ loop'.at = "next" /\ loop'.iteration = loop.iteration /\ loop'.items = loop.items
        /\ loop'.todo = loop.todo \ {Current} /\ loop'.phase = loop.phase
        /\ loop'.outcome = loop.outcome
        /\ loop.phase = "pre_red" /\ ~loop'.logicPassed =>
             ~loop.logicPassed /\ ~(answer = "passed" /\ IsLogic(item[Current]))
        /\ loop.phase = "post_green" /\ ~loop'.failed => ~loop.failed /\ answer = "passed"
    BY <1>1 DEF Noted, Loop
  <1>4. Placed'
    BY <1>1, <1>2, <1>3 DEF TddInv, Placed, Working, HasRow
  <1>5. \A i \in Items : Ahead(i)' => i # Current /\ Ahead(i)
    BY <1>3 DEF Ahead, HasRow
  <1>6. ASSUME item[Current].command
        PROVE  /\ runs' = runs /\ loop.run \in 1..Len(runs) /\ loop.run = Len(runs)
               /\ runs[loop.run].item = Current /\ runs[loop.run].phase = loop.phase
               /\ runs[loop.run].status = answer
    BY <1>1, <1>6 DEF TddInv, Placed, HasRow
  <1>7. BeforeTheEdits'
    <2> SUFFICES ASSUME loop.phase = "pre_red" PROVE BeforeTheEdits'
      BY <1>3 DEF BeforeTheEdits
    <2>1. /\ \A i \in loop.todo : item[i].command
          /\ \A i \in loop.items : NotAfter(i)
          /\ \A i \in loop.items : Ahead(i) \/ ~item[i].command => status[i] = "approved"
          /\ ~loop.logicPassed =>
               \A i \in loop.items \ loop.todo : item[i].command => RedOf(i)
      BY DEF TddInv, BeforeTheEdits
    <2>2. item[Current].command
      BY <1>2, <2>1
    <2>3. \A i \in loop.items : NotAfter(i)'
      BY <2>1, <2>2 DEF NotAfter
    <2>4. \A i \in loop.items : Ahead(i)' \/ ~item[i].command => status'[i] = "approved"
      BY <1>2, <1>5, <2>1, <2>2
    <2>5. ASSUME ~loop'.logicPassed, NEW i \in loop.items \ loop'.todo, item[i].command
          PROVE  RedOf(i)'
      <3>1. CASE i = Current
        <4>1. /\ loop.run \in 1..Len(runs') /\ runs'[loop.run].item = i
              /\ runs'[loop.run].phase = "pre_red" /\ runs'[loop.run].status = answer
          BY <1>6, <2>2, <3>1
        <4>2. IsLogic(item[i]) => answer = "failed"
          <5>1. answer \in {"passed", "failed"}
            BY <2>2 DEF TddInv, Placed
          <5> QED
            BY <1>3, <2>5, <3>1, <5>1
        <4> QED
          BY <4>1, <4>2 DEF RedOf
      <3>2. CASE i # Current
        <4>1. RedOf(i)
          BY <1>3, <2>1, <2>5, <3>2
        <4> QED
          BY <1>1, <3>2, <4>1, KeepsRed
      <3> QED
        BY <3>1, <3>2
    <2> QED
      BY <1>2, <1>3, <2>1, <2>3, <2>4, <2>5 DEF BeforeTheEdits
  <1>8. AfterTheEdits'
    <2> SUFFICES ASSUME loop.phase = "post_green" PROVE AfterTheEdits'
      BY <1>3 DEF AfterTheEdits
    <2>1. /\ \A i \in loop.items : item[i].command => RedOf(i)
          /\ \A i \in loop.items : Ahead(i) => NotAfter(i)
          /\ \A i \in loop.items \ loop.todo : status[i] # "approved"
          /\ ~loop.failed => \A i \in loop.items \ loop.todo : Settled(i)
      BY DEF TddInv, AfterTheEdits
    <2>2. ASSUME NEW i \in loop.items, item[i].command PROVE RedOf(i)'
      BY <1>1, <2>1, <2>2, KeepsRed
    <2>3. \A i \in loop.items : Ahead(i)' => NotAfter(i)'
      <3> SUFFICES ASSUME NEW i \in loop.items, Ahead(i)' PROVE NotAfter(i)'
        OBVIOUS
      <3>1. i # Current /\ NotAfter(i) /\ results'[i] = results[i]
        BY <1>2, <1>5, <2>1
      <3> QED
        BY <3>1 DEF NotAfter
    <2>4. ASSUME NEW i \in loop.items \ loop'.todo
          PROVE  status'[i] # "approved" /\ (~loop'.failed => Settled(i)')
      <3>1. CASE i = Current
        <4>1. ASSUME ~loop'.failed, item[i].command PROVE Turned(i)'
          <5>1. PICK red \in 1..Len(runs) :
                  /\ runs[red].item = i /\ runs[red].phase = "pre_red"
                  /\ IsLogic(item[i]) => runs[red].status = "failed"
            BY <2>1, <2>4, <4>1 DEF RedOf
          <5>2. red # loop.run /\ red < loop.run
            BY <1>1, <1>6, <3>1, <4>1, <5>1
          <5>3. runs[loop.run].status = "passed"
            BY <1>3, <1>6, <3>1, <4>1
          <5> QED
            BY <1>6, <3>1, <4>1, <5>1, <5>2, <5>3 DEF Turned
        <4>2. ~loop'.failed => answer = "passed"
          BY <1>3
        <4> QED
          BY <3>1, <4>1, <4>2 DEF Settled
      <3>2. CASE i # Current
        <4>1. /\ status'[i] = status[i] /\ status[i] # "approved"
              /\ ~loop'.failed => Settled(i)
          BY <1>2, <1>3, <2>1, <2>4, <3>2
        <4> QED
          BY <1>1, <3>2, <4>1, KeepsTurned DEF Settled
      <3> QED
        BY <3>1, <3>2
    <2> QED
      BY <1>3, <2>2, <2>3, <2>4 DEF AfterTheEdits
  <1>9. Over' /\ FirstDrive'
    BY <1>1, <1>3 DEF TddInv, Over, FirstDrive, Working
  <1> QED
    BY <1>4, <1>7, <1>8, <1>9 DEF TddInv

LEMMA NotedIsLoop ==
    ASSUME loop \in Loop, NEW answer
    PROVE  Noted(answer) \in Loop /\ Noted(answer).at = "next"
  <1> DEFINE T == loop.todo \ {Current}
             b == loop.logicPassed \/ (answer = "passed" /\ IsLogic(item[Current]))
             c == loop.failed \/ answer # "passed"
  <1>1. T \in SUBSET Items /\ b \in BOOLEAN /\ c \in BOOLEAN
    BY DEF Loop
  <1>2. Noted(answer) \in {[loop EXCEPT !.logicPassed = b, !.at = "next", !.todo = T],
                           [loop EXCEPT !.failed = c, !.at = "next", !.todo = T]}
    BY DEF Noted
  <1> HIDE DEF T, b, c
  <1> QED
    BY <1>1, <1>2 DEF Loop

LEMMA WritesMeta ==
    ASSUME TddInv, WriteMeta
    PROVE  TddInv'
  <1>1. /\ loop \in Loop /\ Len(runs) \in Nat /\ loop.at = "recorded"
        /\ logs \in [Items -> 0..Len(runs)] /\ meta \in [Items -> 0..Len(runs)]
        /\ loop.run = Len(runs) /\ loop.todo # {} /\ item[Current].command
        /\ loop.answer \in {"passed", "failed"} /\ logs[Current] = loop.run
        /\ runs[loop.run].item = Current
        /\ status[Current] = IF loop.answer = "passed" THEN "green" ELSE "failed"
        /\ loop' = Noted(loop.answer) /\ meta' = [meta EXCEPT ![Current] = loop.run]
        /\ UNCHANGED <<item, status, runnable, assets, runs, results, logs, drives>>
    BY Types DEF TddInv, Placed, Working, HasRow, WriteMeta
  <1>2. Current \in Items /\ runs \in Seq(Run)
    BY <1>1, CurrentIs, Types DEF TddInv
  <1>3. /\ meta' \in [Items -> 0..Len(runs)] /\ meta'[Current] = loop.run
        /\ \A i \in Items \ {Current} : meta'[i] = meta[i]
    BY <1>1, <1>2
  <1>4. loop' \in Loop /\ loop'.at = "next"
    BY <1>1, NotedIsLoop
  <1>5. TypeOK' /\ Once'
    <2>1. TypeOK'
      BY <1>1, <1>3, <1>4 DEF TddInv, TypeOK, Loop
    <2> QED
      BY <1>1, <2>1 DEF TddInv, Once
  <1>6. Files'
    <2>1. \A i \in Items : meta'[i] <= logs[i]
      BY <1>1, <1>2, <1>3 DEF TddInv, Files
    <2>2. ASSUME NEW r \in 1..Len(runs), Finished(r)
          PROVE  r <= logs[runs[r].item] /\ (drives = 1 => r <= meta'[runs[r].item])
      <3>1. /\ r <= logs[runs[r].item]
            /\ drives = 1 => r <= meta[runs[r].item] \/ r = loop.run
        BY <1>1, <2>2 DEF TddInv, Files
      <3>2. runs[r].item \in Items
        <4>1. runs[r] \in Run
          BY <1>2
        <4> QED
          BY <4>1 DEF Run
      <3>3. CASE r = loop.run
        BY <1>1, <1>3, <3>1, <3>3
      <3>4. CASE r # loop.run
        BY <1>1, <1>3, <3>1, <3>2, <3>4
      <3> QED
        BY <3>3, <3>4
    <2> QED
      BY <1>1, <1>4, <2>1, <2>2 DEF Files, Finished
  <1>7. RowsBut(Current, loop.phase)
    BY <1>1 DEF RowsBut
  <1> QED
    BY <1>1, <1>5, <1>6, <1>7, Advances DEF Working

LEMMA FinishesAxe ==
    ASSUME TddInv, FinishAxe
    PROVE  TddInv'
  <1>1. /\ loop \in Loop /\ Len(runs) \in Nat /\ loop.at = "axe"
        /\ loop.todo # {} /\ ~item[Current].command
        /\ runs[loop.run].item = Current
        /\ UNCHANGED <<item, runnable, assets, results, logs, meta, drives>>
    BY Types DEF TddInv, Placed, Working, HasRow, FinishAxe
  <1>2. Current \in Items
    BY <1>1, CurrentIs DEF TddInv
  <1>3. PICK answer \in {"passed", "failed"} : FinishRun(answer) /\ loop' = Noted(answer)
    BY DEF FinishAxe
  <1>4. /\ runs' \in Seq(Run) /\ Len(runs') = Len(runs)
        /\ \A r \in 1..Len(runs) :
             /\ runs'[r].item = runs[r].item /\ runs'[r].phase = runs[r].phase
             /\ runs'[r].iteration = runs[r].iteration
             /\ r # loop.run => runs'[r] = runs[r]
        /\ status' \in [Items -> {"approved", "running", "green", "failed"}]
        /\ status'[Current] = IF answer = "passed" THEN "green" ELSE "failed"
        /\ \A i \in Items \ {Current} : status'[i] = status[i]
        /\ RowsBut(Current, loop.phase)
    BY <1>1, <1>3, Finishes DEF HasRow
  <1>5. loop' \in Loop /\ loop'.at = "next"
    BY <1>1, <1>3, NotedIsLoop
  <1>6. TypeOK' /\ Once'
    <2>1. TypeOK'
      BY <1>1, <1>4, <1>5 DEF TddInv, TypeOK, Loop, Run
    <2>2. Once'
      BY <1>1, <1>2, <1>4 DEF TddInv, Once
    <2> QED
      BY <2>1, <2>2
  <1>7. Files'
    <2>1. ASSUME NEW r \in 1..Len(runs), Finished(r)' PROVE Finished(r) /\ runs'[r] = runs[r]
      BY <1>1, <1>4, <2>1 DEF Finished
    <2> QED
      BY <1>1, <1>4, <1>5, <2>1 DEF TddInv, Files
  <1> QED
    BY <1>1, <1>3, <1>4, <1>6, <1>7, Advances DEF Working

LEMMA RecordsResult ==
    ASSUME TddInv, RecordEvidence \/ RecordComparison
    PROVE  TddInv'
  <1>1. /\ loop \in Loop /\ Len(runs) \in Nat /\ loop.at \in {"resolved", "browsing"}
        /\ results \in [Items -> Seq({"passed", "failed", "blocked"})]
        /\ status \in [Items -> {"approved", "running", "green", "failed"}]
        /\ loop.todo # {} /\ ~item[Current].command /\ loop.phase = "post_green"
        /\ UNCHANGED <<item, runnable, assets, runs, logs, meta, drives>>
    BY Types DEF TddInv, Placed, Working, RecordEvidence, RecordComparison
  <1>2. Current \in Items /\ Current \in loop.todo /\ Current \in loop.items
    BY <1>1, CurrentIs DEF TddInv, Placed, Working
  <1>3. PICK answer \in {"passed", "failed", "blocked"} : RecordResult(answer)
    BY DEF RecordEvidence, RecordComparison, TddInv, Placed
  <1>4. results[Current] = <<>>
    BY <1>1, <1>2 DEF TddInv, AfterTheEdits, Working, Ahead, HasRow, NotAfter
  <1>5. /\ results' \in [Items -> Seq({"passed", "failed", "blocked"})]
        /\ Len(results'[Current]) = 1
        /\ \A i \in Items \ {Current} : results'[i] = results[i]
    <2> DEFINE s == Append(results[Current], answer)
    <2>1. s \in Seq({"passed", "failed", "blocked"}) /\ Len(s) = 1
      BY <1>1, <1>2, <1>4
    <2>2. results' = [results EXCEPT ![Current] = s]
      BY <1>3 DEF RecordResult
    <2> HIDE DEF s
    <2> QED
      BY <1>1, <1>2, <2>1, <2>2
  <1>6. /\ status' \in [Items -> {"approved", "running", "green", "failed"}]
        /\ status'[Current] = IF answer = "passed" THEN "green" ELSE "failed"
        /\ \A i \in Items \ {Current} : status'[i] = status[i]
    <2> DEFINE s == IF answer = "passed" THEN "green" ELSE "failed"
    <2>1. s \in {"approved", "running", "green", "failed"}
      OBVIOUS
    <2>2. status' = [status EXCEPT ![Current] = s]
      BY <1>3 DEF RecordResult
    <2> QED
      BY <1>1, <1>2, <2>1, <2>2
  <1>7. loop' = Noted(answer) /\ loop' \in Loop /\ loop'.at = "next"
    BY <1>1, <1>3, NotedIsLoop DEF RecordResult
  <1>8. TypeOK' /\ Once'
    <2>1. TypeOK'
      <3>1. loop' \in Loop'
        BY <1>1, <1>7 DEF Loop
      <3>2. TypeOK
        BY DEF TddInv
      <3>3. /\ item' \in [Items -> Shapes] /\ runnable' \in BOOLEAN
            /\ assets' \in [{"expected", "linked", "task"} -> AssetStatus]
            /\ runs' \in Seq([item : Items, phase : Phases, iteration : 1..MaxIterations,
                              status : {"running", "passed", "failed"}])
            /\ logs' \in [Items -> 0..Len(runs')]
            /\ meta' \in [Items -> 0..Len(runs')]
            /\ drives' \in 0..MaxDrives
        BY <1>1, <3>2 DEF TypeOK
      <3>4. /\ status' \in [Items -> {"approved", "running", "green", "failed"}]
            /\ results' \in [Items -> Seq({"passed", "failed", "blocked"})]
        BY <1>5, <1>6
      <3> QED
        BY <3>1, <3>3, <3>4 DEF TypeOK, Loop
    <2>2. \A i \in Items : status'[i] = "approved" => i # Current /\ status[i] = "approved"
      BY <1>6
    <2>3. \A i \in Items : Len(results'[i]) <= 1
      <3>1. \A i \in Items : Len(results[i]) <= 1
        BY DEF TddInv, Once
      <3> SUFFICES ASSUME NEW i \in Items PROVE Len(results'[i]) <= 1
        OBVIOUS
      <3>2. CASE i = Current
        <4>1. Len(results'[i]) = 1
          BY <1>5, <3>2
        <4> QED
          BY <4>1
      <3>3. CASE i # Current
        <4>1. results'[i] = results[i]
          BY <1>5, <3>3
        <4> QED
          BY <3>1, <4>1
      <3> QED
        BY <3>2, <3>3
    <2>4. Once'
      BY <1>1, <1>5, <2>2, <2>3 DEF TddInv, Once
    <2> QED
      BY <2>1, <2>4
  <1>9. Files' /\ RowsBut(Current, loop.phase)
    BY <1>1, <1>7 DEF TddInv, Files, Finished, RowsBut
  <1> QED
    BY <1>1, <1>5, <1>6, <1>7, <1>8, <1>9, Advances DEF Working

-----------------------------------------------------------------------------
(* Theorems *)

LEMMA StepInv == TddInv /\ [Next]_vars => TddInv'
  <1> SUFFICES ASSUME TddInv, [Next]_vars PROVE TddInv'
    OBVIOUS
  <1>1. CASE Drive \/ Restart
    BY <1>1, Drives, Restarts
  <1>2. CASE ReadContext
    BY <1>2, Reads
  <1>3. CASE StartCommand
    <2>1. /\ loop.at = "next" /\ loop.todo # {} /\ item[Current].command
          /\ CreateRun(Current, loop.phase, loop.iteration)
          /\ loop' = [loop EXCEPT !.at = "started", !.run = Len(runs')]
          /\ UNCHANGED <<item, runnable, assets, results, logs, meta, drives>>
      BY <1>3 DEF StartCommand
    <2> QED
      BY <2>1, Creates
  <1>4. CASE StartAxe
    <2>1. /\ loop.at = "next" /\ loop.todo # {} /\ ~item[Current].command
          /\ CreateRun(Current, "post_green", 1)
          /\ loop' = [loop EXCEPT !.at = "axe", !.run = Len(runs')]
          /\ UNCHANGED <<item, runnable, assets, results, logs, meta, drives>>
      BY <1>4 DEF StartAxe
    <2>2. loop.iteration = 1
      BY <2>1 DEF TddInv, Placed, Working
    <2>3. loop.phase = "post_green"
      <3>1. Current \in loop.todo /\ loop.phase \in Phases
        BY <2>1, CurrentIs, Types DEF TddInv, Loop
      <3> QED
        BY <2>1, <3>1 DEF TddInv, BeforeTheEdits, Working, Phases
    <2> QED
      BY <2>1, <2>2, <2>3, Creates
  <1>5. CASE RunCommand \/ RecordCommand \/ WriteMeta
    BY <1>5, RunsCommand, RecordsCommand, WritesMeta
  <1>6. CASE TurnGreen \/ FinishAxe \/ ResolveAsset
    BY <1>6, Turns, FinishesAxe, ResolvesAsset
  <1>7. CASE RecordEvidence \/ RecordComparison
    BY <1>7, RecordsResult
  <1>8. CASE AbortOnGreen \/ Return \/ Evaluate \/ Retry
    BY <1>8, Ends
  <1>9. CASE \/ \E a \in {"expected", "linked", "task"} : ApproveAsset(a) \/ IngestAsset(a)
             \/ Withdraw \/ UNCHANGED vars
    <2>1. /\ assets \in [{"expected", "linked", "task"} -> AssetStatus]
          /\ runnable \in BOOLEAN
      BY DEF TddInv, TypeOK
    <2>2. /\ assets' \in [{"expected", "linked", "task"} -> AssetStatus]
          /\ runnable' \in BOOLEAN
          /\ UNCHANGED <<item, status, runs, results, logs, meta, loop, drives>>
      BY <1>9, <2>1 DEF ApproveAsset, IngestAsset, Withdraw, vars, AssetStatus
    <2> QED
      BY <2>2, Aside
  <1> QED
    BY <1>1, <1>2, <1>3, <1>4, <1>5, <1>6, <1>7, <1>8, <1>9 DEF Next, LoopStep

LEMMA TddInvariant == Spec => []TddInv
  <1>1. Init => TddInv
    BY InitInv
  <1>2. TddInv /\ [Next]_vars => TddInv'
    BY StepInv
  <1> QED
    BY <1>1, <1>2, PTL DEF Spec

(* The variables of the loop stay in their types.                           *)
THEOREM TypeCorrect == Spec => []TypeOK
  <1>1. TddInv => TypeOK
    BY DEF TddInv
  <1> QED
    BY <1>1, TddInvariant, PTL

(* A loop that passed leaves every item it took green, each command after a *)
(* run before the edits and one that passed after them.                     *)
THEOREM GreenOnlyAfterRed == Spec => []PassedIsRedThenGreen
  <1>1. TddInv => PassedIsRedThenGreen
    <2> SUFFICES ASSUME TddInv, loop.outcome = "passed"
                 PROVE  /\ drives = 1 => \A i \in Items : status[i] = "green"
                        /\ \A i \in loop.items :
                             /\ status[i] = "green"
                             /\ item[i].command =>
                                  \E red \in Ran(i, "pre_red"), green \in Ran(i, "post_green") :
                                    /\ red < green
                                    /\ runs[green].status = "passed"
                                    /\ IsLogic(item[i]) => runs[red].status = "failed"
      BY DEF PassedIsRedThenGreen
    <2>1. \A i \in loop.items : status[i] = "green" /\ (item[i].command => Turned(i))
      BY DEF TddInv, Over, Settled
    <2>2. drives = 1 => loop.items = Items
      BY DEF TddInv, FirstDrive
    <2> QED
      BY <2>1, <2>2 DEF Turned, Ran
  <1> QED
    BY <1>1, TddInvariant, PTL

(* An iteration that aborts ran nothing after the edits.                    *)
THEOREM AbortsBeforeGreen == Spec => []AbortedBeforeGreen
  <1>1. TddInv => AbortedBeforeGreen
    BY DEF TddInv, Over, NotAfter, AbortedBeforeGreen, Ran
  <1> QED
    BY <1>1, TddInvariant, PTL

(* Whatever fails, restarts or is driven again, an item has one row for     *)
(* each phase and one result at most, all of the first iteration.           *)
THEOREM EachItemOnce == Spec => []VerifiedOnce
  <1>1. TddInv => VerifiedOnce
    <2> SUFFICES ASSUME TddInv PROVE VerifiedOnce
      OBVIOUS
    <2>1. ASSUME NEW i \in Items, NEW phase \in Phases
          PROVE  Cardinality(Ran(i, phase)) <= 1
      <3>1. \A q, r \in Ran(i, phase) : q = r
        BY DEF Ran, TddInv, Once
      <3>2. CASE Ran(i, phase) = {}
        BY <3>2, FS_EmptySet
      <3>3. CASE Ran(i, phase) # {}
        <4>1. PICK r \in Ran(i, phase) : TRUE
          BY <3>3
        <4>2. Ran(i, phase) = {r}
          BY <3>1, <4>1
        <4>3. Cardinality({r}) = 1
          BY FS_Singleton
        <4> QED
          BY <4>2, <4>3
      <3> QED
        BY <3>2, <3>3
    <2> QED
      BY <2>1 DEF VerifiedOnce, TddInv, Once
  <1> QED
    BY <1>1, TddInvariant, PTL

(* A command's directory holds its newest finished run; meta.json too,      *)
(* while the first loop is between items.                                   *)
THEOREM FilesAreOfNewestRow == Spec => []FilesFollowRows
  <1>1. TddInv => FilesFollowRows
    BY DEF TddInv, Files, Finished, FilesFollowRows, Ran
  <1> QED
    BY <1>1, TddInvariant, PTL
=============================================================================
