--------------------------- MODULE LiveBlurProofs ---------------------------
(***************************************************************************)
(* Proofs about LiveBlur: whatever is shown of the tracker's detections is   *)
(* as recent as the last watcher.                                           *)
(***************************************************************************)
EXTENDS LiveBlur, TLAPS

\* A row of the game, or what a form holds of one.
Row == [enabled |-> game.enabled, fixed |-> game.fixed,
        detected |-> game.detected, age |-> game.age]

Held == [fixed |-> form.fixed, detected |-> form.detected, age |-> form.age]

Ages ==
  /\ game = Row
  /\ game.age \in Nat
  /\ form # None => form = Held /\ form.age \in Nat
  /\ unwatched \in Nat

\* No region, in the row or in a form, is younger than the last watcher.
Aged ==
  /\ game.detected # None => unwatched <= game.age
  /\ form # None /\ form.detected # None => unwatched <= form.age

Running == DOMAIN watching # {} => unwatched = 0

IInv == Ages /\ Aged /\ Running

LEMMA InitAged == Init => IInv
<1> SUFFICES ASSUME Init PROVE IInv
  OBVIOUS
<1>1. PICK fixed \in Fixed \cup {None} :
        game = [enabled |-> TRUE, fixed |-> fixed, detected |-> None, age |-> 0]
  BY DEF Init
<1>2. Ages
  BY <1>1, LiveBlurAssumption DEF Init, Ages, Row
<1>3. Aged
  BY <1>1 DEF Init, Aged
<1>4. Running
  BY DEF Init, Running, NoFunction
<1> QED
  BY <1>2, <1>3, <1>4 DEF IInv

\* What leaves ages alone and starts no watcher keeps the invariant.
LEMMA Undisturbed ==
  ASSUME IInv, UNCHANGED <<game, form, unwatched>>,
         DOMAIN watching' # {} => DOMAIN watching # {}
  PROVE  IInv'
  BY DEF IInv, Ages, Aged, Running, Row, Held

\* A row without a region, or with a new one while a watcher runs.
LEMMA Rewritten ==
  ASSUME IInv, UNCHANGED <<form, unwatched>>,
         NEW fixed, NEW enabled, NEW detected, NEW age \in Nat,
         game' = [enabled |-> enabled, fixed |-> fixed,
                  detected |-> detected, age |-> age],
         detected # None => unwatched <= age,
         DOMAIN watching' # {} => DOMAIN watching # {}
  PROVE  IInv'
<1>1. game'.age = age /\ game'.detected = detected
  OBVIOUS
<1>2. Ages'
  <2>1. game' = Row'
    BY DEF Row
  <2>2. form' # None => form' = Held' /\ form'.age \in Nat
    BY DEF IInv, Ages, Held
  <2> QED
    BY <1>1, <2>1, <2>2 DEF IInv, Ages
<1>3. Aged'
  BY <1>1 DEF IInv, Aged
<1>4. Running'
  BY DEF IInv, Running
<1> QED
  BY <1>2, <1>3, <1>4 DEF IInv

LEMMA SecondKeeps == IInv /\ Second => IInv'
<1> SUFFICES ASSUME IInv, Second PROVE IInv'
  OBVIOUS
<1> USE LiveBlurAssumption
<1>1. game = Row /\ game.age \in Nat /\ unwatched \in Nat
  BY DEF IInv, Ages
<1>2. game' = [game EXCEPT !.age = Older(game.age, DetectionStale)]
  BY DEF Second
<1>3. /\ game' = Row'
      /\ game'.age = Older(game.age, DetectionStale)
      /\ game'.detected = game.detected
  BY <1>1, <1>2 DEF Row
<1>4. form = None => form' = None
  BY DEF Second
<1>5. ASSUME form # None
      PROVE  /\ form' = Held'
             /\ form'.age = Older(form.age, DetectionStale)
             /\ form'.detected = form.detected
             /\ form.age \in Nat
  <2>1. form = Held /\ form.age \in Nat
    BY <1>5 DEF IInv, Ages
  <2>2. form' = [form EXCEPT !.age = Older(form.age, DetectionStale)]
    BY <1>5 DEF Second
  <2> QED
    BY <2>1, <2>2 DEF Held
<1>6. CASE DOMAIN watching = {}
  <2>1. unwatched' = Older(unwatched, DetectionStale)
    BY <1>6 DEF Second
  <2>2. Running'
    BY <1>6 DEF Second, Running
  <2>3. Ages'
    BY <1>1, <1>3, <1>4, <1>5, <2>1 DEF Ages, Older
  <2>4. game'.detected # None => unwatched' <= game'.age
    BY <1>1, <1>3, <2>1 DEF IInv, Aged, Older
  <2>5. form' # None /\ form'.detected # None => unwatched' <= form'.age
    BY <1>1, <1>4, <1>5, <2>1 DEF IInv, Aged, Older
  <2> QED
    BY <2>2, <2>3, <2>4, <2>5 DEF IInv, Aged
<1>7. CASE DOMAIN watching # {}
  <2>1. unwatched' = 0
    BY <1>7 DEF Second
  <2>2. Running'
    BY <2>1 DEF Running
  <2>3. Ages'
    BY <1>1, <1>3, <1>4, <1>5, <2>1 DEF Ages, Older
  <2>4. Aged'
    BY <1>4, <1>5, <2>1, <2>3 DEF Aged, Ages
  <2> QED
    BY <2>2, <2>3, <2>4 DEF IInv
<1> QED
  BY <1>6, <1>7

LEMMA StepKeeps == IInv /\ [Next]_vars => IInv'
<1> SUFFICES ASSUME IInv, [Next]_vars PROVE IInv'
  OBVIOUS
<1> USE LiveBlurAssumption
<1>0. /\ game = Row /\ game.age \in Nat /\ unwatched \in Nat
      /\ game.detected # None => unwatched <= game.age
      /\ form # None => form = Held /\ form.age \in Nat
      /\ form # None /\ form.detected # None => unwatched <= form.age
  BY DEF IInv, Ages, Aged
<1>1. ASSUME NEW v \in Viewers, OpenPage(v) \/ ClosePage(v) \/ Poll(v) PROVE IInv'
  BY <1>1, Undisturbed DEF OpenPage, ClosePage, Poll, tracker
<1>2. CASE Second
  BY <1>2, SecondKeeps
<1>3. CASE PositionFixed
  <2>1. PICK fixed \in Fixed \cup {None} : game' = [game EXCEPT !.fixed = fixed]
    BY <1>3 DEF PositionFixed
  <2>2. game' = [enabled |-> game.enabled, fixed |-> fixed,
                 detected |-> game.detected, age |-> game.age]
    BY <1>0, <2>1 DEF Row
  <2>3. UNCHANGED <<form, unwatched, watching>>
    BY <1>3 DEF PositionFixed, web, tracker
  <2> QED
    BY <1>0, <2>2, <2>3, Rewritten
<1>4. CASE OpenForm
  <2>1. /\ form' = [fixed |-> game.fixed, detected |-> game.detected, age |-> game.age]
        /\ UNCHANGED <<game, unwatched, watching>>
    BY <1>4 DEF OpenForm, tracker
  <2>2. form' = Held' /\ form'.age = game.age /\ form'.detected = game.detected
    BY <2>1 DEF Held
  <2>3. Ages'
    BY <1>0, <2>1, <2>2 DEF Ages, Row
  <2>4. Aged'
    BY <1>0, <2>1, <2>2 DEF Aged
  <2> QED
    BY <2>1, <2>3, <2>4 DEF IInv, Running
<1>5. CASE SaveForm
  <2>1. PICK enabled \in BOOLEAN :
          game' = [enabled |-> enabled, fixed |-> form.fixed,
                   detected |-> form.detected, age |-> form.age]
    BY <1>5 DEF SaveForm
  <2>2. form # None /\ form' = None /\ UNCHANGED <<unwatched, watching>>
    BY <1>5 DEF SaveForm, tracker
  <2>3. game' = Row' /\ game'.age = form.age /\ game'.detected = form.detected
    BY <2>1 DEF Row
  <2>4. Ages'
    BY <1>0, <2>2, <2>3 DEF Ages
  <2>5. Aged'
    BY <1>0, <2>2, <2>3 DEF Aged
  <2> QED
    BY <2>2, <2>4, <2>5 DEF IInv, Running
<1>6. CASE MoveCamera
  BY <1>6, Undisturbed DEF MoveCamera, web, tracker
<1>7. CASE Start \/ Query
  BY <1>7, Undisturbed DEF Start, Query, web
<1>8. CASE Act
  <2>1. UNCHANGED <<game, form>>
    BY <1>8 DEF Act, web
  <2>2. CASE StartWatcher
    <3>1. unwatched' = 0
      BY <2>2 DEF StartWatcher
    <3> QED
      BY <1>0, <2>1, <3>1 DEF IInv, Ages, Aged, Running, Row, Held
  <2>3. CASE StopWatcher
    BY <2>1, <2>3, Undisturbed DEF StopWatcher
  <2>4. CASE UNCHANGED <<current, watching, unwatched>>
    BY <2>1, <2>4, Undisturbed
  <2> QED
    BY <1>8, <2>2, <2>3, <2>4 DEF Act
<1>9. CASE Die
  <2>1. UNCHANGED <<form, unwatched>> /\ DOMAIN watching' = {}
    BY <1>9 DEF Die, web, NoFunction
  <2>2. game' = game \/ game' = Cleared
    BY <1>9 DEF Die
  <2>3. CASE game' = game
    BY <2>1, <2>3, Undisturbed
  <2>4. CASE game' = Cleared
    <3>1. game' = [enabled |-> game.enabled, fixed |-> game.fixed,
                   detected |-> None, age |-> 0]
      BY <1>0, <2>4 DEF Cleared, Row
    <3> QED
      BY <2>1, <3>1, Rewritten
  <2> QED
    BY <2>2, <2>3, <2>4
<1>10. ASSUME NEW w \in Watchers, Watch(w) \/ Fail(w) PROVE IInv'
  <2>1. CASE Launch(w) \/ Loop(w) \/ Shoot(w) \/ ScreenshotFails(w) \/ Raise(w)
    BY <2>1, Undisturbed
    DEF Launch, Loop, Shoot, ScreenshotFails, Raise, Becomes, unconcerned
  <2>2. CASE LaunchFails(w) \/ CloseFails(w)
    BY <2>2, Undisturbed DEF LaunchFails, CloseFails, Ends, At, unconcerned
  <2>3. CASE Save(w)
    <3>1. UNCHANGED <<form, unwatched>> /\ DOMAIN watching' = DOMAIN watching
      BY <2>3 DEF Save, Becomes, unconcerned
    <3>2. unwatched = 0
      BY <2>3 DEF Save, At, IInv, Running
    <3>3. game' = [enabled |-> game.enabled, fixed |-> game.fixed,
                   detected |-> watching[w].center, age |-> 0]
      BY <1>0, <2>3 DEF Save, Row
    <3> QED
      BY <3>1, <3>2, <3>3, Rewritten
  <2>4. CASE Close(w)
    <3>1. /\ UNCHANGED <<form, unwatched>>
          /\ DOMAIN watching' # {} => DOMAIN watching # {}
      BY <2>4 DEF Close, Ends, unconcerned
    <3>2. game' = [enabled |-> game.enabled, fixed |-> game.fixed,
                   detected |-> None, age |-> 0]
      BY <1>0, <2>4 DEF Close, Cleared, Row
    <3> QED
      BY <3>1, <3>2, Rewritten
  <2> QED
    BY <1>10, <2>1, <2>2, <2>3, <2>4 DEF Watch, Fail
<1>11. CASE UNCHANGED vars
  BY <1>11, Undisturbed DEF vars
<1> QED
  BY <1>1, <1>2, <1>3, <1>4, <1>5, <1>6, <1>7, <1>8, <1>9, <1>10, <1>11 DEF Next

\* What the invariant is for.
LEMMA AgedFallsBack == IInv => FallsBack
  BY LiveBlurAssumption DEF IInv, Ages, Aged, FallsBack, Shown

\* A detected region is never shown longer than its staleness after the last
\* watcher, whatever crashes, fails, or is saved from an old form.
THEOREM OldDetectionsFallBack == Spec => []FallsBack
<1>1. Init => IInv
  BY InitAged
<1>2. IInv /\ [Next]_vars => IInv'
  BY StepKeeps
<1>3. IInv => FallsBack
  BY AgedFallsBack
<1> QED
  BY <1>1, <1>2, <1>3, PTL DEF Spec

=============================================================================
