------------------------------ MODULE LiveBlur ------------------------------
(***************************************************************************)
(* The overlay on a live casino game: the page a player keeps open, whose   *)
(* polls are heartbeats (apps/casino/services.py), the daemon that runs one *)
(* watcher for a game somebody watches (run_ai_blur_tracker.py) and writes   *)
(* the region it confirms, and the administrators who edit the game's row.  *)
(* One game; regions are named by the place they cover, ages are in seconds *)
(* and scaled down.                                                         *)
(***************************************************************************)
EXTENDS Integers

CONSTANTS
  None,           \* nobody in the frame, no region, no row, no watcher
  Viewers,        \* the players
  Watchers,       \* bound: the watchers whose coroutines run at one time
  Frames,         \* what the camera may show: a face at a place, to be covered or not
  Fixed,          \* the regions the administrators position by hand
  ViewerStale,    \* AI_TRACKING_VIEWER_STALE_AFTER_SECONDS
  DetectionStale, \* AI_TRACKING_DETECTION_STALE_AFTER_SECONDS
  Throttle,       \* _HEARTBEAT_WRITE_THROTTLE_SECONDS
  Tolerance,      \* POSITION_MATCH_TOLERANCE
  MaxChanges      \* bound: failures, edits, camera moves, pages opened and closed

Face == [at: Int, covered: BOOLEAN]

ASSUME LiveBlurAssumption ==
  /\ None \notin Int
  /\ None \notin Viewers \cup Watchers \cup Fixed
  /\ None \notin Face
  /\ Frames \subseteq Face
  /\ ViewerStale \in Nat
  /\ DetectionStale \in Nat
  /\ Throttle \in 1 .. ViewerStale
  /\ Tolerance \in Nat
  /\ MaxChanges \in Nat

VARIABLES
  open,      \* the players whose page is open
  polled,    \* those whose page polled within this second
  viewers,   \* CasinoLiveViewer: the age of each player's heartbeat
  game,      \* the CasinoGame row: flag, fixed and detected region, the latter's age
  form,      \* what the admin form that is open was rendered with
  daemon,    \* the polling loop: what it does, and whether it found the game active
  current,   \* its watchers dictionary, at this game
  watching,  \* the watchers whose coroutine has not ended
  camera,    \* what the table's camera shows
  unwatched, \* how long no watcher has run
  changes    \* how many of the changes that are bounded there were

vars == <<open, polled, viewers, game, form, daemon, current, watching, camera,
          unwatched, changes>>

web == <<open, polled, viewers, form>>

tracker == <<daemon, current, watching, unwatched>>

MinConsecutive == 2

NoFunction == [w \in {} |-> None]

Init ==
  /\ open \in SUBSET Viewers
  /\ polled = {}
  /\ viewers = [v \in Viewers |-> None]
  /\ \E fixed \in Fixed \cup {None} :
       game = [enabled |-> TRUE, fixed |-> fixed, detected |-> None, age |-> 0]
  /\ form = None
  /\ daemon = [step |-> "down", active |-> FALSE]
  /\ current = None
  /\ watching = NoFunction
  /\ camera \in Frames \cup {None}
  /\ unwatched = DetectionStale + 1
  /\ changes = 0

Change ==
  /\ changes < MaxChanges
  /\ changes' = changes + 1

\* Ages are told apart up to the first one that is too old.
Older(age, limit) == IF age > limit THEN age ELSE age + 1

-----------------------------------------------------------------------------
(* The players' pages *)

OpenPage(v) ==
  /\ Change
  /\ v \notin open
  /\ open' = open \cup {v}
  /\ UNCHANGED <<polled, viewers, game, form, camera, tracker>>

\* The row of a player who leaves stays and grows old.
ClosePage(v) ==
  /\ Change
  /\ v \in open
  /\ open' = open \ {v}
  /\ UNCHANGED <<polled, viewers, game, form, camera, tracker>>

\* record_live_viewer_heartbeat
Heartbeat_OnlyCreated(v) ==
  IF viewers[v] # None THEN viewers ELSE [viewers EXCEPT ![v] = 0]

Heartbeat(v) ==
  IF viewers[v] # None /\ viewers[v] < Throttle
  THEN viewers ELSE [viewers EXCEPT ![v] = 0]

Poll(v) ==
  /\ v \in open
  /\ viewers' = Heartbeat(v)
  /\ polled' = polled \cup {v}
  /\ UNCHANGED <<open, game, form, camera, tracker, changes>>

Shown_WhateverItsAge ==
  IF game.enabled /\ game.detected # None THEN game.detected ELSE game.fixed

\* get_effective_live_blur_region
Shown ==
  IF game.enabled /\ game.detected # None /\ game.age <= DetectionStale
  THEN game.detected ELSE game.fixed

\* An open page polls several times a second.
Second ==
  /\ open \subseteq polled
  /\ polled' = {}
  /\ viewers' = [v \in Viewers |->
                   IF viewers[v] = None THEN None ELSE Older(viewers[v], ViewerStale)]
  /\ game' = [game EXCEPT !.age = Older(@, DetectionStale)]
  /\ form' = IF form = None THEN None
             ELSE [form EXCEPT !.age = Older(@, DetectionStale)]
  /\ unwatched' = IF DOMAIN watching = {} THEN Older(unwatched, DetectionStale) ELSE 0
  /\ UNCHANGED <<open, daemon, current, watching, camera, changes>>

-----------------------------------------------------------------------------
(* The administrators *)

\* admin_casino_game_live_blur_view saves its own column.
PositionFixed ==
  /\ Change
  /\ \E fixed \in Fixed \cup {None} : game' = [game EXCEPT !.fixed = fixed]
  /\ UNCHANGED <<web, camera, tracker>>

\* The page of Django's admin site holds every column of the row, what the
\* daemon wrote included, and saves all of them as they were rendered but for
\* what is edited: the flag.
OpenForm ==
  /\ Change
  /\ form' = [fixed |-> game.fixed, detected |-> game.detected, age |-> game.age]
  /\ UNCHANGED <<open, polled, viewers, game, camera, tracker>>

SaveForm ==
  /\ form # None
  /\ \E enabled \in BOOLEAN :
       game' = [enabled |-> enabled, fixed |-> form.fixed,
                detected |-> form.detected, age |-> form.age]
  /\ form' = None
  /\ UNCHANGED <<open, polled, viewers, camera, tracker, changes>>

MoveCamera ==
  /\ Change
  /\ camera' \in (Frames \cup {None}) \ {camera}
  /\ UNCHANGED <<web, game, tracker>>

-----------------------------------------------------------------------------
(* The daemon's loop *)

\* Somebody runs the command: nothing in the project does.
Start ==
  /\ daemon.step = "down"
  /\ daemon' = [step |-> "idle", active |-> FALSE]
  /\ UNCHANGED <<web, game, current, watching, camera, unwatched, changes>>

\* _get_active_game_ids
Active ==
  /\ game.enabled
  /\ \E v \in Viewers : viewers[v] # None /\ viewers[v] <= ViewerStale

Query ==
  /\ daemon.step = "idle"
  /\ daemon' = [step |-> "acting", active |-> Active]
  /\ UNCHANGED <<web, game, current, watching, camera, unwatched, changes>>

Launching == [step |-> "launching", stop |-> FALSE, center |-> None, streak |-> 0]

StartWatcher ==
  \E w \in Watchers \ DOMAIN watching :
    /\ current' = w
    /\ watching' = [u \in DOMAIN watching \cup {w} |->
                      IF u = w THEN Launching ELSE watching[u]]
    /\ unwatched' = 0

\* It is asked to stop and forgotten, whether it still runs or not.
StopWatcher_Forgotten ==
  /\ watching' = watching
  /\ current' = None
  /\ unwatched' = unwatched

StopWatcher ==
  /\ watching' = [u \in DOMAIN watching |->
                    IF u = current THEN [watching[u] EXCEPT !.stop = TRUE]
                    ELSE watching[u]]
  /\ current' = None
  /\ unwatched' = unwatched

Act ==
  /\ daemon.step = "acting"
  /\ \/ daemon.active /\ current = None /\ StartWatcher
     \/ ~daemon.active /\ current # None /\ StopWatcher
     \/ /\ daemon.active <=> current # None
        /\ UNCHANGED <<current, watching, unwatched>>
  /\ daemon' = [step |-> "idle", active |-> FALSE]
  /\ UNCHANGED <<web, game, camera, changes>>

Cleared == [game EXCEPT !.detected = None, !.age = 0]

\* The process is killed, or stopped: a watcher that is cancelled may get as
\* far as clearing the region, or not.
Die ==
  /\ Change
  /\ daemon.step # "down"
  /\ daemon' = [step |-> "down", active |-> FALSE]
  /\ current' = None
  /\ watching' = NoFunction
  /\ game' \in IF DOMAIN watching = {} THEN {game} ELSE {game, Cleared}
  /\ UNCHANGED <<web, camera, unwatched>>

-----------------------------------------------------------------------------
(* A watcher: GameWatcher.run and _tick *)

At(w, step) == w \in DOMAIN watching /\ watching[w].step = step

Becomes(w, r) == watching' = [watching EXCEPT ![w] = r]

Ends(w) == watching' = [u \in DOMAIN watching \ {w} |-> watching[u]]

unconcerned == <<open, polled, viewers, form, daemon, current, camera, unwatched>>

Launch(w) ==
  /\ At(w, "launching")
  /\ Becomes(w, [watching[w] EXCEPT !.step = "looping"])
  /\ UNCHANGED <<game, unconcerned, changes>>

\* The launch or the loading of the page fails: the coroutine returns, and the
\* dictionary still holds the watcher.
LaunchFails(w) ==
  /\ Change
  /\ At(w, "launching")
  /\ Ends(w)
  /\ UNCHANGED <<game, unconcerned>>

Loop(w) ==
  /\ At(w, "looping")
  /\ Becomes(w, [watching[w] EXCEPT !.step = IF watching[w].stop THEN "closing"
                                             ELSE "shooting"])
  /\ UNCHANGED <<game, unconcerned, changes>>

\* _centers_close, along one axis.
Near(a, b) == a - b \in -Tolerance .. Tolerance

\* The streak is told apart up to the one that confirms.
StreakAt(w, place) ==
  IF watching[w].center # None /\ Near(place, watching[w].center)
  THEN IF watching[w].streak < MinConsecutive THEN watching[w].streak + 1
       ELSE MinConsecutive
  ELSE 1

Seen(w) ==
  IF camera = None
  THEN [watching[w] EXCEPT !.step = "looping", !.center = None, !.streak = 0]
  ELSE [watching[w] EXCEPT
          !.step = IF StreakAt(w, camera.at) = MinConsecutive /\ camera.covered
                   THEN "saving" ELSE "looping",
          !.center = camera.at,
          !.streak = StreakAt(w, camera.at)]

\* The screenshot, the detection on it and the classification.
Shoot(w) ==
  /\ At(w, "shooting")
  /\ Becomes(w, Seen(w))
  /\ UNCHANGED <<game, unconcerned, changes>>

\* A screenshot that fails leaves the streak as it is.
ScreenshotFails(w) ==
  /\ Change
  /\ At(w, "shooting")
  /\ Becomes(w, [watching[w] EXCEPT !.step = "looping"])
  /\ UNCHANGED <<game, unconcerned>>

\* _save_detected_region
Save(w) ==
  /\ At(w, "saving")
  /\ game' = [game EXCEPT !.detected = watching[w].center, !.age = 0]
  /\ Becomes(w, [watching[w] EXCEPT !.step = "looping"])
  /\ UNCHANGED <<unconcerned, changes>>

\* Anything else that raises within a tick ends the loop.
Raise(w) ==
  /\ Change
  /\ At(w, "shooting") \/ At(w, "saving")
  /\ Becomes(w, [watching[w] EXCEPT !.step = "closing"])
  /\ UNCHANGED <<game, unconcerned>>

\* _clear_detected_region, whoever wrote the region.
Close(w) ==
  /\ At(w, "closing")
  /\ game' = Cleared
  /\ Ends(w)
  /\ UNCHANGED <<unconcerned, changes>>

\* The cleanup itself raises, at the browser or at the database, before it has
\* cleared anything: the region stays in the row and the daemon goes on.
CloseFails(w) ==
  /\ Change
  /\ At(w, "closing")
  /\ Ends(w)
  /\ UNCHANGED <<game, unconcerned>>

Watch(w) == Launch(w) \/ Loop(w) \/ Shoot(w) \/ Save(w) \/ Close(w)

Fail(w) == LaunchFails(w) \/ ScreenshotFails(w) \/ Raise(w) \/ CloseFails(w)

-----------------------------------------------------------------------------

Next ==
  \/ \E v \in Viewers : OpenPage(v) \/ ClosePage(v) \/ Poll(v)
  \/ Second
  \/ PositionFixed \/ OpenForm \/ SaveForm \/ MoveCamera
  \/ Start \/ Query \/ Act \/ Die
  \/ \E w \in Watchers : Watch(w) \/ Fail(w)

Spec == Init /\ [][Next]_vars

\* Open pages poll, time passes, and the daemon's coroutines go on while its
\* process lives; nothing starts it again.
Fairness ==
  /\ \A v \in Viewers : WF_vars(Poll(v))
  /\ WF_vars(Second)
  /\ WF_vars(Query)
  /\ WF_vars(Act)
  /\ \A w \in Watchers : WF_vars(Watch(w))

FairSpec == Spec /\ Fairness

-----------------------------------------------------------------------------
(* Properties *)

\* A region the tracker detected is shown only while a watcher runs or ran a
\* few seconds ago: after a crash of the daemon, a watcher that raised, be it in
\* its cleanup, or an admin form that puts an old region back, the page falls
\* back to the fixed region ("a tracker that crashed or fell behind": see
\* get_effective_live_blur_region).
FallsBack ==
  Shown # game.fixed => unwatched <= DetectionStale

\* Once the last player has left no watcher goes on for long, whatever failed,
\* was started again or was stopped late (the docstring of
\* run_ai_blur_tracker: it "never runs for a game nobody currently has open").
WatchersStop ==
  <>[](open = {}) => <>[](DOMAIN watching = {})

\* A watcher whose coroutine ended, or is about to, while the dictionary holds
\* it, because its launch failed or its tick raised: the game is not tracked
\* again before its players have left.
Abandoned ==
  /\ current # None
  /\ current \in DOMAIN watching => At(current, "closing")

\* While somebody watches a game whose tracking is on and whose host is to be
\* covered and stays in place, the region shown is again and again the host's:
\* heartbeats are written often enough, and an old watcher that clears the
\* region late does not silence the new one.
WatchedIsShown ==
  <>[](/\ open # {}
       /\ game.enabled
       /\ daemon.step # "down"
       /\ ~Abandoned
       /\ camera # None /\ camera.covered)
    => []<>(camera # None /\ Shown = camera.at)

=============================================================================
