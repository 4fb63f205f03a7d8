-------------------------------- MODULE Odds --------------------------------
(***************************************************************************)
(* How the odds of a match follow its provider: the poll of a match page    *)
(* (apps/web/views.py) that triggers a refresh (apps/sports/realtime.py),   *)
(* the scheduled sync_odds command, and the administrators who set what     *)
(* prices depend on.  Caches, locks that expire and fetches that take their *)
(* time come between reading and writing.                                   *)
(***************************************************************************)
EXTENDS Pricing, FiniteSets, FiniteSetsExt

CONSTANTS
  Providers,    \* the values of ODDS_PROVIDER considered
  Quotes,       \* what the provider may quote for the match
  Tracked,      \* bound: the selections whose odds and orders are modelled
  Processes,    \* what serves polls of the match page and runs sync_odds
  RefreshModes, \* the refresh modes the match is given
  Adjustments,  \* what the default adjustment, or the match's, is set to
  Modes,        \* the pricing modes of the match and of the site
  Switches,     \* the settings of the two global switches considered
  Spread,       \* the effective lay spread of the match
  MaxChanges    \* bound: changes of the quote and of the settings

MarginPercent == 5

RefreshMode == {"viewer_gated", "always", "manual_only", "stopped"}

ASSUME OddsAssumption ==
  /\ \A q \in Quotes : IsQuote(q)
  /\ Tracked \subseteq Selections
  /\ "home" \in Tracked
  /\ RefreshModes \subseteq RefreshMode
  /\ Adjustments \subseteq Opt(Int)
  /\ 0 \in Adjustments
  /\ Modes \subseteq Mode
  /\ Switches \subseteq [realtime: BOOLEAN, house: BOOLEAN]
  /\ Spread \in Int
  /\ MaxChanges \in Nat

VARIABLES
  provider,   \* the provider the processes are configured with
  feed,       \* what it quotes for the match now
  match,      \* the Match row, with its refresh mode and its PricingOverride
  config,     \* OddsAdjustmentConfig and the switches of the two features
  sportLock,  \* the odds_refresh_lock entry of the cache is there
  changes,    \* how many of the changes that are bounded there were
  proc        \* polls and syncs in progress, on the busy processes

oddsVars == <<provider, feed, match, config, sportLock, changes, proc>>

-----------------------------------------------------------------------------

Put(f, k, v) == [x \in DOMAIN f \cup {k} |-> IF x = k THEN v ELSE f[x]]

Drop(f, k) == [x \in DOMAIN f \ {k} |-> f[x]]

At(p, step) == p \in DOMAIN proc /\ proc[p].step = step

Goto(p, r) == proc' = Put(proc, p, r)

Leave(p) == proc' = Drop(proc, p)

\* The odds written for a quote, those of the selections modelled.
Published(quote, own, default) ==
  LET fair == Normalized(quote, MarginPercent)
  IN  Adjust(Or(own, default), [s \in Tracked \cap DOMAIN fair |-> fair[s]])

OddsInit ==
  /\ provider \in Providers
  /\ feed \in Quotes
  /\ match = [open |-> TRUE, odds |-> Published(feed, None, 0),
              adjustment |-> None, refresh |-> "viewer_gated", mode |-> None]
  /\ \E mode \in Modes :
       config = [realtime |-> TRUE, house |-> TRUE, adjustment |-> 0, mode |-> mode]
  /\ sportLock = FALSE
  /\ changes = 0
  /\ proc = [p \in {} |-> {}]

-----------------------------------------------------------------------------
(* match_odds_poll_view and maybe_refresh_sport_odds *)

\* get_effective_refresh_interval: a match that is over has none.
Timed ==
  /\ config.realtime
  /\ match.refresh \in {"viewer_gated", "always"}
  /\ match.open

\* cache.add: only the first within the interval goes on to fetch.
TakeSportLock(p) ==
  /\ ~sportLock
  /\ sportLock' = TRUE
  /\ Goto(p, [step |-> "fetching"])
  /\ UNCHANGED <<provider, feed, match, config, changes>>

\* A poll that finds too few viewers, or the lock taken, changes nothing.
Poll(p) ==
  /\ p \notin DOMAIN proc
  /\ Timed
  /\ TakeSportLock(p)

\* ?refresh=manual, whatever the status of the match.
ManualRefresh(p) ==
  /\ p \notin DOMAIN proc
  /\ config.realtime
  /\ match.refresh = "manual_only"
  /\ TakeSportLock(p)

\* The provider answers; then the default adjustment and the matches of the
\* quote that are open are read.
Answer(p) ==
  /\ At(p, "fetching")
  /\ IF match.open
     THEN Goto(p, [step |-> "listed",
                   odds |-> Published(feed, match.adjustment, config.adjustment)])
     ELSE Leave(p)
  /\ UNCHANGED <<provider, feed, match, config, sportLock, changes>>

\* The update writes the odds and nothing else, whatever happened meanwhile.
WriteOdds(p) ==
  /\ At(p, "listed")
  /\ match' = [match EXCEPT !.odds = proc[p].odds]
  /\ Goto(p, [step |-> "written", odds |-> proc[p].odds])
  /\ UNCHANGED <<provider, feed, config, sportLock, changes>>

\* The fetch raises, or the process dies: the lock stays.
Dies(p) ==
  /\ p \in DOMAIN proc
  /\ Leave(p)
  /\ UNCHANGED <<provider, feed, match, config, sportLock, changes>>

ExpireSportLock ==
  /\ sportLock
  /\ sportLock' = FALSE
  /\ UNCHANGED <<provider, feed, match, config, changes, proc>>

-----------------------------------------------------------------------------
(* sync_odds: with another provider than the mock it calls _process_match     *)
(* with an argument missing, and raises before it writes anything             *)

SyncRead(p) ==
  /\ p \notin DOMAIN proc
  /\ provider = "mock"
  /\ Goto(p, [step |-> "existing",
              odds |-> Published(feed, match.adjustment, config.adjustment)])
  /\ UNCHANGED <<provider, feed, match, config, sportLock, changes>>

\* update_or_create finds the match whatever its status, and schedules it.
SyncWrite(p) ==
  /\ At(p, "existing")
  /\ match' = [match EXCEPT !.odds = proc[p].odds, !.open = TRUE]
  /\ Goto(p, [step |-> "written", odds |-> proc[p].odds])
  /\ UNCHANGED <<provider, feed, config, sportLock, changes>>

-----------------------------------------------------------------------------
(* The world and the administrators *)

Change ==
  /\ changes < MaxChanges
  /\ changes' = changes + 1

\* The mock provider quotes the same for ever.
Requote ==
  /\ Change
  /\ provider # "mock"
  /\ feed' \in Quotes \ {feed}
  /\ UNCHANGED <<provider, match, config, sportLock, proc>>

\* sync_results or the settlement view.  A scheduled match is refreshed and
\* seeded as a live one is: the model does not tell them apart.
Finish ==
  /\ match.open
  /\ match' = [match EXCEPT !.open = FALSE]
  /\ UNCHANGED <<provider, feed, config, sportLock, changes, proc>>

\* admin_odds_adjustment_view: the match's own adjustment, or the default.
AdjustMatch ==
  /\ Change
  /\ \E a \in Adjustments : match' = [match EXCEPT !.adjustment = a]
  /\ UNCHANGED <<provider, feed, config, sportLock, proc>>

AdjustDefault ==
  /\ Change
  /\ \E a \in Adjustments \ {None} : config' = [config EXCEPT !.adjustment = a]
  /\ UNCHANGED <<provider, feed, match, sportLock, proc>>

PlainMode ==
  [back |-> "api", backValue |-> [s \in Selections |-> None],
   lay |-> "api_lay", delta |-> None, layValue |-> [s \in Selections |-> None]]

\* admin_pricing_overrides_view makes the row of the match before it checks
\* what it is to hold: a refused form leaves one that prices by the API.
OverrideMode ==
  /\ Change
  /\ \E m \in Modes \cup {PlainMode, None} : match' = [match EXCEPT !.mode = m]
  /\ UNCHANGED <<provider, feed, config, sportLock, proc>>

\* Django admin: the refresh mode of the match and the two global switches.
SetRefresh ==
  /\ Change
  /\ \E r \in RefreshModes : match' = [match EXCEPT !.refresh = r]
  /\ UNCHANGED <<provider, feed, config, sportLock, proc>>

Switch ==
  /\ Change
  /\ \E on \in Switches :
       config' = [config EXCEPT !.realtime = on.realtime, !.house = on.house]
  /\ UNCHANGED <<provider, feed, match, sportLock, proc>>

Refresh(p) == Poll(p) \/ ManualRefresh(p) \/ Answer(p) \/ WriteOdds(p)

Sync(p) == SyncRead(p) \/ SyncWrite(p)

Administration == AdjustMatch \/ AdjustDefault \/ OverrideMode \/ SetRefresh \/ Switch

World == Requote \/ Finish

=============================================================================
