--------------------------------- MODULE Tui ---------------------------------
(***************************************************************************)
(* The terminal interface: a loop that polls what others have done for it, *)
(* plays a replay on, draws when something it shows has changed, and       *)
(* handles at most one key.  Keys go to the overlay that is open, or to    *)
(* the main view.  The other tasks write the sessions between any two of   *)
(* these.  Widths, colours, text cursors, status messages, the state of    *)
(* the PeeringDB cache and the rows of the target list (refreshed every    *)
(* thirty ticks) are left out.                                             *)
(*                                                                         *)
(* targets is a sequence, and the selected target and hop are indices from *)
(* 0, as in the code.                                                      *)
(***************************************************************************)
EXTENDS Lifecycle, Player

CONSTANTS
    NumThemes,
    KeyText         \* what is typed as a PeeringDB key

\* There are themes, and one that is saved or asked for is among them.
ASSUME ThemesAssumption ==
    /\ NumThemes \in Nat \ {0}
    /\ \A p \in Profiles :
        /\ DOMAIN p.prefs = {"theme", "display", "key", "check"} /\ p.prefs.theme \in 0..(NumThemes - 1)
        /\ p.theme \in {None} \cup 0..(NumThemes - 1)

VARIABLES
    ui,     \* UiState
    rp,     \* the player, None in a live or a static session
    look,   \* the fingerprint of a drawing that is due, or None
    drawn,  \* the fingerprint last drawn, and the screen drawn for it
    prefs   \* the preferences file

tuiVars == <<ui, rp, look, drawn, prefs>>
-----------------------------------------------------------------------------
NoInput == [text |-> None, pending |-> None, resolving |-> FALSE, error |-> FALSE]
NewSettings(theme, display, key) ==
    [section |-> 0, theme |-> theme, display |-> display, key |-> key, check |-> TRUE]

\* The saved preferences, under the ones of the command line.
LoadPrefs(p) ==
    [p.prefs EXCEPT !.theme = IF p.theme # None THEN p.theme ELSE @,
                    !.display = IF p.wide THEN 2 ELSE @]

InitUi(p) ==
    LET saved == LoadPrefs(p)
        settings == NewSettings(saved.theme, saved.display, saved.key)
    IN  [targets |-> StartTargets, selected |-> 0, hop |-> None, paused |-> FALSE, overlay |-> "none",
         listIndex |-> 0, theme |-> saved.theme, display |-> saved.display,
         settings |-> [settings EXCEPT !.check = saved.check], input |-> NoInput,
         update |-> p.update, step |-> "poll", left |-> p.keysLeft, nextId |-> 1]

TuiInit ==
    /\ ui = InitUi(profile)
    /\ rp = IF RunMode = "replay" /\ profile.events # <<>> THEN NewPlayer(profile.events, Args.speed) ELSE None
    /\ look = None /\ drawn = None
    /\ prefs = profile.prefs

Shows == stage = "tui" /\ Running
Target(u) == IF u.selected < Len(u.targets) THEN u.targets[u.selected + 1] ELSE None
HasSession(u) == Target(u) \in DOMAIN sessions
SessionOf(u) == sessions[Target(u)]
PausedAt(u) == HasSession(u) /\ SessionOf(u).paused
IxEnabled == "ix" \in DOMAIN worker

\* The hops a session has.
HopLimit(ip) == Higher(Cfg.maxTtl, Len(profile.path[ip]))

\* The hops the keys go through: those probed since the last reset, which are
\* all there are if the destination was not known in the first round.
HopCount(u) ==
    IF ~HasSession(u) THEN 0
    ELSE IF rp # None THEN IF rp.shown = <<>> THEN 0 ELSE 1
    ELSE IF SessionOf(u).sent = 0 THEN 0
    ELSE IF SessionOf(u).beyond THEN Cfg.maxTtl ELSE Len(profile.path[Target(u)])
-----------------------------------------------------------------------------
(* Drawing. *)

\* The state the drawing depends on; what has the fingerprint of the last drawing
\* is not drawn again.  Mutant: the target chosen in the list is forgotten.
FingerprintSansList ==
    [generation |-> IF HasSession(ui) THEN SessionOf(ui).gen ELSE None,
     targets |-> Len(ui.targets), selected |-> ui.selected, hop |-> ui.hop, paused |-> ui.paused,
     overlay |-> ui.overlay, theme |-> ui.theme, display |-> ui.display, settings |-> ui.settings,
     update |-> ui.update = "available", input |-> <<ui.input.text, ui.input.error, ui.input.resolving>>,
     player |-> IF rp = None THEN <<>> ELSE <<rp.paused, rp.finished, rp.index, Position(rp), rp.speed>>]
Fingerprint ==
    [generation |-> IF HasSession(ui) THEN SessionOf(ui).gen ELSE None,
     targets |-> Len(ui.targets), selected |-> ui.selected, hop |-> ui.hop, paused |-> ui.paused,
     overlay |-> ui.overlay, listIndex |-> ui.listIndex,
     theme |-> ui.theme, display |-> ui.display, settings |-> ui.settings,
     update |-> ui.update = "available", input |-> <<ui.input.text, ui.input.error, ui.input.resolving>>,
     player |-> IF rp = None THEN <<>> ELSE <<rp.paused, rp.finished, rp.index, Position(rp), rp.speed>>]

\* What is shown of a session, and of the interface around it: the main view, the
\* overlay that is open, the progress of a replay but for its clock, which goes on
\* while the screen is drawn.
Shown(s) == <<s.paused, s.sent, s.seen, s.labels>>
MainView == <<ui.selected + 1, Len(ui.targets), ui.hop, ui.paused, ui.theme, ui.display, ui.update = "available">>
Overlay ==
    CASE ui.overlay = "settings" -> <<"settings", ui.settings>>
      [] ui.overlay = "list"     -> <<"list", ui.listIndex>>
      [] ui.overlay = "input"    -> <<"input", ui.input.text, ui.input.error, ui.input.resolving>>
      [] OTHER -> <<ui.overlay>>
ProgressBar == IF rp = None THEN <<>> ELSE <<rp.finished, rp.paused, rp.index, rp.speed>>

\* What a drawing shows, of a snapshot of the session made for it.
Screen ==
    [target |-> Target(ui),
     session |-> IF HasSession(ui) THEN Shown(SessionOf(ui)) ELSE None,
     shown |-> IF rp = None THEN None ELSE rp.shown,
     chrome |-> <<MainView, Overlay, ProgressBar>>]

\* The session of a replay is written when the player applies events; one made
\* anew starts over with the generation of its first write.
Played(s, p, q) ==
    IF q.index < p.index THEN [s EXCEPT !.gen = 1]
    ELSE IF q.index > p.index THEN Written(s) ELSE s
PlayInto(q) ==
    /\ rp' = q
    /\ sessions' = IF rp # None /\ HasSession(ui)
                   THEN [sessions EXCEPT ![Target(ui)] = Played(@, rp, q)] ELSE sessions
-----------------------------------------------------------------------------
(* The top of the loop. *)

\* An answer of the manager: the target joins the others and is selected.
AfterReply(u, r) ==
    IF r.result \in {"added", "existed"}
    THEN LET targets == IF Contains(u.targets, r.ip) THEN u.targets ELSE Append(u.targets, r.ip)
         IN  [u EXCEPT !.input = NoInput, !.overlay = IF @ = "input" THEN "none" ELSE @, !.targets = targets,
                       !.selected = (CHOOSE i \in 1..Len(targets) : targets[i] = r.ip) - 1, !.hop = None]
    ELSE [u EXCEPT !.input.pending = None, !.input.resolving = FALSE, !.input.error = TRUE]

PollAddTarget(u) ==
    LET answers == {r \in replies : r.id = u.input.pending}
    IN  IF answers = {} THEN u ELSE AfterReply(u, CHOOSE r \in answers : TRUE)

\* The check for a newer release answers once, or never.
PollUpdate(u) ==
    IF u.update = "checking" THEN {u, [u EXCEPT !.update = "available"], [u EXCEPT !.update = "none"]} ELSE {u}

\* A turn of the loop: polls, and the tick of the player.
Frame ==
    /\ Shows /\ ui.step \in {"poll", "keys"} /\ ~cancelled
    /\ \E u \in PollUpdate(PollAddTarget(ui)) : ui' = [u EXCEPT !.step = "look"]
    /\ PlayInto(IF rp = None THEN None ELSE Tick(rp))
    /\ UNCHANGED <<look, drawn, prefs, profile, mainVars, pending, taskVars, mgrVars, emitted>>

DrawingUnchanged == UNCHANGED <<rp, prefs, lifecycleVars>>

\* The generation of the session is read, and released.
Look ==
    /\ Shows /\ ui.step = "look"
    /\ IF drawn # None /\ drawn.fp = Fingerprint
       THEN ui' = [ui EXCEPT !.step = "keys"] /\ UNCHANGED look
       ELSE ui' = [ui EXCEPT !.step = "draw"] /\ look' = Fingerprint
    /\ DrawingUnchanged /\ UNCHANGED drawn

\* Then a snapshot of it is drawn, which may be newer.
Draw ==
    /\ Shows /\ ui.step = "draw"
    /\ drawn' = [fp |-> look, screen |-> Screen]
    /\ look' = None
    /\ ui' = [ui EXCEPT !.step = "keys"]
    /\ DrawingUnchanged

\* Mutant: the snapshot comes first.
RenderOlder ==
    /\ Shows
    /\ \/ /\ ui.step = "look" /\ ui' = [ui EXCEPT !.step = "draw"]
          /\ look' = Screen /\ UNCHANGED drawn
       \/ /\ ui.step = "draw" /\ ui' = [ui EXCEPT !.step = "keys"]
          /\ look' = None /\ drawn' = [fp |-> Fingerprint, screen |-> look]
    /\ DrawingUnchanged
Render == Look \/ Draw

\* Wall-clock time passes between two ticks of a replay.
Pass(ms) ==
    /\ Shows /\ rp # None /\ ~rp.paused /\ ~rp.finished
    /\ Position(rp) <= Duration(rp)
    /\ rp' = [rp EXCEPT !.elapsed = @ + ms]
    /\ UNCHANGED <<ui, look, drawn, prefs, lifecycleVars>>
-----------------------------------------------------------------------------
(* Keys that only change what is shown, by overlay. *)

Wrap(i, n) == i % n
InRange(i, n) == IF i < n THEN i ELSE IF n = 0 THEN 0 ELSE n - 1   \* min(n.saturating_sub(1))

InDetail(u, k) ==
    CASE k = "up"   -> [u EXCEPT !.hop = IF @ > 0 THEN @ - 1 ELSE 0]
      [] k = "down" -> [u EXCEPT !.hop = InRange(@ + 1, HopCount(u))]
      [] k = "2"    -> [u EXCEPT !.hop = InRange(1, HopCount(u))]
      [] k \in {"esc", "enter", "q"} -> [u EXCEPT !.overlay = "none"]
      [] OTHER -> u

\* The list is open only with several targets, whose number never falls.
SelectFromList(u, i) ==
    LET v == [u EXCEPT !.selected = i, !.hop = None, !.overlay = "none"]
    IN  [v EXCEPT !.paused = PausedAt(v)]
InList(u, k) ==
    LET n == Len(u.targets)
    IN  CASE k = "esc"   -> [u EXCEPT !.overlay = "none"]
          [] k = "enter" -> SelectFromList(u, u.listIndex)
          [] k = "up"    -> [u EXCEPT !.listIndex = IF @ > 0 THEN @ - 1 ELSE n - 1]
          [] k = "down"  -> [u EXCEPT !.listIndex = Wrap(@ + 1, n)]
          [] k = "2" /\ n >= 2 -> SelectFromList([u EXCEPT !.listIndex = 1], 1)
          [] OTHER -> u

Sections == IF IxEnabled THEN 4 ELSE 3
ApplySettings(u) ==
    [u EXCEPT !.theme = u.settings.theme, !.display = u.settings.display, !.overlay = "none"]
MoveTheme(u, i) == IF u.settings.section = 0 THEN [u EXCEPT !.settings.theme = i, !.theme = i] ELSE u
InSettings(u, k) ==
    LET s == u.settings
    IN  IF s.section = 2 /\ IxEnabled
        THEN CASE k = "esc"  -> ApplySettings(u)
               [] k = "tab"  -> [u EXCEPT !.settings.section = 3]
               [] k = "type" -> [u EXCEPT !.settings.key = KeyText]
               [] k = "back" -> [u EXCEPT !.settings.key = None]
               [] OTHER -> u
        ELSE CASE k = "esc"  -> ApplySettings(u)
               [] k = "up"   -> MoveTheme(u, IF s.theme > 0 THEN s.theme - 1 ELSE 0)
               [] k = "down" -> MoveTheme(u, IF s.theme + 1 < NumThemes THEN s.theme + 1 ELSE s.theme)
               [] k = "tab"  -> [u EXCEPT !.settings.section = Wrap(@ + 1, Sections)]
               [] k = "enter" /\ s.section = Sections - 1 -> [u EXCEPT !.settings.check = ~@]
               [] k = "enter" /\ s.section = 1 ->
                    [u EXCEPT !.settings.display = Wrap(@ + 1, 3), !.display = Wrap(s.display + 1, 3)]
               [] OTHER -> u

\* Typing goes on while a host is being resolved.
InInput(u, k) ==
    IF k = "esc" THEN {[u EXCEPT !.input = NoInput, !.overlay = "none"]}
    ELSE IF k = "type" THEN {[u EXCEPT !.input.text = host] : host \in profile.adds}
    ELSE IF k = "back" THEN {[u EXCEPT !.input.text = None]}
    ELSE {u}

\* The statistics of the session on the screen are switched to.
SwitchTo(u, i) ==
    LET v == [u EXCEPT !.selected = i, !.hop = None] IN [v EXCEPT !.paused = PausedAt(v)]
InMain(u, k) ==
    LET n == Len(u.targets)
        hops == HopCount(u)
    IN  CASE k = "?" -> [u EXCEPT !.overlay = "help"]
          [] k = "tab" /\ n > 1 -> SwitchTo(u, Wrap(u.selected + 1, n))
          [] k = "N" /\ n > 1 -> SwitchTo(u, IF u.selected = 0 THEN n - 1 ELSE u.selected - 1)
          [] k = "t" -> [u EXCEPT !.theme = Wrap(@ + 1, NumThemes), !.settings.theme = Wrap(u.theme + 1, NumThemes)]
          [] k = "w" -> [u EXCEPT !.display = Wrap(@ + 1, 3), !.settings.display = Wrap(u.display + 1, 3)]
          [] k = "s" -> [u EXCEPT !.overlay = "settings",
                            !.settings = [NewSettings(u.theme, u.display, @.key) EXCEPT !.check = u.settings.check]]
          [] k = "o" /\ rp = None /\ RunMode = "interactive" -> [u EXCEPT !.overlay = "input", !.input = NoInput]
          [] k = "l" /\ n > 1 -> [u EXCEPT !.overlay = "list", !.listIndex = u.selected]
          [] k = "u" /\ u.update = "available" -> [u EXCEPT !.update = "none"]
          [] k = "up" /\ hops > 0 -> [u EXCEPT !.hop = IF @ = None \/ @ = 0 THEN hops - 1 ELSE @ - 1]
          [] k = "down" /\ hops > 0 -> [u EXCEPT !.hop = IF @ = None \/ @ >= hops - 1 THEN 0 ELSE @ + 1]
          [] k = "enter" /\ u.hop # None -> [u EXCEPT !.overlay = "detail"]
          [] k = "esc" -> [u EXCEPT !.hop = None]
          [] OTHER -> u

Views(u, k) ==
    CASE u.overlay = "help"     -> {[u EXCEPT !.overlay = "none"]}
      [] u.overlay = "input"    -> InInput(u, k)
      [] u.overlay = "settings" -> {InSettings(u, k)}
      [] u.overlay = "detail"   -> {InDetail(u, k)}
      [] u.overlay = "list"     -> {InList(u, k)}
      [] u.overlay = "none"     -> {InMain(u, k)}

\* A key that is pressed is one the profile allows; their number is bounded.
Pressed(k) == Shows /\ ui.step = "keys" /\ ui.left > 0 /\ k \in profile.keys
Pressing(u) == [u EXCEPT !.step = "poll", !.left = @ - 1]

ViewKey(k) ==
    /\ Pressed(k)
    /\ \E u \in Views(ui, k) : u # ui /\ ui' = Pressing(u)
    /\ UNCHANGED <<rp, look, drawn, prefs, lifecycleVars>>
-----------------------------------------------------------------------------
(* Keys with effects elsewhere. *)

InMainView == ui.overlay = "none"

\* 'p' and the space bar.
PauseKey ==
    /\ Pressed("p") /\ InMainView
    /\ IF rp # None
       THEN rp' = TogglePlayer(rp) /\ ui' = Pressing(ui) /\ UNCHANGED sessions
       ELSE /\ ui' = Pressing([ui EXCEPT !.paused = ~@])
            /\ sessions' = IF HasSession(ui)
                           THEN [sessions EXCEPT ![Target(ui)] = Written([@ EXCEPT !.paused = ui'.paused])]
                           ELSE sessions
            /\ UNCHANGED rp
    /\ UNCHANGED <<look, drawn, prefs, profile, mainVars, pending, taskVars, mgrVars, emitted>>

ResetStats(s) ==
    Written([NewSession(s.flows) EXCEPT !.paused = s.paused, !.gen = s.gen])
ResetKey ==
    /\ Pressed("r") /\ InMainView
    /\ HasSession(ui)
    /\ sessions' = [sessions EXCEPT ![Target(ui)] = ResetStats(@)]
    /\ rp' = IF rp = None THEN None ELSE ResetShown(rp)
    /\ ui' = Pressing(ui)
    /\ UNCHANGED <<look, drawn, prefs, profile, mainVars, pending, taskVars, mgrVars, emitted>>

Seeks == [left |-> SeekBy(rp, -500), right |-> SeekBy(rp, 500), back |-> SeekBy(rp, -5000),
          on |-> SeekBy(rp, 5000), home |-> SeekTo(rp, 0), end |-> SeekToEnd(rp),
          faster |-> AdjustSpeed(rp, 5), slower |-> AdjustSpeed(rp, -5)]
ReplayKey(k) ==
    /\ rp # None /\ k \in DOMAIN Seeks
    /\ Pressed(k) /\ InMainView
    /\ PlayInto(Seeks[k])
    /\ ui' = Pressing(ui)
    /\ UNCHANGED <<look, drawn, prefs, profile, mainVars, pending, taskVars, mgrVars, emitted>>

\* The host typed is sent to the manager, which may be gone.
AddKey ==
    /\ Pressed("enter") /\ ui.overlay = "input"
    /\ ui.input.text # None /\ ~ui.input.resolving
    /\ IF mgr.pc \in {"joining", "done", "failed"}
       THEN ui' = Pressing([ui EXCEPT !.input.error = TRUE]) /\ UNCHANGED queue
       ELSE /\ queue' = Append(queue, [id |-> ui.nextId, host |-> ui.input.text])
            /\ ui' = Pressing([ui EXCEPT !.nextId = @ + 1,
                                         !.input = [@ EXCEPT !.pending = ui.nextId, !.resolving = TRUE, !.error = FALSE]])
    /\ UNCHANGED <<rp, look, drawn, prefs, profile, mainVars, sessions, pending, taskVars, mgr, replies, emitted>>

\* The loop ends, on a key or as it finds the token cancelled at its top.  The main task
\* saves the preferences, a failure ignored, and tells all others to stop.
SavedPrefs == [theme |-> ui.theme, display |-> ui.display, key |-> ui.settings.key, check |-> ui.settings.check]
Close ==
    /\ Shows
    /\ (cancelled /\ ui.step \in {"poll", "keys"}) \/ (Pressed("q") /\ InMainView)
    /\ prefs' \in {SavedPrefs, prefs}
    /\ cancelled' = TRUE
    /\ IF RunMode = "replay" THEN exit' = "ok" /\ UNCHANGED stage ELSE stage' = "engines" /\ UNCHANGED exit
    /\ UNCHANGED <<ui, rp, look, drawn, profile, signals, sessions, pending, taskVars, mgrVars, emitted>>

\* The terminal is gone.
CloseFails ==
    /\ Shows /\ profile.faults
    /\ Leave("error")
    /\ UNCHANGED <<tuiVars, profile, sessions, pending, taskVars, mgrVars, emitted>>

TuiStep ==
    \/ Frame \/ Render \/ Close \/ CloseFails
    \/ \E ms \in profile.times : Pass(ms)
    \/ \E k \in profile.keys : ViewKey(k) \/ ReplayKey(k)
    \/ PauseKey \/ ResetKey \/ AddKey
=============================================================================
