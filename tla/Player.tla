------------------------------- MODULE Player ------------------------------
(***************************************************************************)
(* The player (web/components/vidsilo-player.tsx) on the play page, the    *)
(* embed page and in a preview. The video element changes at once and      *)
(* tells its listeners later, in events; once a second a timer counts what *)
(* is watched, and beacons report it.                                      *)
(*                                                                         *)
(* Levels, speed, subtitles, full screen and the looks are left out.       *)
(***************************************************************************)
EXTENDS Naturals, Sequences

CONSTANTS
    FlushEvery, \* seconds between two reports while the video plays
    MaxSeconds  \* bound: of the time on one page

ASSUME PlayerAssumption == FlushEvery \in Nat

VARIABLES
    there,      \* the player is mounted
    options,    \* of the address: autoplay, and a start offset
    video,      \* the element: paused, its metadata is known, its position
    events,     \* events of the element not yet handled
    playing, tapped, \* what the controls are drawn from
    armed,      \* the timer that hides the controls is set
    startApplied, played, \* the refs of the component
    watched,    \* seconds watched and not yet reported
    since,      \* seconds since the timer reported last
    seconds,    \* the time on this page
    plays, reported, \* beacons: plays, and seconds watched in all
    ticked, missed   \* history: seconds watched, and those never reported
videoVars == <<video, events>>
drawnVars == <<playing, tapped, armed>>
startVars == <<there, options, startApplied>>
watchVars == <<watched, since, seconds, reported, ticked, missed>>
playVars == <<played, plays>>
playerVars == <<startVars, videoVars, drawnVars, playVars, watchVars>>

Options == [autoplay : BOOLEAN, offset : BOOLEAN]
MaxEvents == 2      \* bound: events not yet handled

-----------------------------------------------------------------------------
(* The element.                                                             *)

Tell(e) == Len(events) < MaxEvents /\ events' = Append(events, e)
Play == video.paused /\ video' = [video EXCEPT !.paused = FALSE] /\ Tell("play")
Pause == ~video.paused /\ video' = [video EXCEPT !.paused = TRUE] /\ Tell("pause")

\* The manifest is parsed; autoplay may be denied by the browser.
ManifestParsed ==
    /\ there /\ ~video.parsed
    /\ \/ video' = [video EXCEPT !.parsed = TRUE] /\ Tell("metadata")
       \/ /\ options.autoplay /\ video.paused
          /\ video' = [video EXCEPT !.parsed = TRUE, !.paused = FALSE]
          /\ Len(events) = 0 /\ events' = <<"metadata", "play">>
    /\ UNCHANGED <<startVars, drawnVars, playVars, watchVars>>

\* The big button, the button of the controls, the space bar.
TogglePlay ==
    /\ there /\ (Play \/ Pause)
    /\ UNCHANGED <<startVars, drawnVars, playVars, watchVars>>
\* The video comes to its end, which pauses it.
Ended ==
    /\ there /\ video.parsed /\ Pause
    /\ UNCHANGED <<startVars, drawnVars, playVars, watchVars>>
\* The seek bar and the arrow keys.
SeekTo ==
    /\ there /\ video.at # "sought"
    /\ video' = [video EXCEPT !.at = "sought"]
    /\ UNCHANGED <<events, startVars, drawnVars, playVars, watchVars>>

-----------------------------------------------------------------------------
(* Events.                                                                  *)

FlushWatch == reported' = reported + watched /\ watched' = 0
Handle(e) == there /\ events # <<>> /\ Head(events) = e /\ events' = Tail(events)

OnMeta ==
    /\ Handle("metadata")
    /\ IF options.offset /\ ~startApplied
       THEN startApplied' = TRUE /\ video' = [video EXCEPT !.at = "offset"]
       ELSE UNCHANGED <<startApplied, video>>
    /\ UNCHANGED <<there, options, drawnVars, playVars, watchVars>>
OnPlay ==
    /\ Handle("play")
    /\ playing' = TRUE /\ played' = TRUE
    /\ plays' = IF played THEN plays ELSE plays + 1
    /\ UNCHANGED <<startVars, video, tapped, armed, watchVars>>
OnPause ==
    /\ Handle("pause")
    /\ playing' = FALSE /\ FlushWatch
    /\ UNCHANGED <<startVars, video, tapped, armed, playVars, since, seconds, ticked, missed>>

-----------------------------------------------------------------------------
(* What is watched.                                                         *)

\* The timer runs while the video is paused, too, but counts and reports only
\* while it plays; the first second is reported at once.
Cap(n) == IF n > FlushEvery THEN FlushEvery + 1 ELSE n
Never == FALSE
Due == since + 1 > FlushEvery
Ticker ==
    /\ there /\ seconds < MaxSeconds /\ seconds' = seconds + 1
    /\ IF video.paused
       THEN since' = Cap(since + 1) /\ UNCHANGED <<watched, reported, ticked>>
       ELSE /\ ticked' = ticked + 1
            /\ IF Due
               THEN since' = 0 /\ reported' = reported + watched + 1 /\ watched' = 0
               ELSE since' = since + 1 /\ watched' = watched + 1 /\ UNCHANGED reported
    /\ UNCHANGED <<startVars, videoVars, drawnVars, playVars, missed>>

\* The page is closed or loaded afresh.
BeforeUnload ==
    /\ there /\ there' = FALSE /\ FlushWatch
    /\ UNCHANGED <<options, startApplied, videoVars, drawnVars, playVars,
                   since, seconds, ticked, missed>>
\* A link inside the site, or the end of a preview: the clean-up of the effect
\* stops the timer and reports nothing.
Unmount ==
    /\ there /\ there' = FALSE
    /\ missed' = missed + watched /\ watched' = 0
    /\ UNCHANGED <<options, startApplied, videoVars, drawnVars, playVars,
                   since, seconds, reported, ticked>>

-----------------------------------------------------------------------------
(* The controls.                                                            *)

\* A tap shows the controls, or hides them; over a playing video whose controls
\* are shown it pauses.
Tap ==
    /\ there /\ armed' = TRUE
    /\ \/ /\ tapped /\ Pause /\ UNCHANGED tapped
       \/ /\ ~(tapped /\ ~video.paused)
          /\ tapped' = ~tapped /\ UNCHANGED videoVars
    /\ UNCHANGED <<startVars, playing, playVars, watchVars>>
PointerMove ==
    /\ there /\ ~(tapped /\ armed) /\ tapped' = TRUE /\ armed' = TRUE
    /\ UNCHANGED <<startVars, videoVars, playing, playVars, watchVars>>
HideControls ==
    /\ there /\ armed /\ armed' = FALSE /\ tapped' = FALSE
    /\ UNCHANGED <<startVars, videoVars, playing, playVars, watchVars>>

-----------------------------------------------------------------------------

PlayerInit ==
    /\ there = TRUE /\ options \in Options
    /\ video = [paused |-> TRUE, parsed |-> FALSE, at |-> "zero"] /\ events = <<>>
    /\ playing = FALSE /\ tapped = FALSE /\ armed = FALSE
    /\ startApplied = FALSE /\ played = FALSE /\ plays = 0
    /\ watched = 0 /\ since = FlushEvery + 1 /\ seconds = 0
    /\ reported = 0 /\ ticked = 0 /\ missed = 0

PlayerNext ==
    \/ ManifestParsed \/ TogglePlay \/ Ended \/ SeekTo
    \/ OnMeta \/ OnPlay \/ OnPause
    \/ Ticker \/ BeforeUnload \/ Unmount
    \/ Tap \/ PointerMove \/ HideControls
PlayerSpec == PlayerInit /\ [][PlayerNext]_playerVars

-----------------------------------------------------------------------------

\* Every second watched is reported once, but for those of a player that is
\* taken off the page, never more than FlushEvery (vidsilo-player.tsx, the
\* timer, the pause event and the clean-up).
WatchAccounted ==
    /\ ticked = reported + watched + missed
    /\ watched <= FlushEvery /\ missed <= FlushEvery
=============================================================================
