---------------------------- MODULE MediaPlayer ----------------------------
(***************************************************************************)
(* Media_PlayerContext (src/src/Visualization/TKService/Media) and the     *)
(* pair of frames of Graphic3d_MediaTextureSet: a thread opens the input   *)
(* it is given, reads packets and decodes them into the frame at the back  *)
(* of the pair, while the viewer's thread sets inputs, pauses, resumes,    *)
(* seeks, brings the decoded frame to the front and destroys the player.   *)
(* The library has FFmpeg; what a packet holds and when a frame is due are *)
(* choices of the environment.                                             *)
(*                                                                         *)
(* An action is one section under a mutex, or one access to an event or to *)
(* the shutdown flag.                                                      *)
(***************************************************************************)
EXTENDS Naturals

CONSTANTS
    Inputs,
    NoVideo,     \* the inputs without a video stream
    None,        \* no input, an empty path, an empty frame
    Habits,      \* how a viewer may use the player: with which values of
                 \* theToWait it calls SetInput, and which other events it sends
    MaxPackets,  \* bound: the packets of an input
    MaxCommands  \* bound: the calls the viewer makes, without SwapFrames

Frames == {0, 1}
NoFrame == 2

ASSUME PlayerAssumption ==
    /\ None \notin Inputs /\ NoVideo \subseteq Inputs
    /\ Habits \subseteq [waits : SUBSET BOOLEAN,
                           controls : SUBSET {"PAUSE", "RESUME", "SEEK"}]
    /\ MaxPackets \in Nat

VARIABLES
    path,        \* myInputPath
    event,       \* myPlayEvent
    started,     \* myTimer.IsStarted()
    playerWake,  \* myWakeEvent
    nextEvent,
    toShutDown,
    front,       \* myFront
    toPresent,   \* myToPresentFrame
    locked,      \* IsLocked() of each frame
    alive,       \* the texture set still has its frames and its mutex
    place,       \* of the player's thread
    input,       \* anInput
    open,        \* the file behind aFormatCtx
    packets,     \* what is left to read of it
    held,        \* aFrame
    picture,     \* the input the picture in aFrame comes from
    wasSeeked,
    caller,      \* where the viewer's thread is
    habit,       \* how it uses the player
    asked,       \* history: the last input it set
    commands

control == <<path, event, playerWake, nextEvent>>
pair    == <<front, toPresent, locked, alive>>
file    == <<input, open, packets>>
frame   == <<held, picture, wasSeeked>>
calling == <<caller, habit, asked, commands>>
playerVars ==
    <<control, started, toShutDown, pair, place, file, frame, calling>>

PlayerInit ==
    /\ path = None /\ event = "NONE" /\ started = FALSE
    /\ playerWake = FALSE /\ nextEvent = FALSE /\ toShutDown = FALSE
    /\ front = 0 /\ toPresent = FALSE /\ alive = TRUE
    /\ locked = [f \in Frames |-> FALSE]
    /\ place = "wait" /\ input = None /\ open = None /\ packets = 0
    /\ held = NoFrame /\ picture = None /\ wasSeeked = FALSE
    /\ habit \in Habits /\ caller = "ready" /\ asked = None /\ commands = 0

-----------------------------------------------------------------------------
(* Faulty forms of the operators below, as a plausible bug would write     *)
(* them; no action uses one.                                               *)

FaultyMore == packets >= 0
FaultyLockable == ~locked[1 - front]
FaultyReopened(p) == p
FaultyStops == FALSE
FaultyClosed == open

\* The frame the viewer does not show.
Back == 1 - front

\* ReadPacket finds another packet.
More == packets > 0

\* LockFrame gives the back frame only when the last one was taken.
Lockable == ~toPresent /\ ~locked[Back]

\* What is left in aFrame when a file is opened: Unref.
Reopened(p) == None

\* Does the popped event end the file; does the thread end?
Ends(e) == e = "NEXT"
Stops == toShutDown

\* The file behind aFormatCtx when the handle goes out of scope.
Closed == None

-----------------------------------------------------------------------------
(* The viewer's thread.                                                    *)

Commands == caller = "ready" /\ commands < MaxCommands /\ commands' = commands + 1

SetInput(p, toWait) ==
    /\ Commands
    /\ path' = p /\ event' = "NEXT" /\ playerWake' = TRUE
    /\ nextEvent' = IF toWait THEN FALSE ELSE nextEvent
    /\ caller' = IF toWait THEN "waiting" ELSE "ready"
    /\ asked' = p
    /\ UNCHANGED <<started, toShutDown, pair, place, file, frame, habit>>

WaitNext ==
    /\ caller = "waiting"
    /\ nextEvent
    /\ caller' = "returned"
    /\ UNCHANGED <<control, started, toShutDown, pair, place, file, frame, habit, asked, commands>>

Returned ==
    /\ caller = "returned"
    /\ caller' = "ready"
    /\ UNCHANGED <<control, started, toShutDown, pair, place, file, frame, habit, asked, commands>>

\* Pause, Resume, Seek; PlayPause is one of the first two, as the timer is.
pushPlayEvent(e) ==
    /\ Commands
    /\ event' = e /\ playerWake' = TRUE
    /\ UNCHANGED <<path, nextEvent, started, toShutDown, pair, place, file, frame,
                   caller, habit, asked>>

SwapFrames ==
    /\ caller = "ready"
    /\ toPresent
    /\ toPresent' = FALSE
    /\ front' = Back
    /\ UNCHANGED <<control, started, toShutDown, locked, alive, place, file, frame, calling>>

\* The destructor of the texture set destroys its members from the last
\* declared to the first: the frames and the mutex before the player.
DestroySet ==
    /\ caller = "ready"
    /\ alive' = FALSE
    /\ caller' = "destroying"
    /\ UNCHANGED <<control, started, toShutDown, front, toPresent, locked, place, file,
                   frame, habit, asked, commands>>

\* The destructor of the player.
ShutDown ==
    /\ caller = "destroying"
    /\ toShutDown' = TRUE
    /\ caller' = "wake"
    /\ UNCHANGED <<control, started, pair, place, file, frame, habit, asked, commands>>

ShutDownWake ==
    /\ caller = "wake"
    /\ playerWake' = TRUE
    /\ caller' = "join"
    /\ UNCHANGED <<path, event, nextEvent, started, toShutDown, pair, place, file, frame,
                   habit, asked, commands>>

Join ==
    /\ caller = "join"
    /\ place = "off"
    /\ caller' = "gone"
    /\ UNCHANGED <<control, started, toShutDown, pair, place, file, frame, habit, asked, commands>>

-----------------------------------------------------------------------------
(* The player's thread: doThreadLoop.                                      *)

WaitWake ==
    /\ place = "wait"
    /\ playerWake
    /\ place' = "reset"
    /\ UNCHANGED <<control, started, toShutDown, pair, file, frame, calling>>

ResetWake ==
    /\ place = "reset"
    /\ playerWake' = FALSE
    /\ place' = "check"
    /\ UNCHANGED <<path, event, nextEvent, started, toShutDown, pair, file, frame, calling>>

CheckShutDown ==
    /\ place = "check"
    /\ place' = IF toShutDown THEN "off" ELSE "take"
    /\ UNCHANGED <<control, started, toShutDown, pair, file, frame, calling>>

TakeInput ==
    /\ place = "take"
    /\ input' = path
    /\ path' = None
    /\ event' = IF event = "NEXT" THEN "NONE" ELSE event
    /\ place' = "next"
    /\ UNCHANGED <<playerWake, nextEvent, started, toShutDown, pair, open, packets,
                   frame, calling>>

SignalNext ==
    /\ place = "next"
    /\ nextEvent' = TRUE
    /\ place' = IF input = None THEN "wait" ELSE "open"
    /\ UNCHANGED <<path, event, playerWake, started, toShutDown, pair, file, frame, calling>>

\* OpenInput may fail, of a file that is there too.
OpenInput ==
    /\ place = "open"
    /\ \/ open' = input /\ place' = "begin"
       \/ place' = "wait" /\ UNCHANGED open
    /\ UNCHANGED <<control, started, toShutDown, pair, input, packets, frame, calling>>

Begin ==
    /\ place = "begin"
    /\ \/ /\ open \in NoVideo
          /\ open' = Closed
          /\ place' = "wait"
          /\ UNCHANGED <<started, packets, picture>>
       \/ /\ open \notin NoVideo
          /\ started' = TRUE
          /\ packets' = MaxPackets
          /\ picture' = Reopened(picture)
          /\ place' = "packet"
          /\ UNCHANGED open
    /\ UNCHANGED <<control, toShutDown, pair, input, held, wasSeeked, calling>>

\* Leave the file: aFormatCtx goes out of scope.
Leave(label) == open' = Closed /\ place' = label

\* popPlayEvent; Seek reads again from another place and empties the frame.
Popped ==
    /\ event' = "NONE"
    /\ started' = (event = "RESUME" \/ (started /\ event # "PAUSE"))
    /\ wasSeeked' = (wasSeeked \/ event = "SEEK")
    /\ IF event = "SEEK" THEN packets' = MaxPackets /\ picture' = None
                         ELSE UNCHANGED <<packets, picture>>

ReadPacket ==
    /\ place = "packet"
    /\ \/ Stops /\ Leave("off") /\ UNCHANGED packets
       \/ ~Stops /\ ~More /\ Leave("wait") /\ UNCHANGED packets
       \/ ~Stops /\ More /\ packets' = packets - 1 /\ place' = "sent" /\ UNCHANGED open
    /\ UNCHANGED <<control, started, toShutDown, pair, input, frame, calling>>

\* The packet is of the video stream, or of another and dropped.
SendPacket ==
    /\ place = "sent"
    /\ Popped
    /\ \/ Ends(event) /\ Leave("wait")
       \/ ~Ends(event) /\ place' \in {"frame", "packet"} /\ UNCHANGED open
    /\ UNCHANGED <<path, playerWake, nextEvent, toShutDown, pair, input, held, calling>>

PopInFrame ==
    /\ place = "frame"
    /\ \/ /\ Stops
          /\ Leave("off")
          /\ UNCHANGED <<event, started, wasSeeked, packets, picture>>
       \/ /\ ~Stops
          /\ Popped
          /\ \/ Ends(event) /\ Leave("wait")
             \/ ~Ends(event) /\ place' = "lock" /\ UNCHANGED open
    /\ UNCHANGED <<path, playerWake, nextEvent, toShutDown, pair, input, held, calling>>

\* LockFrame, when no frame is held.
LockFrame ==
    /\ place = "lock"
    /\ IF held = NoFrame /\ Lockable
       THEN /\ locked' = [locked EXCEPT ![Back] = TRUE]
            /\ held' = Back
            /\ picture' = None
       ELSE UNCHANGED <<locked, held, picture>>
    /\ place' = IF held' = NoFrame THEN "frame" ELSE "decode"
    /\ UNCHANGED <<control, started, toShutDown, front, toPresent, alive, file,
                   wasSeeked, calling>>

\* The decoder may have no frame yet.
receiveFrame ==
    /\ place = "decode"
    /\ \/ picture # None /\ place' = "due" /\ UNCHANGED picture
       \/ picture = None /\ place' = "due" /\ picture' = open
       \/ picture = None /\ place' = "packet" /\ UNCHANGED picture
    /\ UNCHANGED <<control, started, toShutDown, pair, file, held, wasSeeked, calling>>

\* The frame is due: ReleaseFrame.
ReleaseFrame ==
    /\ place = "due"
    /\ wasSeeked \/ started
    /\ wasSeeked' = FALSE
    /\ locked' = [locked EXCEPT ![held] = FALSE]
    /\ toPresent' = TRUE
    /\ held' = NoFrame /\ picture' = None
    /\ place' = "packet"
    /\ UNCHANGED <<control, started, toShutDown, front, alive, file, calling>>

NotYet ==
    /\ place = "due"
    /\ ~wasSeeked
    /\ place' = "frame"
    /\ UNCHANGED <<control, started, toShutDown, pair, file, frame, calling>>

-----------------------------------------------------------------------------

CallerStep == WaitNext \/ Returned \/ ShutDown \/ ShutDownWake \/ Join

ThreadStep ==
    \/ WaitWake \/ ResetWake \/ CheckShutDown \/ TakeInput \/ SignalNext
    \/ OpenInput \/ Begin \/ ReadPacket \/ SendPacket
    \/ PopInFrame \/ LockFrame \/ receiveFrame \/ ReleaseFrame \/ NotYet

PlayerNext ==
    \/ \E p \in Inputs \cup {None}, toWait \in habit.waits : SetInput(p, toWait)
    \/ \E e \in habit.controls : pushPlayEvent(e)
    \/ SwapFrames \/ DestroySet
    \/ CallerStep
    \/ ThreadStep

PlayerSpec == PlayerInit /\ [][PlayerNext]_playerVars

\* Both threads are scheduled, and the time of a frame comes while the timer
\* runs.  Nothing makes the viewer call anything, SwapFrames included.
PlayerFairness ==
    WF_playerVars(CallerStep) /\ WF_playerVars(ThreadStep) /\ SF_playerVars(ReleaseFrame)

PlayerFairSpec == PlayerSpec /\ PlayerFairness

-----------------------------------------------------------------------------
(* Properties.                                                             *)

PlayerTypeOK ==
    /\ {path, input, open, picture, asked} \subseteq Inputs \cup {None}
    /\ habit \in Habits
    /\ event \in {"NONE", "PAUSE", "RESUME", "SEEK", "NEXT"}
    /\ {started, playerWake, nextEvent, toShutDown, toPresent, alive, wasSeeked} \subseteq BOOLEAN
    /\ front \in Frames /\ held \in Frames \cup {NoFrame}
    /\ locked \in [Frames -> BOOLEAN]
    /\ packets \in 0 .. MaxPackets
    /\ place \in {"wait", "reset", "check", "take", "next", "open", "begin", "packet",
                  "sent", "frame", "lock", "decode", "due", "off"}
    /\ caller \in {"ready", "waiting", "returned", "destroying", "wake", "join", "gone"}

\* The picture is copied to the graphics card after the mutex is left
\* (Graphic3d_MediaTexture::GetImage): the thread never writes the frame at
\* the front, and no frame is to be presented while the other is written.
NoTearing == held # NoFrame => held = Back /\ locked[held] /\ ~toPresent

\* A frame kept from the last file is not shown as one of this file, over any
\* sequence of inputs, seeks and failures to decode (doThreadLoop keeps
\* aFrame from file to file).
OwnPictures ==
    place \in {"packet", "sent", "frame", "lock", "decode", "due"} => picture \in {None, open}

\* What SetInput was asked to wait for: the file of the previous input is not
\* open, nor will be opened, when it comes back (myNextEvent).  True of a viewer
\* that always waits and sends no other event: after a SetInput that did not
\* wait, or a wake-up for another event, the answer may be the one before.
ReleasedOnReturn ==
    caller = "returned" /\ habit = [waits |-> {TRUE}, controls |-> {}] =>
        open \in {None, asked} /\ (place \in {"next", "open"} => input \in {None, asked})

\* SetInput and the destructor's join come back, paused or not, although they
\* keep the viewer's thread from taking the frame the player may be waiting to
\* have taken.
CallsReturn ==
    /\ caller = "waiting" ~> caller = "returned"
    /\ caller = "destroying" ~> caller = "gone"

-----------------------------------------------------------------------------
(* What the comments say.                                                  *)

\* "event to check if working thread processed next file event (e.g. released
\* file handles of previous input)" (Media_PlayerContext.hxx, myNextEvent): as
\* ReleasedOnReturn, whatever the viewer did before.
InputReleased ==
    caller = "returned" =>
        open \in {None, asked} /\ (place \in {"next", "open"} => input \in {None, asked})

\* "Set new input for playback" (Media_PlayerContext.hxx): the thread takes an
\* input that was set, unless the player goes; not so when Pause overwrites
\* the event of SetInput: the old file just pauses.
InputIsTaken == path # None ~> path = None \/ toShutDown

\* The player's thread uses the frames and the mutex of its queue only while
\* they are there ("it is expected that this context is stored as a class
\* field of Frame Queue", Media_PlayerContext.hxx, and so it is).
UsesLiveQueue == [][locked' # locked => alive]_playerVars

=============================================================================
