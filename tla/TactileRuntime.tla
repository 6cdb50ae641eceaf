--------------------------- MODULE TactileRuntime ---------------------------
(***************************************************************************)
(* The tactile sensor of the server: TactileRuntime of                     *)
(* scripts/mvp_so101_server.py.  connect starts the serial reader and a    *)
(* monitor thread; the monitor scores the latest frame, runs the contact   *)
(* filter (one section of the lock) and then publishes score and time (a   *)
(* second section); snapshot reads everything in one section; close stops  *)
(* the monitor and may give up waiting for it.                             *)
(*                                                                         *)
(* A score is one of three levels: at least contact_on_threshold, at most  *)
(* contact_off_threshold, or between them.  The reader (a module outside   *)
(* the repository) delivers any level, nothing yet, or raises.  Time       *)
(* passes in ticks and is only told apart up to state_max_age_s.           *)
(***************************************************************************)
EXTENDS Naturals

CONSTANTS
  ConfirmFrames,   \* contact_confirm_frames
  ReleaseFrames,   \* release_confirm_frames
  MaxAge           \* state_max_age_s, in ticks

ASSUME FrameAssumption == ConfirmFrames \in Nat \ {0} /\ ReleaseFrames \in Nat \ {0} /\ MaxAge \in Nat

VARIABLES
  main,      \* where the main thread is in connect and close
  monitor,   \* where the monitor thread is
  frame,     \* level of the frame the monitor works on
  changed,   \* that frame changed the contact
  stop,      \* stop_event
  reader,    \* reader is not None
  error,     \* "none", "start" or "reader"
  ready,     \* ready
  contact,   \* contact_detected
  above,     \* above_count
  below,     \* below_count
  score,     \* contact_score
  age,       \* since last_update_monotonic_s
  highs,     \* frames at or above the on threshold up to now (history)
  lows       \* frames at or below the off threshold up to now (history)

filter     == <<contact, changed, above, below, highs, lows>>
sensorVars == <<main, monitor, frame, stop, reader, error, ready, filter, score, age>>

Levels == {"low", "mid", "high"}
Never  == MaxAge + 2             \* last_update_monotonic_s is None
Old    == MaxAge + 1             \* any age beyond state_max_age_s

Capped(n, most) == IF n < most THEN n ELSE most

SensorTypeOK ==
  /\ main \in {"init", "failed", "spawned", "cleared", "serving", "closing", "joined", "released", "closed"}
  /\ monitor \in {"none", "top", "reading", "scored", "filtered", "dead"}
  /\ frame \in Levels /\ score \in Levels
  /\ stop \in BOOLEAN /\ reader \in BOOLEAN /\ ready \in BOOLEAN
  /\ error \in {"none", "start", "reader"}
  /\ contact \in BOOLEAN /\ changed \in BOOLEAN
  /\ above \in 0 .. ConfirmFrames - 1 /\ below \in 0 .. ReleaseFrames - 1
  /\ highs \in 0 .. ConfirmFrames /\ lows \in 0 .. ReleaseFrames
  /\ age \in 0 .. Never

SensorInit ==
  /\ main = "init" /\ monitor = "none" /\ frame = "low"
  /\ stop = FALSE /\ reader = FALSE /\ error = "none" /\ ready = FALSE
  /\ contact = FALSE /\ changed = FALSE /\ above = 0 /\ below = 0 /\ highs = 0 /\ lows = 0
  /\ score = "low" /\ age = Never

-----------------------------------------------------------------------------
(* connect, in the main thread.                                            *)

\* Disabled, misconfigured, or the reader does not load or start.
ConnectFails ==
  /\ main = "init"
  /\ main' = "failed" /\ error' = "start"
  /\ UNCHANGED <<monitor, frame, stop, reader, ready, filter, score, age>>

\* The reader has its baseline and the monitor thread runs.
SpawnMonitor ==
  /\ main = "init"
  /\ main' = "spawned" /\ monitor' = "top"
  /\ reader' = TRUE /\ stop' = FALSE
  /\ UNCHANGED <<frame, error, ready, filter, score, age>>

\* error = None, outside the lock.
ClearError ==
  /\ main = "spawned"
  /\ main' = "cleared" /\ error' = "none"
  /\ UNCHANGED <<monitor, frame, stop, reader, ready, filter, score, age>>

\* ready = True, whatever the monitor has done since it was started.
SetReady ==
  /\ main = "cleared"
  /\ main' = "serving" /\ ready' = TRUE
  /\ UNCHANGED <<monitor, frame, stop, reader, error, filter, score, age>>

-----------------------------------------------------------------------------
(* The monitor thread.                                                     *)

\* The loop condition, and the test of the reader.
CheckStop ==
  /\ monitor = "top"
  /\ monitor' = IF stop THEN "dead" ELSE IF reader THEN "reading" ELSE "top"
  /\ UNCHANGED <<main, frame, stop, reader, error, ready, filter, score, age>>

\* get_latest_delta has a frame: it is scored.  The call may have been made
\* before the reader was released.
ScoreFrame(level) ==
  /\ monitor = "reading"
  /\ frame' = level
  /\ monitor' = "scored"
  /\ UNCHANGED <<main, stop, reader, error, ready, filter, score, age>>

\* It has none yet.
NoFrame ==
  /\ monitor = "reading"
  /\ monitor' = "top"
  /\ UNCHANGED <<main, frame, stop, reader, error, ready, filter, score, age>>

\* It raises, also because the reader was closed or dropped meanwhile.
ReadFails ==
  /\ monitor = "reading"
  /\ monitor' = "dead" /\ error' = "reader" /\ ready' = FALSE
  /\ UNCHANGED <<main, frame, stop, reader, filter, score, age>>

\* The history variables.
RecordFrame ==
  /\ highs' = IF frame = "high" THEN Capped(highs + 1, ConfirmFrames) ELSE 0
  /\ lows'  = IF frame = "low" THEN Capped(lows + 1, ReleaseFrames) ELSE 0

\* Mutant: one more frame than configured.
CountAboveLate ==
  LET a == IF frame = "high" THEN above + 1 ELSE 0 IN
  IF a > ConfirmFrames
    THEN contact' = TRUE /\ above' = 0 /\ below' = 0
    ELSE above' = a /\ UNCHANGED <<contact, below>>

\* Without contact, consecutive frames above the on threshold are counted.
CountAbove ==
  LET a == IF frame = "high" THEN above + 1 ELSE 0 IN
  IF a >= ConfirmFrames
    THEN contact' = TRUE /\ above' = 0 /\ below' = 0
    ELSE above' = a /\ UNCHANGED <<contact, below>>

\* Mutant: the release counter is not interrupted.
CountBelowSticky ==
  LET b == IF frame = "low" THEN below + 1 ELSE below IN
  IF b >= ReleaseFrames
    THEN contact' = FALSE /\ above' = 0 /\ below' = 0
    ELSE below' = b /\ UNCHANGED <<contact, above>>

\* Mutant: contact is released by anything that is not a contact frame.
CountBelowMid ==
  LET b == IF frame # "high" THEN below + 1 ELSE 0 IN
  IF b >= ReleaseFrames
    THEN contact' = FALSE /\ above' = 0 /\ below' = 0
    ELSE below' = b /\ UNCHANGED <<contact, above>>

\* With contact, consecutive frames below the off threshold are.
CountBelow ==
  LET b == IF frame = "low" THEN below + 1 ELSE 0 IN
  IF b >= ReleaseFrames
    THEN contact' = FALSE /\ above' = 0 /\ below' = 0
    ELSE below' = b /\ UNCHANGED <<contact, above>>

\* _update_contact_state, under the lock.
UpdateContactState ==
  /\ monitor = "scored"
  /\ monitor' = "filtered"
  /\ RecordFrame
  /\ IF contact THEN CountBelow ELSE CountAbove
  /\ changed' = (contact' # contact)
  /\ UNCHANGED <<main, frame, stop, reader, error, ready, score, age>>

\* Mutant: a good frame also sets ready.
PublishReady ==
  /\ monitor = "filtered"
  /\ monitor' = "top"
  /\ score' = frame /\ age' = 0 /\ error' = "none" /\ ready' = TRUE
  /\ UNCHANGED <<main, frame, stop, reader, filter>>

\* The second section: score, time and error.
Publish ==
  /\ monitor = "filtered"
  /\ monitor' = "top"
  /\ score' = frame /\ age' = 0 /\ error' = "none"
  /\ UNCHANGED <<main, frame, stop, reader, ready, filter>>

-----------------------------------------------------------------------------
(* close, in the main thread, and time.                                    *)

Close ==
  /\ main \in {"failed", "serving"}
  /\ main' = "closing" /\ stop' = TRUE
  /\ UNCHANGED <<monitor, frame, reader, error, ready, filter, score, age>>

\* join returns after a second at the latest, the monitor dead or not.
Join ==
  /\ main = "closing"
  /\ main' = "joined"
  /\ UNCHANGED <<monitor, frame, stop, reader, error, ready, filter, score, age>>

ReleaseReader ==
  /\ main = "joined"
  /\ main' = "released" /\ reader' = FALSE
  /\ UNCHANGED <<monitor, frame, stop, error, ready, filter, score, age>>

ClearReady ==
  /\ main = "released"
  /\ main' = "closed" /\ ready' = FALSE
  /\ UNCHANGED <<monitor, frame, stop, reader, error, filter, score, age>>

\* Time passes; ages beyond the limit are not told apart.
TimePasses ==
  /\ age < Old
  /\ age' = age + 1
  /\ UNCHANGED <<main, monitor, frame, stop, reader, error, ready, filter, score>>

MainStep    == ClearError \/ SetReady \/ Join \/ ReleaseReader \/ ClearReady
MonitorStep ==
  \/ CheckStop
  \/ \E level \in Levels : ScoreFrame(level)
  \/ NoFrame \/ ReadFails
  \/ UpdateContactState \/ Publish

SensorNext == ConnectFails \/ SpawnMonitor \/ MainStep \/ MonitorStep \/ Close \/ TimePasses

SensorSpec     == SensorInit /\ [][SensorNext]_sensorVars
FairSensorSpec == SensorSpec /\ WF_sensorVars(MainStep) /\ WF_sensorVars(MonitorStep) /\ WF_sensorVars(TimePasses)

-----------------------------------------------------------------------------
(* snapshot, under the lock: what the motion loop and get_state see.       *)

\* Mutant: the flag alone decides.
SnapshotReadyByFlag == ready /\ age # Never

SnapshotReady == ready /\ age <= MaxAge

-----------------------------------------------------------------------------
(* Properties.                                                             *)

\* The filter misses no confirmed streak: after ConfirmFrames frames in a row
\* above the on threshold there is contact, after ReleaseFrames frames in a
\* row below the off threshold there is none, whatever came before.
StreakDecides ==
  /\ highs = ConfirmFrames => contact
  /\ lows = ReleaseFrames => ~contact

\* And it invents none: contact only changes at the end of such a streak,
\* whatever the counters were left at.
FilterStep ==
  /\ ~contact /\ contact' => highs' = ConfirmFrames
  /\ contact /\ ~contact' => lows' = ReleaseFrames

FilterIsExact == []StreakDecides /\ [][FilterStep]_filter

\* A snapshot between the two sections of the lock pairs a contact that has
\* just changed with the score of an earlier frame.  That score lies on the
\* same side: the stop decision and the reported score never contradict each
\* other.
TornSnapshotAgrees ==
  monitor = "filtered" /\ changed => score = (IF contact THEN "high" ELSE "low")

\* A sensor that was closed is down for good, although its monitor may have
\* outlived the join and still publishes.
ClosedStaysDown == main = "closed" => ~SnapshotReady

\* A monitor that died is noticed: although connect may set ready after its
\* death, snapshots stop being ready once the last frame is too old.
DeathNoticed == [](monitor = "dead" => <>[]~SnapshotReady)

-----------------------------------------------------------------------------
(* The inductive invariant of the proofs.                                  *)

\* The counter that counts agrees with the history.
CountInv == IF contact THEN below = lows ELSE above = highs

\* The published score is the level of the last frame before the one in work.
ScoreInv ==
  IF monitor = "filtered"
    THEN /\ highs > 0 => frame = "high"
         /\ lows > 0 => frame = "low"
         /\ highs > 1 => score = "high"
         /\ lows > 1 => score = "low"
         /\ changed => IF contact THEN highs = ConfirmFrames ELSE lows = ReleaseFrames
    ELSE /\ highs > 0 => score = "high"
         /\ lows > 0 => score = "low"

\* The monitor only exists after it was started, ready ends with close.
MainInv ==
  /\ main \in {"init", "failed"} => monitor = "none"
  /\ main = "closed" => ~ready

\* What the proofs carry from state to state.
TactileInv == SensorTypeOK /\ CountInv /\ ScoreInv /\ MainInv
=============================================================================
