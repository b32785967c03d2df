----------------------------- MODULE FpsLimiter -----------------------------
(***************************************************************************)
(* The frame pacing of the Vulkan layer: fpsLimiter in                     *)
(* src/mangohud-next/client/fps_limiter.h, called by the layer after every *)
(* acquired image (client/layer.cpp AcquireNextImageKHR).  Before the next *)
(* frame it sleeps for what is left of the frame's time, less the time by  *)
(* which the last sleep was too long.                                      *)
(*                                                                         *)
(* Time is counted in ticks and every frame is one step: the game works    *)
(* for some ticks, limit() sleeps, and the scheduler wakes it late.        *)
(***************************************************************************)
EXTENDS Integers

CONSTANTS
    Targets,    \* ticks per frame a limit may ask for, 0 for no limit
    Works,      \* ticks the game may need for a frame
    Lates,      \* ticks by which a sleep may be too long
    MaxTarget   \* the longest frame that is asked for

ASSUME TicksAssumption ==
    /\ MaxTarget \in Nat /\ Targets \subseteq 0 .. MaxTarget /\ 0 \in Targets
    /\ Works \subseteq Nat /\ Lates \subseteq Nat /\ 0 \in Lates

VARIABLES
    target,     \* fpsLimiter::target
    overhead,   \* fpsLimiter::overhead
    worked,     \* ticks of the last frame before it slept
    late,       \* ticks by which its sleep was too long
    period,     \* ticks from one return of limit() to the next
    ahead       \* ticks won on the limit since a frame did not sleep

limiterVars == <<target, overhead, worked, late, period, ahead>>

HalfAFrame == MaxTarget \div 2

LimiterTypeOK ==
    /\ target \in Targets
    /\ overhead \in Lates /\ overhead <= HalfAFrame
    /\ worked \in Works \union {0} /\ late \in Lates
    /\ period \in Nat /\ ahead \in Int

LimiterInit ==
    /\ target = 0 /\ overhead = 0
    /\ worked = 0 /\ late = 0 /\ period = 0 /\ ahead = 0

(* Before it draws, the layer takes the limit that the server sent last:   *)
(* set_fps_limit.  What is left of earlier sleeps stays.                   *)
SetFpsLimit(t) ==
    /\ target # t
    /\ target' = t
    /\ ahead' = 0
    /\ UNCHANGED <<overhead, worked, late, period>>

Forgiven(over) == over > target \div 2

(* Mutant: the last oversleep is added to the earlier ones.                *)
AddedOverhead(over) == IF Forgiven(over) THEN 0 ELSE overhead + over

(* Mutant: an oversleep is never too long to be made up for.               *)
EveryOverhead(over) == over

(* Mutant: the oversleep is not made up for.                               *)
NoOverhead(over) == 0

(* The end of do_sleep: what is more than half a frame is not made up for. *)
Overhead(over) == IF Forgiven(over) THEN 0 ELSE over

CalcSleep(w) ==
    LET sleep == (target - w) - overhead
    IN  IF target <= 0 \/ sleep <= 0 THEN 0 ELSE sleep

(* A frame that is long enough, or meets no limit, is not put to sleep.    *)
(* Then do_sleep does not run and the overhead stays what it was.          *)
FrameWithoutSleep(w) ==
    /\ CalcSleep(w) = 0
    /\ worked' = w /\ period' = w /\ late' = 0 /\ ahead' = 0
    /\ UNCHANGED <<target, overhead>>

FrameWithSleep(w, over) ==
    LET sleep == CalcSleep(w)
        counted == w + sleep + (IF Forgiven(over) THEN 0 ELSE over)
    IN  /\ sleep > 0
        /\ overhead' = Overhead(over)
        /\ worked' = w /\ late' = over /\ period' = w + sleep + over
        /\ ahead' = ahead + target - counted
        /\ UNCHANGED target

Frame == \E w \in Works : \/ FrameWithoutSleep(w)
                          \/ \E over \in Lates : FrameWithSleep(w, over)
LimiterNext == Frame \/ \E t \in Targets : SetFpsLimit(t)

(* The game keeps drawing.                                                 *)
LimiterSpec == LimiterInit /\ [][LimiterNext]_limiterVars /\ WF_limiterVars(Frame)
-----------------------------------------------------------------------------
(* As long as frames sleep the game is never more than half a frame before *)
(* or behind its limit, however long this goes on: each sleep makes up for *)
(* the one before (fps_limiter.h:201-225).  A sleep that was more than     *)
(* half a frame too long is forgiven and does not count.                   *)
OnSchedule == ahead <= HalfAFrame /\ -ahead <= HalfAFrame

(* Once sleeps are on time, a game that needs less than half of its frame  *)
(* is held to the limit in every frame.                                    *)
LightGamesAreLimited ==
    \A t \in Targets :
        <>[](target = t /\ late = 0 /\ worked + HalfAFrame < t) => <>[](period >= t)
=============================================================================
