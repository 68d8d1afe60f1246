------------------------- MODULE ReconnectManager -------------------------
(***************************************************************************)
(* src/src/client/reconnect.ts: the attempt counter, the exponential       *)
(* backoff and the one timer a ReconnectManager knows of.  Timeouts live   *)
(* in Node: clearTimeout() needs the handle, and overwriting the handle    *)
(* leaves a timeout running.  Jitter only shortens a timeout, and time is  *)
(* not modelled: an armed timeout fires whenever it likes.                 *)
(***************************************************************************)
EXTENDS Naturals

CONSTANTS
    InitialDelay,  \* ReconnectConfig.initialDelayMs
    MaxDelay,      \* ReconnectConfig.maxDelayMs
    MaxAttempts,   \* ReconnectConfig.maxAttempts; 0 means unlimited
    AttemptBound   \* attempts are counted up to this bound

\* From AttemptBound on every attempt is treated alike: the delay is at its
\* maximum, and attempts given up stay given up.
ReconnectConstants ==
    /\ InitialDelay \in Nat \ {0} /\ MaxDelay \in Nat
    /\ MaxAttempts \in Nat
    /\ AttemptBound \in Nat /\ AttemptBound > MaxAttempts
    /\ InitialDelay * 2 ^ AttemptBound >= 2 * MaxDelay

ASSUME ReconnectAssumption == ReconnectConstants

VARIABLES
    attempt,    \* ReconnectManager.attempt
    scheduled,  \* timeouts armed and not fired
    handle,     \* ReconnectManager.timer: null, armed or already fired
    backoff     \* the exponentialDelay computed last

reconnectVars == <<attempt, scheduled, handle, backoff>>

ReconnectInit ==
    /\ attempt = 0
    /\ scheduled = 0
    /\ handle = "null"
    /\ backoff = 0

Least(m, n) == IF m <= n THEN m ELSE n

\* exponentialDelay of the n-th attempt.
Backoff(n) == Least(MaxDelay, InitialDelay * 2 ^ (n - 1))

GivesUp(n) == MaxAttempts > 0 /\ n > MaxAttempts

\* scheduleReconnect(): the new handle replaces the old one unseen.
ScheduleReconnect ==
    /\ attempt' = Least(attempt + 1, AttemptBound)
    /\ IF GivesUp(attempt')
         THEN UNCHANGED <<scheduled, handle, backoff>>
         ELSE /\ backoff' = Backoff(attempt')
              /\ scheduled' = scheduled + 1
              /\ handle' = "armed"

\* Mutant: the handle is dropped and the timeout left armed.
ForgetTimer == handle' = "null" /\ UNCHANGED scheduled

\* Mutant: a timeout is counted off whether there is one or not.
ClearAnyTimer == scheduled' = scheduled - 1 /\ handle' = "null"

\* The timeout the manager still knows of is cleared.
ClearTimer ==
    /\ scheduled' = IF handle = "armed" THEN scheduled - 1 ELSE scheduled
    /\ handle' = "null"

\* cancel()
Cancel == ClearTimer /\ UNCHANGED <<attempt, backoff>>

\* Mutant: only the timer is reset.
ResetTimer == Cancel

\* reset()
ResetBackoff == attempt' = 0 /\ ClearTimer /\ UNCHANGED backoff

\* A timeout fires; the handle stays set.
Fire ==
    /\ scheduled > 0
    /\ scheduled' = scheduled - 1
    /\ handle' = "fired"
    /\ UNCHANGED <<attempt, backoff>>
==========================================================================
