----------------------------- MODULE KeyDriver ------------------------------
(***************************************************************************)
(* key.c: key_init and key_intr_handler, which tells short from long       *)
(* presses by the time between two edges, and arms one of two timers.      *)
(*                                                                         *)
(* Time passes in ticks: a press of no tick is shorter than 50 ms, one of  *)
(* up to ShortMax ticks is short, one of more than LongMin ticks long.     *)
(* The pin sets its status bit at every edge; the handler takes the level  *)
(* first and clears the bit last, and an edge that falls in between is     *)
(* cleared with it, unseen.                                                *)
(***************************************************************************)
EXTENDS Integers

CONSTANTS
    ShortMax, LongMin,   \* 1000000 and 4000000 us
    None

ASSUME KeyAssumption ==
    /\ ShortMax \in Nat /\ LongMin \in Nat /\ ShortMax <= LongMin
    /\ None \notin Int

MaxTicks == LongMin + 1    \* longer is all the same

VARIABLES
    pressed,       \* the level of the pin is key_level
    status,        \* the bit of the pin in GPIO_STATUS
    handling,      \* the handler is before its clear of the status
    age,           \* the time since last_time; None: last_time is 0
    shortArmed, longArmed,    \* key_50ms and key_5s
    steady,        \* history: ticks the key has been pressed in a row
    missed         \* history: the handler took the key for pressed, and its
                   \* clear took the edge of the release

timers == <<shortArmed, longArmed>>
keyVars == <<pressed, status, handling, age, timers, steady, missed>>

KeyInit ==
    /\ pressed = FALSE /\ status = FALSE /\ handling = FALSE
    /\ age = None /\ shortArmed = FALSE /\ longArmed = FALSE
    /\ steady = 0 /\ missed = FALSE

Edge ==
    /\ pressed' = ~pressed
    /\ status' = TRUE
    /\ missed' = IF handling /\ age # None THEN ~missed ELSE missed
    /\ UNCHANGED <<handling, age, timers, steady>>

Later(t) == IF t < MaxTicks THEN t + 1 ELSE t

\* A tick is long for an interrupt that is pending.
Tick ==
    /\ ~status /\ ~handling
    /\ age' = IF age = None THEN None ELSE Later(age)
    /\ steady' = IF pressed THEN Later(steady) ELSE 0
    /\ UNCHANGED <<pressed, status, handling, timers, missed>>

IsShort(duration) == 0 < duration /\ duration <= ShortMax
IsLong(duration) == duration > LongMin

\* "start count time if key is pressed"
LastTime_AnyEdge == 0
LastTime == IF pressed THEN 0 ELSE None

key_intr_handler ==
    /\ status /\ ~handling
    /\ longArmed' = (longArmed \/ (age # None /\ IsLong(age)))
    /\ shortArmed' = (shortArmed \/ (age # None /\ IsShort(age)))
    /\ age' = LastTime
    /\ handling' = TRUE /\ missed' = FALSE
    /\ UNCHANGED <<pressed, status, steady>>

ClearStatus ==
    /\ handling
    /\ handling' = FALSE /\ status' = FALSE
    /\ UNCHANGED <<pressed, age, timers, steady, missed>>

\* A timer fires; what the callback does is its user's.
key_short_cb ==
    /\ shortArmed /\ shortArmed' = FALSE
    /\ UNCHANGED <<pressed, status, handling, age, longArmed, steady, missed>>

key_long_cb ==
    /\ longArmed /\ longArmed' = FALSE
    /\ UNCHANGED <<pressed, status, handling, age, shortArmed, steady, missed>>

\* A reset forgets all but the pin; interrupts are off until key_init.
KeyReset ==
    /\ status' = FALSE /\ handling' = FALSE
    /\ age' = None /\ shortArmed' = FALSE /\ longArmed' = FALSE /\ missed' = FALSE
    /\ UNCHANGED <<pressed, steady>>

key_init ==
    /\ status' = FALSE
    /\ UNCHANGED <<pressed, handling, age, timers, steady, missed>>

KeyTypeOK ==
    /\ {pressed, status, handling, missed, shortArmed, longArmed} \subseteq BOOLEAN
    /\ age \in 0 .. MaxTicks \cup {None} /\ steady \in 0 .. MaxTicks

(* A press that is none costs no more than the interrupt that follows a    *)
(* lost edge: but for that one, whatever edges, bounces and lost edges     *)
(* came before, a timer is armed only after the key was held for as long   *)
(* as that press must be, and a factory reset needs the long one.          *)
PressesAreReal ==
    [][ /\ longArmed' /\ ~longArmed => IsLong(steady) \/ missed
        /\ shortArmed' /\ ~shortArmed => steady > 0 \/ missed ]_keyVars
=============================================================================
