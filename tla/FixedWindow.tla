----------------------------- MODULE FixedWindow -----------------------------
(***************************************************************************)
(* What a caller of the rate limiter may expect, with no map and no sweep: *)
(* the first call of a key opens a window, the window lets Limit calls in  *)
(* and closes by itself when its time is up.                               *)
(***************************************************************************)
EXTENDS Integers, Sequences

CONSTANTS
    Keys,    \* the identifiers that are limited
    Limit,   \* calls let in per window
    Window,  \* length of a window
    Closed   \* no window is open

VARIABLES
    now,      \* the time
    windows,  \* key -> when its window opened and the calls it has let in
    log       \* the calls answered so far

windowVars == <<now, windows, log>>

Init ==
    /\ now = 0
    /\ windows = [k \in Keys |-> Closed]
    /\ log = <<>>

Tick ==
    /\ now' = now + 1
    /\ windows' = [k \in Keys |->
          IF windows[k] # Closed /\ now' - windows[k].start >= Window
          THEN Closed ELSE windows[k]]
    /\ UNCHANGED log

Answer(k, ok) == log' = Append(log, [key |-> k, now |-> now, ok |-> ok])

Open(k) ==
    /\ windows[k] = Closed
    /\ windows' = [windows EXCEPT ![k] = [start |-> now, count |-> 1]]
    /\ Answer(k, TRUE)
    /\ UNCHANGED now

Admit(k) ==
    /\ windows[k] # Closed
    /\ windows[k].count < Limit
    /\ windows' = [windows EXCEPT ![k].count = @ + 1]
    /\ Answer(k, TRUE)
    /\ UNCHANGED now

Refuse(k) ==
    /\ windows[k] # Closed
    /\ windows[k].count >= Limit
    /\ Answer(k, FALSE)
    /\ UNCHANGED <<now, windows>>

Next == Tick \/ \E k \in Keys : Open(k) \/ Admit(k) \/ Refuse(k)

Spec == Init /\ [][Next]_windowVars
=============================================================================
