------------------------------- MODULE RgbLed -------------------------------
(***************************************************************************)
(* The prioritised RGB LED (lib_util/rgb_led.cpp).  Every priority holds a *)
(* pattern-colour pair (m_patterns); set() stores one under m_mutex and    *)
(* makes the pair of the highest priority whose pattern is not DISABLED    *)
(* the active one (m_active_pattern).  set_from_hex() converts a 24-bit    *)
(* colour and calls set() with the active pattern, read without the       *)
(* mutex.  A timed event on the hardware IO worker thread (on_led_update)  *)
(* copies the active pair under the mutex and then drives the PWM pins     *)
(* with its colour and a brightness chosen by its pattern.                 *)
(*                                                                         *)
(* The synced time on_led_update takes from calculate_synced_time only     *)
(* sets the phase of a fade or blink; the driver's state is abstracted to  *)
(* the pair it was last given (rgb_driver.set_color, set_brightness).     *)
(***************************************************************************)
EXTENDS Naturals, FiniteSets, FiniteSetsExt

CONSTANTS
  Patterns,    \* LedPattern values the callers use (0 is DISABLED)
  Colours,     \* colours passed to set(), as byte triples
  Hexes,       \* 24-bit colours passed to set_from_hex()
  Callers,     \* threads calling the LED's methods
  MaxCalls     \* bound: calls made by all callers together

LED_PATTERN_DISABLED == 0
LED_PRIORITY_COUNT == 4
Priority == 0..(LED_PRIORITY_COUNT - 1)

ASSUME LED_PATTERN_DISABLED \in Patterns /\ MaxCalls \in Nat

\* Colours::black; a ColorRGB is kept as three bytes (the code's floats
\* times 255).
Black == <<0, 0, 0>>

\* set_from_hex: the three bytes of color_hex, red in bits 16..23.
HexColour(hex) == <<(hex \div 65536) % 256, (hex \div 256) % 256, hex % 256>>

Colour == Colours \cup {HexColour(h) : h \in Hexes} \cup {Black}
Pair == [pattern : Patterns, colour : Colour]
Off == [pattern |-> LED_PATTERN_DISABLED, colour |-> Black]
NoLocal == [pattern |-> -1, colour |-> Black]

VARIABLES
  patterns,    \* m_patterns
  active,      \* m_active_pattern
  timer,       \* led_timer registered with the worker thread
  local,       \* on_led_update's copy of the active pair, or NoLocal
  shown,       \* the pair the driver was last set to
  cpc,         \* each caller: idle, inside set_from_hex after its read, or
               \* inside initialize()'s reset loop at priority i
  calls        \* calls made so far

vars == <<patterns, active, timer, local, shown, cpc, calls>>

\* Mutant: the constructor without its m_active_pattern assignment.
InitNoActive ==
  /\ patterns = [p \in Priority |-> Off]
  /\ active = NoLocal
  /\ timer = FALSE
  /\ local = NoLocal
  /\ shown = Off
  /\ cpc = [c \in Callers |-> [pc |-> "idle"]]
  /\ calls = 0

\* The static instance's constructor: no pattern stored (a std::map's
\* operator[] then yields DISABLED, black), the active pair DISABLED and
\* black, no timer; the driver's pins are at duty 100, i.e. dark.
Init ==
  /\ patterns = [p \in Priority |-> Off]
  /\ active = Off
  /\ timer = FALSE
  /\ local = NoLocal
  /\ shown = Off
  /\ cpc = [c \in Callers |-> [pc |-> "idle"]]
  /\ calls = 0

\* set()'s loop from LED_PRIORITY_COUNT-1 down: the first priority whose
\* pattern is not DISABLED, if any.
Enabled(ps) == {p \in Priority : ps[p].pattern # LED_PATTERN_DISABLED}
TopPriority(ps) == Max(Enabled(ps))

\* The body of set() under m_mutex: store the pair, then make the top
\* enabled pair active; with none enabled the loop ends and m_active_pattern
\* is left as it was.
Store(prio, pair) ==
  /\ patterns' = [patterns EXCEPT ![prio] = pair]
  /\ active' = IF Enabled(patterns') = {} THEN active
               ELSE patterns'[TopPriority(patterns')]

Call(c) == cpc[c].pc = "idle" /\ calls < MaxCalls /\ calls' = calls + 1

\* RgbLed::set(prio, pattern, rgb).
Set(c, prio, pat, col) ==
  /\ Call(c)
  /\ Store(prio, [pattern |-> pat, colour |-> col])
  /\ UNCHANGED <<timer, local, shown, cpc>>

\* set_from_hex, first step: convert the colour and read
\* m_active_pattern.first without taking m_mutex.
SetFromHexRead(c, prio, hex) ==
  /\ Call(c)
  /\ cpc' = [cpc EXCEPT ![c] = [pc |-> "hex", prio |-> prio,
                                colour |-> HexColour(hex),
                                pattern |-> active.pattern]]
  /\ UNCHANGED <<patterns, active, timer, local, shown>>

\* set_from_hex, second step: set(priority, the pattern read, rgb).
SetFromHexSet(c) ==
  /\ cpc[c].pc = "hex"
  /\ Store(cpc[c].prio, [pattern |-> cpc[c].pattern, colour |-> cpc[c].colour])
  /\ cpc' = [cpc EXCEPT ![c] = [pc |-> "idle"]]
  /\ UNCHANGED <<timer, local, shown, calls>>

\* initialize(), first part: rgb_driver.init() sets every pin to duty 100
\* (dark); the reset loop starts at priority 0.
InitializeStart(c) ==
  /\ Call(c)
  /\ shown' = Off
  /\ cpc' = [cpc EXCEPT ![c] = [pc |-> "init", i |-> 0]]
  /\ UNCHANGED <<patterns, active, timer, local>>

\* One iteration of initialize()'s loop: priority i reset to DISABLED,
\* black, without m_mutex and without touching m_active_pattern, so a
\* set() of another thread can run between two iterations.
InitializeReset(c) ==
  /\ cpc[c].pc = "init" /\ cpc[c].i < LED_PRIORITY_COUNT
  /\ patterns' = [patterns EXCEPT ![cpc[c].i] = Off]
  /\ cpc' = [cpc EXCEPT ![c].i = @ + 1]
  /\ UNCHANGED <<active, timer, local, shown, calls>>

\* initialize(), last part: the 100 ms timed event is registered.
InitializeRegister(c) ==
  /\ cpc[c].pc = "init" /\ cpc[c].i = LED_PRIORITY_COUNT
  /\ timer' = TRUE
  /\ cpc' = [cpc EXCEPT ![c] = [pc |-> "idle"]]
  /\ UNCHANGED <<patterns, active, local, shown, calls>>

\* set_update_interval(): deregisters the timed event if there is one and
\* registers it again with the new interval; it registers it also when
\* initialize() never ran.
SetUpdateInterval(c) ==
  /\ Call(c)
  /\ timer' = TRUE
  /\ UNCHANGED <<patterns, active, local, shown, cpc>>

\* on_led_update, first part: the synced time, then get_active() copies
\* m_active_pattern under m_mutex.
TimerGetActive ==
  /\ timer /\ local = NoLocal
  /\ local' = active
  /\ UNCHANGED <<patterns, active, timer, shown, cpc, calls>>

\* Mutant: the copy is not dropped after driving.
TimerDriveKeepCopy ==
  /\ local # NoLocal
  /\ shown' = local
  /\ UNCHANGED <<patterns, active, timer, local, cpc, calls>>

\* on_led_update, second part: the brightness from the copied pattern
\* (0 for DISABLED, 1 for SOLID, a phase of the synced time otherwise),
\* then rgb_driver.set_color and set_brightness.
TimerDrive ==
  /\ local # NoLocal
  /\ shown' = local
  /\ local' = NoLocal
  /\ UNCHANGED <<patterns, active, timer, cpc, calls>>

Next ==
  \/ \E c \in Callers :
       \/ \E prio \in Priority, pat \in Patterns, col \in Colours :
            Set(c, prio, pat, col)
       \/ \E prio \in Priority, hex \in Hexes : SetFromHexRead(c, prio, hex)
       \/ SetFromHexSet(c)
       \/ InitializeStart(c)
       \/ InitializeReset(c)
       \/ InitializeRegister(c)
       \/ SetUpdateInterval(c)
  \/ TimerGetActive
  \/ TimerDrive

\* The timed event fires every interval for as long as it is registered.
Spec == Init /\ [][Next]_vars /\ WF_vars(TimerGetActive) /\ WF_vars(TimerDrive)

-----------------------------------------------------------------------------

\* Every variable holds a value of its type; the calls stay within the bound.
TypeOK ==
  /\ patterns \in [Priority -> Pair]
  /\ active \in Pair /\ shown \in Pair
  /\ timer \in BOOLEAN
  /\ local \in Pair \cup {NoLocal}
  /\ \A c \in Callers : cpc[c].pc \in {"idle", "hex", "init"}
  /\ calls \in 0..MaxCalls

\* Whenever some priority holds an enabled pattern, the active pair is the
\* one of the highest such priority: what set() establishes under m_mutex,
\* asked across set(), set_from_hex() and initialize() from any threads.
ActiveIsTop ==
  \A p \in Priority :
    /\ patterns[p].pattern # LED_PATTERN_DISABLED
    /\ \A q \in p + 1..LED_PRIORITY_COUNT - 1 :
         patterns[q].pattern = LED_PATTERN_DISABLED
    => active = patterns[p]

\* Once the callers stop, the LED settles on the active pair: the timer's
\* copy taken before a set() is only shown until the next tick.
LedFollows == <>[](timer => shown = active)

\* What the header promises: the LED shows the pair of the highest enabled
\* priority, and is dark when every priority is DISABLED.
Requested == IF Enabled(patterns) = {} THEN Off
             ELSE patterns[TopPriority(patterns)]
LedShowsRequest == <>[](timer => shown = Requested)

\* set_from_hex changes the colour only: the set() it makes leaves the
\* active pattern as it was when that set() takes the mutex.
HexKeepsPattern ==
  [][\A c \in Callers : SetFromHexSet(c) => active'.pattern = active.pattern]_vars

=============================================================================
