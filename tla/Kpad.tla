-------------------------------- MODULE Kpad --------------------------------
(***************************************************************************)
(* The controller the game sees: update_host_controller of main.c scans    *)
(* the buttons and the touchscreen once a host frame, service_kpad_read    *)
(* answers the game's KPADRead from what the scans left.  The two run at   *)
(* their own rates: several scans may come between two reads, and several  *)
(* reads between two scans.                                                *)
(* The circle pad and the coordinates themselves are left out.             *)
(***************************************************************************)
EXTENDS Naturals, FiniteSets

CONSTANTS HostKey     \* bound: the keys that may be held, of those below

\* map_host_kpad_buttons: what each key of the host is on the remote.
ButtonOf == [DLEFT |-> "LEFT", DRIGHT |-> "RIGHT", DDOWN |-> "DOWN", DUP |-> "UP",
             START |-> "PLUS", Y |-> "2", X |-> "1", B |-> "B", A |-> "A",
             SELECT |-> "MINUS", L |-> "Z", ZL |-> "Z", R |-> "C", ZR |-> "C"]

ASSUME KpadAssumption == HostKey \subseteq DOMAIN ButtonOf

\* No touch, a touch outside of the picture, one in it.
Touch == {"none", "border", "picture"}

VARIABLES
    held,           \* g_host_keys_held, without KEY_TOUCH
    latched,        \* g_host_keys_latched_down
    pointer,        \* g_host_pointer_active
    clickReady,     \* g_host_touch_click_ready
    previousHold,   \* g_kpad_previous_hold
    shakePhase,     \* g_kpad_shake_phase
    sample,         \* the KPADStatus of the last read that gave one
    connected,      \* the game's connection cache
    pressed,        \* history: keys that went down since that read
    pointed,        \* history: was the pointer in the picture two scans running?
    toldHeld        \* history: what is held, by the edges the game was told

kpadVars == <<held, latched, pointer, clickReady, previousHold, shakePhase,
              sample, connected, pressed, pointed, toldHeld>>

Buttons(keys) == {ButtonOf[k] : k \in keys}
NoSample == [hold |-> {}, trigger |-> {}, release |-> {}, shake |-> 0, pointer |-> FALSE]

KpadInit ==
    /\ held = {} /\ latched = {} /\ pointer = FALSE /\ clickReady = FALSE
    /\ previousHold = {} /\ shakePhase = FALSE
    /\ sample = NoSample /\ connected = FALSE
    /\ pressed = {} /\ pointed = FALSE /\ toldHeld = {}
-----------------------------------------------------------------------------
(* Mutant: the latch holds only what the last scan found. *)
LatchLastScan(keys, touch) ==
    /\ held' = keys
    /\ latched' = keys \ held
    /\ pointer' = (touch = "picture")
    /\ clickReady' = ((touch = "picture") /\ pointer)
    /\ pressed' = pressed \cup (keys \ held)
    /\ pointed' = (pointer /\ touch = "picture")
    /\ UNCHANGED <<previousHold, shakePhase, sample, connected, toldHeld>>

\* update_host_controller
HostFrame(keys, touch) ==
    /\ held' = keys
    /\ latched' = latched \cup (keys \ held)
    /\ pointer' = (touch = "picture")
    /\ clickReady' = ((touch = "picture") /\ pointer)
    /\ pressed' = pressed \cup (keys \ held)
    /\ pointed' = (pointer /\ touch = "picture")
    /\ UNCHANGED <<previousHold, shakePhase, sample, connected, toldHeld>>

HostKeys == held \cup latched
Hold == Buttons(HostKeys) \cup (IF clickReady THEN {"A"} ELSE {})

\* service_kpad_read for a channel, a capacity or an address it refuses
RefuseRead == UNCHANGED kpadVars

\* (the game's objects may not be there yet when it publishes the connection),
KpadRead(published) ==
    /\ shakePhase' = (shakePhase # ("X" \in HostKeys))
    /\ sample' = [hold    |-> Hold,
                  trigger |-> Hold \ previousHold,
                  release |-> previousHold \ Hold,
                  shake   |-> IF "X" \notin HostKeys THEN 0 ELSE IF shakePhase' THEN 1 ELSE 2,
                  pointer |-> pointer]
    /\ previousHold' = Hold
    /\ connected' = (connected \/ published)
    /\ latched' = {}
    /\ pressed' = {}
    /\ toldHeld' = (toldHeld \cup sample'.trigger) \ sample'.release
    /\ UNCHANGED <<held, pointer, clickReady, pointed>>

KpadNext ==
    \/ \E keys \in SUBSET HostKey, touch \in Touch : HostFrame(keys, touch)
    \/ RefuseRead
    \/ \E published \in BOOLEAN : KpadRead(published)

KpadSpec == KpadInit /\ [][KpadNext]_kpadVars
-----------------------------------------------------------------------------
KpadTypeOK ==
    /\ held \subseteq HostKey /\ latched \subseteq HostKey /\ pressed \subseteq HostKey
    /\ {pointer, clickReady, shakePhase, connected, pointed} \subseteq BOOLEAN
    /\ previousHold \subseteq Buttons(DOMAIN ButtonOf)
    /\ toldHeld \subseteq Buttons(DOMAIN ButtonOf)
    /\ sample.hold \subseteq Buttons(DOMAIN ButtonOf)

(* Reads answer for everything that happened since the last one: a key     *)
(* that went down is held in the next sample even if it is up again by     *)
(* then; the edges add up to what the sample says is held, so the game     *)
(* never has a button stuck or released twice; and the A of the            *)
(* touchscreen is in a sample only if its pointer has been in the picture  *)
(* for two scans, and is in it in that sample too.                         *)
InputComplete ==
    [][sample' # sample \/ (pressed # {} /\ pressed' = {}) =>
          /\ Buttons(pressed) \subseteq sample'.hold
          /\ toldHeld' = sample'.hold
          /\ "A" \in sample'.hold /\ "A" \notin HostKeys => pointed /\ sample'.pointer
      ]_kpadVars
=============================================================================
