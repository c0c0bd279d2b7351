------------------------------ MODULE OpenPlug ------------------------------
(***************************************************************************)
(* The open-plug sketch: a relay whose status is set by a key, by messages *)
(* of the platform and by voice control, published, and saved with the     *)
(* other settings in one flash sector, which a reset reads again.          *)
(*                                                                         *)
(* A handler runs to its end before the next one starts: todo is what is   *)
(* left of it, step by step, so that the power may fail or the watchdog    *)
(* bite after any of them.  The sector holds words words of a buffer: the  *)
(* first with the status, two (of eight) with the name, the last with the  *)
(* flags; what was not written reads as 0xff.                              *)
(***************************************************************************)
EXTENDS KeyDriver, Sequences, FiniteSets

CONSTANTS
    Flags,       \* of cold_on, alexa_on, airkiss_nff_on
    Messages     \* <<event_name, event_data>> of the platform

ASSUME PlugAssumption ==
    "cold_on" \in Flags /\ Flags \subseteq {"cold_on", "alexa_on", "airkiss_nff_on"}

Erased == 255
Names == {"open plug", "fan plug", "office"}
BadName == "not terminated"
Full == 4

Default(flag) == IF flag = "cold_on" THEN 0 ELSE 1

VARIABLES
    words, sector,   \* the parameter sector
    warm,            \* the mark in RTC memory, which survives resets only
    param,           \* minik_param
    relay,           \* the level of the relay's pin
    todo,            \* what is left of the running handler
    connected,       \* to the platform
    cloud,           \* history: the status this connection was told last, or 0
    known,           \* history: values of param since the plug was settled
    since            \* history: the boots since power came on: see BootKind

flash   == <<words, sector>>
history == <<cloud, known, since>>
plugVars == <<flash, warm, param, relay, todo, connected, history>>
vars == <<keyVars, plugVars>>

\* No boot yet, one that found its sector erased, or one that left its mark.
BootKind == {"none", "erased", "marked"}

Read ==
    [ status |-> IF words >= 1 THEN sector.status ELSE Erased,
      name   |-> IF words >= 3 THEN sector.name ELSE BadName,
      flags  |-> [f \in Flags |-> IF words = Full THEN sector.flags[f] ELSE Erased] ]

Factory == [status |-> 0, name |-> "open plug", flags |-> [f \in Flags |-> Default(f)]]

-----------------------------------------------------------------------------
(* The steps of the handlers                                               *)

SetStatus(v) == <<"status", v>>
SetFlag(f, v) == <<"flag", f, v>>
SetName(n) == <<"name", n>>
SetRelayAndPublish(v) == <<"publish", v>>

\* param_save
Save == << <<"erase">>, <<"write">> >>

Setup == << <<"param_init">>, <<"key_init">>, <<"relay_init">> >>

\* Which switch command the data starts with, and the number it is.
SwitchOf(data) ==
    CASE data = "on" -> {1}
      [] data \in {"off", "office"} -> {0}
      [] OTHER -> {}
atoi(data) == CASE data = "1" -> 1 [] data = "255" -> 255 [] OTHER -> 0

SaveThenSet_SaveFirst(v) == Save \o << SetStatus(v), SetRelayAndPublish(v) >>
SaveThenSet(v) == << SetStatus(v) >> \o Save \o << SetRelayAndPublish(v) >>

\* What mjyun_receive does, test after test.
Receive(name, data, started) ==
    LET OnSwitch == IF SwitchOf(data) = {} THEN <<>>
                    ELSE SaveThenSet(CHOOSE v \in SwitchOf(data) : TRUE)
        OnFlag == IF name \notin Flags THEN <<>>
                  ELSE << SetFlag(name, IF name = "alexa_on" /\ atoi(data) = 1 /\ ~started
                                        THEN 0 ELSE atoi(data)) >> \o Save
        OnName == IF name = "voice_name" /\ data \in Names
                  THEN << SetName(data) >> \o Save ELSE <<>>
    IN OnSwitch \o OnFlag \o OnName

Idle == todo = <<>>

\* system_restart may return first: handlers run until the restart comes.
Ready == Idle \/ todo = << <<"restart">> >>
Start(steps) == Ready /\ todo' = steps \o todo

\* started: upnp_ssdp_start succeeds.
mjyun_receive(name, data, started) ==
    /\ connected /\ Start(Receive(name, data, started))
    /\ UNCHANGED <<keyVars, flash, warm, param, relay, connected, history>>

\* relay_on_saved_and_pub and relay_off_saved_and_pub: the relay comes first.
VoiceControl(v) ==
    /\ Start(<< SetRelayAndPublish(v), SetStatus(v) >> \o Save)
    /\ UNCHANGED <<keyVars, flash, warm, param, relay, connected, history>>

xkey_short_press ==
    /\ key_short_cb /\ Start(SaveThenSet(1 - relay))
    /\ UNCHANGED <<flash, warm, param, relay, connected, history>>

xkey_long_press ==
    /\ key_long_cb
    /\ Start(<< <<"erase">> >> \o (IF Idle THEN << <<"restart">> >> ELSE <<>>))
    /\ known' = known \cup {Factory}
    /\ UNCHANGED <<flash, warm, param, relay, connected, cloud, since>>

\* WIFI_STATION_OK with an upnp_start that fails: in RAM only.
UpnpFails ==
    /\ Ready /\ "alexa_on" \in Flags
    /\ param' = [param EXCEPT !.flags["alexa_on"] = 0]
    /\ known' = known \cup {param'}
    /\ UNCHANGED <<keyVars, flash, warm, relay, todo, connected, cloud, since>>

get_relay_status ==
    /\ Ready
    /\ param' = [param EXCEPT !.status = relay]
    /\ UNCHANGED <<keyVars, flash, warm, relay, todo, connected, history>>

\* The new connection is told the status.
mjyun_connected ==
    /\ Ready /\ ~connected
    /\ connected' = TRUE /\ cloud' = relay
    /\ UNCHANGED <<keyVars, flash, warm, param, relay, todo, known, since>>

mjyun_disconnected ==
    /\ Ready /\ connected
    /\ connected' = FALSE /\ cloud' = 0
    /\ UNCHANGED <<keyVars, flash, warm, param, relay, todo, known, since>>

-----------------------------------------------------------------------------
(* param_init                                                              *)

TurnsOn_NotOff(p) == p.flags["cold_on"] # 0
TurnsOn(p) == p.flags["cold_on"] = 1

\* A boot that finds its sector erased does not leave the mark.
Marked_Never(p) == warm
Marked(p) == warm \/ p.status # Erased

\* strlen of the name gets to its end, and finds neither nothing nor 32 bytes.
IsName_NotEmpty(n) == TRUE
IsName(n) == n # BadName

Restored(p) ==
    [ status |-> IF p.status = Erased THEN 0
                 ELSE IF ~warm /\ TurnsOn(p) THEN 1 ELSE p.status,
      name   |-> IF p.status = Erased \/ ~IsName(p.name) THEN "open plug" ELSE p.name,
      flags  |-> [f \in Flags |-> IF p.flags[f] = Erased THEN Default(f) ELSE p.flags[f]] ]

MustSave(p) == Restored(p) # p \/ (~warm /\ TurnsOn(p))

Does(step) == ~Idle /\ Head(todo) = step /\ todo' = Tail(todo)

\* A plug that has nothing left to do is settled with what it has.
Settles ==
    known' = IF Tail(todo) \in {<<>>, << <<"restart">> >>} THEN {param'} ELSE known \cup {param'}

param_init ==
    /\ ~Idle /\ Head(todo) = <<"param_init">>
    /\ param' = Restored(Read)
    /\ warm' = Marked(Read)
    /\ todo' = (IF MustSave(Read) THEN Save ELSE <<>>) \o Tail(todo)
    /\ since' = IF Read.status = Erased /\ since # "marked" THEN "erased" ELSE "marked"
    /\ UNCHANGED <<keyVars, flash, relay, connected, cloud, known>>

Initialise ==
    \/ Does(<<"key_init">>) /\ key_init /\ UNCHANGED <<relay, known>>
    \/ Does(<<"relay_init">>) /\ relay' = param.status /\ known' = {param} /\ UNCHANGED keyVars

Assign ==
    \/ \E v \in 0 .. 1 : Does(SetStatus(v)) /\ param' = [param EXCEPT !.status = v]
    \/ \E f \in Flags, v \in {0, 1, 255} :
          Does(SetFlag(f, v)) /\ param' = [param EXCEPT !.flags[f] = v]
    \/ \E n \in Names : Does(SetName(n)) /\ param' = [param EXCEPT !.name = n]

SwitchRelay ==
    \E v \in 0 .. 1 :
        /\ Does(SetRelayAndPublish(v))
        /\ relay' = v
        /\ cloud' = IF connected THEN v ELSE cloud

SaveStep ==
    \/ Does(<<"erase">>) /\ words' = 0 /\ UNCHANGED sector
    \/ Does(<<"write">>) /\ words' = Full /\ sector' = param

Boot(cold) ==
    /\ todo' = Setup
    /\ KeyReset
    /\ param' = Factory    \* cleared, until param_init reads it
    /\ relay' = 0 /\ connected' = FALSE /\ cloud' = 0
    /\ warm' = (warm /\ ~cold)
    /\ since' = IF cold THEN "none" ELSE since
    /\ UNCHANGED known

Step ==
    \/ param_init
    \/ Initialise /\ UNCHANGED <<flash, warm, param, connected, cloud, since>>
    \/ /\ \/ Assign /\ UNCHANGED <<flash, relay, cloud>>
          \/ SwitchRelay /\ UNCHANGED <<flash, param>>
          \/ SaveStep /\ UNCHANGED <<param, relay, cloud>>
       /\ Settles
       /\ UNCHANGED <<keyVars, warm, connected, since>>
    \/ ~Idle /\ Head(todo) = <<"restart">> /\ Boot(FALSE) /\ UNCHANGED flash

\* The power fails, or the watchdog or an update restarts the program,
\* perhaps in the middle of an erase or a write.
Reset(cold) ==
    /\ Boot(cold)
    /\ CASE ~Idle /\ Head(todo) = <<"erase">> -> words' \in {0, words} /\ UNCHANGED sector
         [] ~Idle /\ Head(todo) = <<"write">> -> words' \in 0 .. Full /\ sector' = param
         [] OTHER -> UNCHANGED flash

-----------------------------------------------------------------------------
\* A new plug, powered up for the first time.
Init ==
    /\ KeyInit
    /\ words = 0 /\ sector = Factory /\ warm = FALSE
    /\ param = Factory /\ relay = 0 /\ todo = Setup
    /\ connected = FALSE /\ cloud = 0
    /\ known = {Factory} /\ since = "none"

\* Interrupts are served from key_init on.
KeyStep ==
    /\ \/ Edge \/ Tick \/ ClearStatus
       \/ key_intr_handler /\ \A i \in DOMAIN todo : todo[i] # <<"key_init">>
    /\ UNCHANGED plugVars

Handler ==
    \/ \E m \in Messages, started \in BOOLEAN : mjyun_receive(m[1], m[2], started)
    \/ \E v \in 0 .. 1 : VoiceControl(v)
    \/ xkey_short_press \/ xkey_long_press
    \/ UpnpFails \/ get_relay_status
    \/ mjyun_connected \/ mjyun_disconnected

Next == KeyStep \/ Handler \/ Step \/ \E cold \in BOOLEAN : Reset(cold)

Spec == Init /\ [][Next]_vars

-----------------------------------------------------------------------------
Steps ==
    { <<"param_init">>, <<"key_init">>, <<"relay_init">>, <<"erase">>, <<"write">>, <<"restart">> }
    \cup {SetStatus(v) : v \in 0 .. 1} \cup {SetRelayAndPublish(v) : v \in 0 .. 1}
    \cup {SetFlag(f, v) : f \in Flags, v \in {0, 1, Erased}} \cup {SetName(n) : n \in Names}

Params == [status : {0, 1, Erased}, name : Names \cup {BadName},
           flags : [Flags -> {0, 1, Erased}]]

(* Types; what a handler leaves in RAM is never an erased status or name.  *)
TypeOK ==
    /\ KeyTypeOK
    /\ words \in 0 .. Full /\ sector \in Params /\ param \in Params
    /\ param.status # Erased /\ param.name # BadName
    /\ {warm, connected} \subseteq BOOLEAN
    /\ {relay, cloud} \subseteq {0, 1}
    /\ todo \in Seq(Steps)
    /\ known \subseteq Params /\ since \in BootKind

(* When no handler runs, the relay, the status in RAM and the saved one    *)
(* are the same, all settings but a failed voice control are saved, and    *)
(* the platform has been told: whichever of the handlers came in which     *)
(* order, between which resets.                                            *)
SettledIsSaved ==
    Idle =>
        /\ relay = param.status
        /\ words = Full /\ sector.status = relay /\ sector.name = param.name
        /\ \A f \in Flags \ {"alexa_on"} : sector.flags[f] = param.flags[f]
        /\ connected => cloud = relay

(* A reset in the middle of a save may lose settings to their defaults but *)
(* mixes in nothing else: above all the switch comes up on only if it was  *)
(* on, was being switched on, or is to come up on.                         *)
NothingInvented ==
    [][ param_init =>
          /\ param'.status = 1 => \E p \in known : p.status = 1 \/ p.flags["cold_on"] = 1
          /\ param'.name \in {Factory.name} \cup {p.name : p \in known}
          /\ \A f \in Flags : param'.flags[f] \in {Default(f)} \cup {p.flags[f] : p \in known} ]_vars

(* param.c: "Warm boot up, use the status saved in flash!" - once a boot   *)
(* after power-up left its mark, which the one that finds the sector       *)
(* erased does not.  Without cold_on it holds for every boot.              *)
WarmBootKeepsStatus ==
    [][ param_init /\ words = Full =>
          \A v \in 0 .. 1 :
             (\A p \in known : p.status = v) =>
                 \/ param'.status = v
                 \/ since # "marked" /\ \E p \in known : p.flags["cold_on"] = 1 ]_vars
=============================================================================
