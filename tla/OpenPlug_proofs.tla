--------------------------- MODULE OpenPlug_proofs ---------------------------
(* Proofs about OpenPlug, for every threshold of the key driver, every set *)
(* of messages and any number of resets.                                   *)
EXTENDS OpenPlug, SequenceTheorems, TLAPS

KeyTypes ==
    /\ pressed \in BOOLEAN /\ status \in BOOLEAN /\ handling \in BOOLEAN /\ missed \in BOOLEAN
    /\ shortArmed \in BOOLEAN /\ longArmed \in BOOLEAN
    /\ age \in 0 .. MaxTicks \cup {None} /\ steady \in 0 .. MaxTicks

\* While last_time is set and no edge is pending or lost the key is down, and
\* it has been for as long as the driver counts.
Counting ==
    age # None =>
        /\ handling => pressed = ~missed
        /\ ~handling /\ ~status /\ ~missed => pressed
        /\ handling \/ ~missed => age <= steady

\* The steps of the handlers; key_init is none of theirs.
Quiet == Steps \ { <<"key_init">> }

\* Nothing is counted before key_init.
NotYetInit == todo \in Seq(Steps) /\ (age # None => todo \in Seq(Quiet))

KInv == KeyTypes /\ Counting /\ NotYetInit

\* The types of the plug, all but todo's.
PlugTypes ==
    /\ words \in 0 .. Full /\ sector \in Params /\ param \in Params
    /\ param.status # Erased /\ param.name # BadName
    /\ warm \in BOOLEAN /\ connected \in BOOLEAN
    /\ relay \in {0, 1} /\ cloud \in {0, 1}
    /\ known \subseteq Params /\ since \in BootKind

IInv == KInv /\ PlugTypes

Erase == <<"erase">>
Write == <<"write">>
Rise  == << <<"key_init">>, <<"relay_init">> >>

FactoryReset == << Erase, <<"restart">> >>

\* What is left of a boot, or of a handler, which may have begun when only a
\* restart was left to do.
Booting    == todo \in {Setup, Save \o Rise, <<Write>> \o Rise, Rise, Tail(Rise)}
Handling   == \A i \in 1 .. Len(todo) :
                 todo[i][1] \in {"status", "publish", "flag", "name", "erase", "write", "restart"}
Restarting == \E i \in 1 .. Len(todo) : todo[i][1] = "restart"

\* UpnpFails, in RAM only, may come when no handler runs.
Saved ==
    /\ words = Full /\ sector.status = param.status /\ sector.name = param.name
    /\ \A f \in Flags \ {"alexa_on"} : sector.flags[f] = param.flags[f]
    /\ Idle \/ sector = param

Last == {"publish", "restart"}
OnlyPublishes == \A i \in 1 .. Len(todo) : todo[i][1] \in Last
WillBeSaved ==
    \E i \in 1 .. Len(todo) :
        todo[i][1] = "write" /\ \A j \in i + 1 .. Len(todo) : todo[j][1] \in Last

\* After the erase of a factory reset the sector is erased or saved whole, or
\* no handler is at work on it.
RestartsClean ==
    Restarting /\ (todo = << <<"restart">> >> \/ words = 0 \/ sector = param)

\* The handler leaves v in the status and on the relay.
EndsWith(v) ==
    /\ \A i \in 1 .. Len(todo) : todo[i][1] \in {"status", "publish"} => todo[i][2] = v
    /\ param.status = v \/ \E i \in 1 .. Len(todo) : todo[i][1] = "status"
    /\ relay = v \/ \E i \in 1 .. Len(todo) : todo[i][1] = "publish"

PlanInv ==
    /\ todo \in Seq(Steps) /\ (Booting \/ Handling)
    /\ Handling => \/ WillBeSaved
                   \/ OnlyPublishes /\ (Saved \/ RestartsClean)
                   \/ todo = FactoryReset
    /\ Handling /\ ~Restarting => \E v \in {0, 1} : EndsWith(v)
    /\ todo \in {Rise, Tail(Rise)} => Saved
    /\ Booting => ~connected
    /\ connected => cloud = relay

\* What the sector holds, whole or in part, is a known value, and so is what
\* is about to be written.
KnownInv ==
    /\ words > 0 => sector \in known
    /\ ~Idle /\ Head(todo) = Write => param \in known
    /\ since = "marked" => warm

SInv == PlugTypes /\ PlanInv /\ KnownInv

\* What arms a timer.
Armed ==
    /\ longArmed' /\ ~longArmed => IsLong(steady) \/ missed
    /\ shortArmed' /\ ~shortArmed => steady > 0 \/ missed

-----------------------------------------------------------------------------
LEMMA LaterCounts ==
    ASSUME NEW a \in 0 .. MaxTicks, NEW b \in 0 .. MaxTicks, a <= b
    PROVE  Later(a) <= Later(b) /\ Later(b) \in 0 .. MaxTicks /\ Later(a) \in 0 .. MaxTicks
  BY KeyAssumption DEF Later, MaxTicks

LEMMA LiteralsAreSteps ==
    /\ \A v \in 0 .. 1 : SetStatus(v) \in Quiet /\ SetRelayAndPublish(v) \in Quiet
    /\ \A f \in Flags, v \in {0, 1, 255} : SetFlag(f, v) \in Quiet
    /\ \A n \in Names : SetName(n) \in Quiet
    /\ <<"restart">> \in Quiet /\ <<"erase">> \in Quiet /\ <<"write">> \in Quiet
    /\ <<"param_init">> \in Steps /\ <<"key_init">> \in Steps /\ <<"relay_init">> \in Steps
  <1>1. ASSUME NEW b PROVE << "status", b >> # <<"key_init">>
    OBVIOUS
  <1>2. ASSUME NEW b PROVE << "publish", b >> # <<"key_init">>
    OBVIOUS
  <1>3. ASSUME NEW b PROVE << "name", b >> # <<"key_init">>
    OBVIOUS
  <1>4. ASSUME NEW b, NEW c PROVE << "flag", b, c >> # <<"key_init">>
    OBVIOUS
  <1>5. \A v \in 0 .. 1 : SetStatus(v) \in Quiet /\ SetRelayAndPublish(v) \in Quiet
    BY <1>1, <1>2 DEF SetStatus, SetRelayAndPublish, Quiet, Steps
  <1>6. \A f \in Flags, v \in {0, 1, 255} : SetFlag(f, v) \in Quiet
    BY <1>4 DEF SetFlag, Quiet, Steps, Erased
  <1>7. \A n \in Names : SetName(n) \in Quiet
    BY <1>3 DEF SetName, Quiet, Steps
  <1>8. /\ <<"restart">> # <<"key_init">> /\ <<"erase">> # <<"key_init">>
        /\ <<"write">> # <<"key_init">>
    OBVIOUS
  <1>9. QED BY <1>5, <1>6, <1>7, <1>8 DEF Quiet, Steps

LEMMA Programs ==
    /\ Save \in Seq(Quiet) /\ Setup \in Seq(Steps)
    /\ <<>> \in Seq(Quiet) /\ << <<"erase">> >> \in Seq(Quiet)
    /\ << <<"restart">> >> \in Seq(Quiet)
    /\ \A v \in 0 .. 1 : /\ SaveThenSet(v) \in Seq(Quiet)
                         /\ << SetRelayAndPublish(v), SetStatus(v) >> \o Save \in Seq(Quiet)
  <1>1. Save \in Seq(Quiet) /\ Setup \in Seq(Steps) /\ <<>> \in Seq(Quiet)
        /\ << <<"erase">> >> \in Seq(Quiet) /\ << <<"restart">> >> \in Seq(Quiet)
    BY LiteralsAreSteps DEF Save, Setup
  <1>2. ASSUME NEW v \in 0 .. 1
        PROVE  /\ SaveThenSet(v) \in Seq(Quiet)
               /\ << SetRelayAndPublish(v), SetStatus(v) >> \o Save \in Seq(Quiet)
    <2>1. /\ << SetStatus(v) >> \in Seq(Quiet) /\ << SetRelayAndPublish(v) >> \in Seq(Quiet)
          /\ << SetRelayAndPublish(v), SetStatus(v) >> \in Seq(Quiet)
      BY LiteralsAreSteps
    <2>2. QED BY <1>1, <2>1, ConcatProperties DEF SaveThenSet
  <1>3. QED BY <1>1, <1>2

LEMMA ReceiveIsQuiet ==
    ASSUME NEW name, NEW data, NEW started \in BOOLEAN
    PROVE  Receive(name, data, started) \in Seq(Quiet)
  <1> DEFINE OnSwitch == IF SwitchOf(data) = {} THEN <<>>
                         ELSE SaveThenSet(CHOOSE v \in SwitchOf(data) : TRUE)
             Value == IF name = "alexa_on" /\ atoi(data) = 1 /\ ~started THEN 0 ELSE atoi(data)
             OnFlag == IF name \notin Flags THEN <<>>
                       ELSE << SetFlag(name, Value) >> \o Save
             OnName == IF name = "voice_name" /\ data \in Names
                       THEN << SetName(data) >> \o Save ELSE <<>>
  <1>1. OnSwitch \in Seq(Quiet)
    <2>1. SwitchOf(data) # {} => (CHOOSE v \in SwitchOf(data) : TRUE) \in 0 .. 1
      BY DEF SwitchOf
    <2>2. QED BY <2>1, Programs
  <1>2. OnFlag \in Seq(Quiet)
    <2>1. Value \in {0, 1, 255}
      BY DEF atoi
    <2>2. name \in Flags => << SetFlag(name, Value) >> \in Seq(Quiet)
      BY <2>1, LiteralsAreSteps
    <2>3. QED BY <2>2, Programs, ConcatProperties
  <1>3. OnName \in Seq(Quiet)
    <2>1. data \in Names => << SetName(data) >> \in Seq(Quiet)
      BY LiteralsAreSteps
    <2>2. QED BY <2>1, Programs, ConcatProperties
  <1>4. Receive(name, data, started) = OnSwitch \o OnFlag \o OnName
    BY DEF Receive
  <1> HIDE DEF OnSwitch, OnFlag, OnName
  <1>5. QED BY <1>1, <1>2, <1>3, <1>4, ConcatProperties

LEMMA InitKeeps == Init => KInv
  <1>1. 0 \in 0 .. MaxTicks
    BY KeyAssumption DEF MaxTicks
  <1>2. QED BY <1>1, Programs DEF Init, KeyInit, KInv, KeyTypes, Counting, NotYetInit

-----------------------------------------------------------------------------
(* The key driver                                                          *)

(* An edge while the handler runs is the one its clear will take.          *)
LEMMA EdgeKeeps == ASSUME KInv, Edge, UNCHANGED todo PROVE KInv' /\ Armed
  <1>1. /\ pressed' = ~pressed /\ status' = TRUE
        /\ missed' = IF handling /\ age # None THEN ~missed ELSE missed
        /\ UNCHANGED <<handling, age, shortArmed, longArmed, steady>>
    BY DEF Edge, timers
  <1>2. NotYetInit' /\ Armed
    BY <1>1 DEF KInv, NotYetInit, Armed
  <1>3. KeyTypes'
    BY <1>1 DEF KInv, KeyTypes
  <1>4. Counting'
    BY <1>1 DEF KInv, KeyTypes, Counting
  <1>5. QED BY <1>2, <1>3, <1>4 DEF KInv

(* Time passes for the driver only while the key is down.                  *)
LEMMA TickKeeps == ASSUME KInv, Tick, UNCHANGED todo PROVE KInv' /\ Armed
  <1>1. /\ ~status /\ ~handling /\ UNCHANGED <<pressed, status, handling, shortArmed, longArmed, missed>>
        /\ age' = IF age = None THEN None ELSE Later(age)
        /\ steady' = IF pressed THEN Later(steady) ELSE 0
    BY DEF Tick, timers
  <1>2. 0 \in 0 .. MaxTicks /\ \A t \in 0 .. MaxTicks : t # None
    BY KeyAssumption DEF MaxTicks
  <1>n. NotYetInit'
    BY <1>1 DEF KInv, NotYetInit
  <1>3. CASE age = None
    <2>1. steady' \in 0 .. MaxTicks
      BY <1>1, <1>2, LaterCounts DEF KInv, KeyTypes
    <2>2. QED BY <1>1, <1>n, <1>3, <2>1 DEF KInv, KeyTypes, Counting, Armed
  <1>4. CASE age # None /\ ~missed
    <2>1. age \in 0 .. MaxTicks /\ steady \in 0 .. MaxTicks /\ age <= steady /\ pressed
      BY <1>1, <1>4 DEF KInv, KeyTypes, Counting
    <2>2. age' = Later(age) /\ steady' = Later(steady)
      BY <1>1, <1>4, <2>1
    <2>3. age' <= steady' /\ age' \in 0 .. MaxTicks /\ steady' \in 0 .. MaxTicks
      BY <2>1, <2>2, LaterCounts
    <2>4. QED BY <1>1, <1>n, <2>1, <2>3 DEF KInv, KeyTypes, Counting, Armed
  <1>5. CASE age # None /\ missed
    <2>1. \A t \in 0 .. MaxTicks : Later(t) \in 0 .. MaxTicks
      BY LaterCounts DEF MaxTicks
    <2>2. age' \in 0 .. MaxTicks /\ steady' \in 0 .. MaxTicks
      BY <1>1, <1>2, <1>5, <2>1 DEF KInv, KeyTypes
    <2>3. QED BY <1>1, <1>n, <1>5, <2>2 DEF KInv, KeyTypes, Counting, Armed
  <1>6. QED BY <1>3, <1>4, <1>5 DEF KInv, KeyTypes

(* The handler arms a timer for what it counted, and counts anew only if   *)
(* the key is down.                                                        *)
LEMMA InterruptKeeps ==
    ASSUME KInv, key_intr_handler, UNCHANGED todo,
           \A i \in DOMAIN todo : todo[i] # <<"key_init">>
    PROVE  KInv' /\ Armed
  <1>1. /\ status /\ ~handling /\ handling' = TRUE /\ missed' = FALSE
        /\ UNCHANGED <<pressed, status, steady>>
        /\ longArmed' = (longArmed \/ (age # None /\ IsLong(age)))
        /\ shortArmed' = (shortArmed \/ (age # None /\ IsShort(age)))
        /\ age' = IF pressed THEN 0 ELSE None
    BY DEF key_intr_handler, LastTime
  <1>2. KInv'
    <2>1. 0 \in 0 .. MaxTicks /\ steady \in 0 .. MaxTicks /\ 0 <= steady
      BY KeyAssumption DEF MaxTicks, KInv, KeyTypes
    <2>2. longArmed' \in BOOLEAN /\ shortArmed' \in BOOLEAN
      BY <1>1
    <2>3. todo \in Seq(Quiet)
      <3>1. todo \in Seq(Steps)
        BY DEF KInv, NotYetInit
      <3>2. \A i \in 1 .. Len(todo) : todo[i] \in Quiet
        BY <3>1 DEF Quiet
      <3>3. QED BY <3>1, <3>2, SeqDef
    <2>4. KeyTypes' /\ Counting'
      BY <1>1, <2>1, <2>2 DEF KInv, KeyTypes, Counting
    <2>5. QED BY <2>3, <2>4 DEF KInv, NotYetInit
  <1>3. Armed
    <2>1. ASSUME age # None, IsLong(age), ~missed PROVE IsLong(steady)
      <3>1. age \in Int /\ steady \in Int /\ LongMin \in Int /\ age <= steady
        BY <2>1, KeyAssumption DEF KInv, KeyTypes, Counting, MaxTicks
      <3>2. QED BY <2>1, <3>1 DEF IsLong
    <2>2. ASSUME age # None, IsShort(age), ~missed PROVE steady > 0
      <3>1. age \in Int /\ steady \in Int /\ age <= steady
        BY <2>2, KeyAssumption DEF KInv, KeyTypes, Counting, MaxTicks
      <3>2. QED BY <2>2, <3>1 DEF IsShort
    <2>3. QED BY <1>1, <2>1, <2>2 DEF Armed
  <1>4. QED BY <1>2, <1>3

(* All else leaves the count alone or ends it.                             *)
LEMMA CalmKeeps ==
    ASSUME KInv, NotYetInit',
           \/ ClearStatus \/ key_short_cb \/ key_long_cb \/ KeyReset
           \/ key_init /\ age = None
           \/ UNCHANGED keyVars
    PROVE  KInv' /\ Armed
  <1> USE DEF timers, keyVars, KInv, KeyTypes, Counting
  <1>1. KInv'
    <2>1. CASE ClearStatus
      BY <2>1 DEF ClearStatus
    <2>2. CASE key_short_cb
      BY <2>2 DEF key_short_cb
    <2>7. CASE key_long_cb
      BY <2>7 DEF key_long_cb
    <2>3. CASE KeyReset
      BY <2>3 DEF KeyReset
    <2>4. CASE key_init /\ age = None
      BY <2>4 DEF key_init
    <2>5. CASE UNCHANGED keyVars
      BY <2>5
    <2>6. QED BY <2>1, <2>2, <2>3, <2>4, <2>5, <2>7
  <1>2. (longArmed' => longArmed) /\ (shortArmed' => shortArmed)
    BY DEF ClearStatus, key_short_cb, key_long_cb, KeyReset, key_init
  <1>3. QED BY <1>1, <1>2 DEF Armed

-----------------------------------------------------------------------------
(* The plug                                                                *)

LEMMA HandlerKeeps == ASSUME IInv, Handler PROVE KInv' /\ Armed
  <1>1. key_short_cb \/ key_long_cb \/ UNCHANGED keyVars
    BY DEF Handler, mjyun_receive, VoiceControl, xkey_short_press, xkey_long_press,
           UpnpFails, get_relay_status, mjyun_connected, mjyun_disconnected
  <1>2. UNCHANGED age
    BY <1>1 DEF key_short_cb, key_long_cb, keyVars
  <1>r. Ready => \A s \in Seq(Quiet) : s \o todo \in Seq(Quiet)
    <2>1. Ready => todo \in Seq(Quiet)
      BY Programs DEF Ready, Idle
    <2>2. QED BY <2>1, ConcatProperties
  <1>3. todo' \in Seq(Quiet) \/ UNCHANGED todo
    <2>1. CASE \E m \in Messages, started \in BOOLEAN : mjyun_receive(m[1], m[2], started)
      <3>1. PICK m \in Messages, started \in BOOLEAN : mjyun_receive(m[1], m[2], started)
        BY <2>1
      <3>2. Ready /\ todo' = Receive(m[1], m[2], started) \o todo
        BY <3>1 DEF mjyun_receive, Start
      <3>3. QED BY <3>2, <1>r, ReceiveIsQuiet
    <2>2. CASE \E v \in 0 .. 1 : VoiceControl(v)
      BY <2>2, <1>r, Programs DEF VoiceControl, Start
    <2>3. CASE xkey_long_press
      <3>1. << <<"erase">> >> \o (IF Idle THEN << <<"restart">> >> ELSE <<>>) \in Seq(Quiet)
        BY Programs, ConcatProperties
      <3>2. QED BY <2>3, <3>1, <1>r DEF xkey_long_press, Start
    <2>4. CASE xkey_short_press
      <3>1. 1 - relay \in 0 .. 1
        BY DEF IInv, PlugTypes
      <3>2. Ready /\ todo' = SaveThenSet(1 - relay) \o todo
        BY <2>4 DEF xkey_short_press, Start
      <3>3. QED BY <3>1, <3>2, <1>r, Programs
    <2>5. CASE UpnpFails \/ get_relay_status \/ mjyun_connected \/ mjyun_disconnected
      BY <2>5 DEF UpnpFails, get_relay_status, mjyun_connected, mjyun_disconnected
    <2>6. QED BY <2>1, <2>2, <2>3, <2>4, <2>5 DEF Handler
  <1>4. Seq(Quiet) \subseteq Seq(Steps)
    BY DEF Quiet
  <1>5. NotYetInit'
    BY <1>2, <1>3, <1>4 DEF IInv, KInv, NotYetInit
  <1>6. QED BY <1>1, <1>5, CalmKeeps DEF IInv

(* The step at the head of todo is done.                                   *)
LEMMA Rest ==
    ASSUME KInv, ~Idle
    PROVE  /\ Head(todo) \in Steps /\ Tail(todo) \in Seq(Steps)
           /\ age # None => Tail(todo) \in Seq(Quiet) /\ Head(todo) \in Quiet
  <1>1. todo \in Seq(Steps) /\ todo # <<>> /\ (age # None => todo \in Seq(Quiet))
    BY DEF KInv, NotYetInit, Idle
  <1>2. QED BY <1>1, HeadTailProperties

LEMMA BootKeeps == ASSUME KInv, NEW cold \in BOOLEAN, Boot(cold) PROVE KInv' /\ Armed
  <1>1. KeyReset /\ todo' = Setup
    BY DEF Boot
  <1>2. age' = None
    BY <1>1 DEF KeyReset
  <1>3. NotYetInit'
    BY <1>1, <1>2, Programs DEF NotYetInit
  <1>4. QED BY <1>1, <1>3, CalmKeeps

LEMMA StepKeepsKey == ASSUME KInv, Step PROVE KInv' /\ Armed
  <1>1. CASE param_init
    <2>1. ~Idle /\ UNCHANGED keyVars
          /\ todo' = (IF MustSave(Read) THEN Save ELSE <<>>) \o Tail(todo)
      BY <1>1 DEF param_init
    <2>2. UNCHANGED age
      BY <2>1 DEF keyVars
    <2>3. (IF MustSave(Read) THEN Save ELSE <<>>) \in Seq(Quiet) /\ Seq(Quiet) \subseteq Seq(Steps)
      BY Programs DEF Quiet
    <2>4. NotYetInit'
      BY <2>1, <2>2, <2>3, Rest, ConcatProperties DEF NotYetInit
    <2>5. QED BY <2>1, <2>4, CalmKeeps
  <1>2. CASE Initialise
    <2>1. CASE Does(<<"key_init">>) /\ key_init
      <3>1. ~Idle /\ Head(todo) = <<"key_init">> /\ todo' = Tail(todo)
        BY <2>1 DEF Does
      <3>2. age = None /\ UNCHANGED age
        BY <2>1, <3>1, Rest DEF Quiet, key_init
      <3>3. NotYetInit'
        BY <3>1, <3>2, Rest DEF NotYetInit
      <3>4. QED BY <2>1, <3>2, <3>3, CalmKeeps
    <2>2. CASE Does(<<"relay_init">>) /\ UNCHANGED keyVars
      <3>1. ~Idle /\ todo' = Tail(todo) /\ UNCHANGED age
        BY <2>2 DEF Does, keyVars
      <3>2. NotYetInit'
        BY <3>1, Rest DEF NotYetInit
      <3>3. QED BY <2>2, <3>2, CalmKeeps
    <2>3. QED BY <1>2, <2>1, <2>2 DEF Initialise
  <1>3. CASE (Assign \/ SwitchRelay \/ SaveStep) /\ UNCHANGED keyVars
    <2>1. ~Idle /\ todo' = Tail(todo) /\ UNCHANGED age
      BY <1>3 DEF Assign, SwitchRelay, SaveStep, Does, keyVars
    <2>2. NotYetInit'
      BY <2>1, Rest DEF NotYetInit
    <2>3. QED BY <1>3, <2>2, CalmKeeps
  <1>4. CASE Boot(FALSE)
    BY <1>4, BootKeeps
  <1>5. QED BY <1>1, <1>2, <1>3, <1>4 DEF Step

LEMMA KeyStepKeeps == ASSUME KInv, KeyStep PROVE KInv' /\ Armed
  <1>1. UNCHANGED todo
    BY DEF KeyStep, plugVars
  <1>2. CASE Edge
    BY <1>1, <1>2, EdgeKeeps
  <1>3. CASE Tick
    BY <1>1, <1>3, TickKeeps
  <1>4. CASE ClearStatus
    <2>1. UNCHANGED age
      BY <1>4 DEF ClearStatus
    <2>2. NotYetInit'
      BY <1>1, <2>1 DEF KInv, NotYetInit
    <2>3. QED BY <1>4, <2>2, CalmKeeps
  <1>5. CASE key_intr_handler /\ \A i \in DOMAIN todo : todo[i] # <<"key_init">>
    BY <1>1, <1>5, InterruptKeeps
  <1>6. QED BY <1>2, <1>3, <1>4, <1>5 DEF KeyStep

-----------------------------------------------------------------------------
(* The types of the plug                                                   *)

LEMMA FlagValues ==
    /\ Factory \in Params /\ Factory.status # Erased /\ Factory.name # BadName
    /\ \A f \in Flags : Default(f) \in {0, 1, Erased}
  BY DEF Factory, Params, Default, Names, Erased, BadName

LEMMA ReadIsTyped == ASSUME PlugTypes PROVE Read \in Params
  <1>1. sector.status \in {0, 1, Erased} /\ sector.name \in Names \cup {BadName}
        /\ \A f \in Flags : sector.flags[f] \in {0, 1, Erased}
    BY DEF PlugTypes, Params
  <1>2. QED BY <1>1 DEF Read, Params

(* Nothing erased is left in RAM.                                          *)
LEMMA RestoredIsTyped ==
    ASSUME NEW p \in Params
    PROVE  /\ Restored(p) \in Params
           /\ Restored(p).status # Erased /\ Restored(p).name # BadName
  <1>1. p.status \in {0, 1, Erased} /\ p.name \in Names \cup {BadName}
        /\ \A f \in Flags : p.flags[f] \in {0, 1, Erased}
    BY DEF Params
  <1>2. [f \in Flags |-> IF p.flags[f] = Erased THEN Default(f) ELSE p.flags[f]]
          \in [Flags -> {0, 1, Erased}]
    BY <1>1, FlagValues
  <1>3. Restored(p).status \in {0, 1, Erased} /\ Restored(p).status # Erased
    BY <1>1 DEF Restored, Erased
  <1>4. Restored(p).name \in Names /\ Restored(p).name # BadName
    BY <1>1 DEF Restored, IsName, Names, BadName
  <1>5. Restored(p) = [ status |-> Restored(p).status, name |-> Restored(p).name,
                        flags |-> Restored(p).flags ]
        /\ Restored(p).flags \in [Flags -> {0, 1, Erased}]
    BY <1>2 DEF Restored
  <1>6. QED BY <1>3, <1>4, <1>5 DEF Params

LEMMA BootTypes ==
    ASSUME PlugTypes, NEW cold \in BOOLEAN, Boot(cold),
           words' \in 0 .. Full, sector' \in Params
    PROVE  PlugTypes'
  BY FlagValues DEF PlugTypes, Boot, BootKind

LEMMA ResetTypes ==
    ASSUME PlugTypes, NEW cold \in BOOLEAN, Reset(cold)
    PROVE  PlugTypes'
  <1>1. Boot(cold)
    BY DEF Reset
  <1>2. words' \in 0 .. Full /\ sector' \in Params
    <2>1. CASE ~Idle /\ Head(todo) = <<"erase">>
      BY <2>1 DEF Reset, PlugTypes, Full
    <2>2. CASE ~(~Idle /\ Head(todo) = <<"erase">>) /\ ~Idle /\ Head(todo) = <<"write">>
      BY <2>2 DEF Reset, PlugTypes
    <2>3. CASE ~(~Idle /\ Head(todo) = <<"erase">>) /\ ~(~Idle /\ Head(todo) = <<"write">>)
      BY <2>3 DEF Reset, PlugTypes, flash
    <2>4. QED BY <2>1, <2>2, <2>3
  <1>3. QED BY <1>1, <1>2, BootTypes

LEMMA StepTypes == ASSUME PlugTypes, Step PROVE PlugTypes'
  <1>1. CASE param_init
    <2>1. /\ UNCHANGED <<words, sector, relay, connected, cloud, known>>
          /\ param' = Restored(Read) /\ warm' = Marked(Read)
          /\ since' \in {"erased", "marked"}
      BY <1>1 DEF param_init, flash
    <2>2. warm' \in BOOLEAN
      BY <2>1 DEF Marked, PlugTypes
    <2>3. QED BY <2>1, <2>2, ReadIsTyped, RestoredIsTyped DEF PlugTypes, BootKind
  <1>2. CASE Initialise /\ UNCHANGED <<flash, warm, param, connected, cloud, since>>
    <2>1. UNCHANGED <<words, sector, warm, param, connected, cloud, since>>
      BY <1>2 DEF flash
    <2>2. relay' \in {0, 1} /\ known' \subseteq Params
      BY <1>2 DEF Initialise, PlugTypes, Params
    <2>3. QED BY <2>1, <2>2 DEF PlugTypes
  <1>3. CASE /\ \/ Assign /\ UNCHANGED <<flash, relay, cloud>>
                \/ SwitchRelay /\ UNCHANGED <<flash, param>>
                \/ SaveStep /\ UNCHANGED <<param, relay, cloud>>
             /\ Settles
             /\ UNCHANGED <<keyVars, warm, connected, since>>
    <2>1. /\ param' \in Params /\ param'.status # Erased /\ param'.name # BadName
          /\ words' \in 0 .. Full /\ sector' \in Params
          /\ relay' \in {0, 1} /\ cloud' \in {0, 1}
      <3>1. CASE Assign /\ UNCHANGED <<flash, relay, cloud>>
        <4>1. UNCHANGED <<words, sector, relay, cloud>>
          BY <3>1 DEF flash
        <4>2. CASE \E v \in 0 .. 1 : param' = [param EXCEPT !.status = v]
          BY <4>1, <4>2 DEF PlugTypes, Params, Erased
        <4>3. CASE \E f \in Flags, v \in {0, 1, 255} : param' = [param EXCEPT !.flags[f] = v]
          BY <4>1, <4>3 DEF PlugTypes, Params, Erased
        <4>4. CASE \E n \in Names : param' = [param EXCEPT !.name = n]
          BY <4>1, <4>4 DEF PlugTypes, Params, Names, BadName
        <4>5. QED BY <3>1, <4>2, <4>3, <4>4 DEF Assign
      <3>2. CASE SwitchRelay /\ UNCHANGED <<flash, param>>
        BY <3>2 DEF SwitchRelay, PlugTypes, flash
      <3>3. CASE SaveStep /\ UNCHANGED <<param, relay, cloud>>
        BY <3>3 DEF SaveStep, PlugTypes, Full
      <3>4. QED BY <1>3, <3>1, <3>2, <3>3
    <2>2. known' \subseteq Params
      BY <1>3, <2>1 DEF Settles, PlugTypes
    <2>3. QED BY <1>3, <2>1, <2>2 DEF PlugTypes
  <1>4. CASE Boot(FALSE) /\ UNCHANGED flash
    BY <1>4, BootTypes DEF PlugTypes, flash
  <1>5. QED BY <1>1, <1>2, <1>3, <1>4 DEF Step

LEMMA HandlerTypes == ASSUME PlugTypes, Handler PROVE PlugTypes'
  <1>1. CASE UNCHANGED <<flash, warm, param, relay, connected, cloud, since>>
             /\ known' \in {known, known \cup {Factory}}
    BY <1>1, FlagValues DEF PlugTypes, flash
  <1>2. CASE UpnpFails
    <2>1. UNCHANGED <<words, sector, warm, relay, connected, cloud, since>>
      BY <1>2 DEF UpnpFails, flash
    <2>2. param' \in Params /\ param'.status # Erased /\ param'.name # BadName
      BY <1>2 DEF UpnpFails, PlugTypes, Params
    <2>3. QED BY <1>2, <2>1, <2>2 DEF PlugTypes, UpnpFails
  <1>3. CASE get_relay_status
    <2>1. UNCHANGED <<words, sector, warm, relay, connected, cloud, known, since>>
      BY <1>3 DEF get_relay_status, flash, history
    <2>2. param' \in Params /\ param'.status # Erased /\ param'.name # BadName
      BY <1>3 DEF get_relay_status, PlugTypes, Params, Erased
    <2>3. QED BY <2>1, <2>2 DEF PlugTypes
  <1>4. CASE mjyun_connected \/ mjyun_disconnected
    BY <1>4 DEF mjyun_connected, mjyun_disconnected, PlugTypes, flash, history
  <1>5. CASE \E m \in Messages, started \in BOOLEAN : mjyun_receive(m[1], m[2], started)
    BY <1>1, <1>5 DEF mjyun_receive, history
  <1>6. CASE \E v \in 0 .. 1 : VoiceControl(v)
    BY <1>1, <1>6 DEF VoiceControl, history
  <1>7. CASE xkey_short_press \/ xkey_long_press
    BY <1>1, <1>7 DEF xkey_short_press, xkey_long_press, history
  <1>8. QED BY <1>2, <1>3, <1>4, <1>5, <1>6, <1>7 DEF Handler

-----------------------------------------------------------------------------
LEMMA InitHolds == Init => IInv
  <1>1. Init => PlugTypes
    <2>1. 0 \in 0 .. Full /\ "none" \in BootKind
      BY DEF Full, BootKind
    <2>2. QED BY <2>1, FlagValues DEF Init, PlugTypes
  <1>2. QED BY <1>1, InitKeeps DEF IInv

LEMMA StepKeeps == ASSUME IInv, [Next]_vars PROVE IInv' /\ Armed
  <1>1. CASE KeyStep
    <2>1. PlugTypes'
      BY <1>1 DEF KeyStep, plugVars, flash, history, IInv, PlugTypes
    <2>2. QED BY <1>1, <2>1, KeyStepKeeps DEF IInv
  <1>2. CASE Handler
    BY <1>2, HandlerKeeps, HandlerTypes DEF IInv
  <1>3. CASE Step
    BY <1>3, StepKeepsKey, StepTypes DEF IInv
  <1>4. CASE \E cold \in BOOLEAN : Reset(cold)
    <2>1. PICK cold \in BOOLEAN : Reset(cold)
      BY <1>4
    <2>2. KInv' /\ Armed
      BY <2>1, BootKeeps DEF IInv, Reset
    <2>3. QED BY <2>1, <2>2, ResetTypes DEF IInv
  <1>5. CASE UNCHANGED vars
    <2>1. UNCHANGED keyVars /\ UNCHANGED plugVars
      BY <1>5 DEF vars
    <2>2. PlugTypes' /\ UNCHANGED todo
      BY <2>1 DEF plugVars, flash, history, IInv, PlugTypes
    <2>3. NotYetInit'
      BY <2>1, <2>2 DEF keyVars, IInv, KInv, NotYetInit
    <2>4. QED BY <2>1, <2>2, <2>3, CalmKeeps DEF IInv
  <1>6. QED BY <1>1, <1>2, <1>3, <1>4, <1>5 DEF Next

-----------------------------------------------------------------------------
(* What a handler has planned and what it has saved                        *)

(* The step at the head of what is left is done.                           *)
LEMMA Remaining ==
    ASSUME NEW t \in Seq(Steps), t # <<>>
    PROVE  /\ Tail(t) \in Seq(Steps) /\ Len(Tail(t)) = Len(t) - 1 /\ Len(t) \in Nat \ {0}
           /\ 1 \in 1 .. Len(t) /\ Head(t) = t[1]
           /\ \A i \in 1 .. Len(Tail(t)) : i + 1 \in 1 .. Len(t) /\ Tail(t)[i] = t[i + 1]
           /\ \A i \in 1 .. Len(t) : i # 1 => i - 1 \in 1 .. Len(Tail(t)) /\ Tail(t)[i - 1] = t[i]
  <1>1. /\ Tail(t) \in Seq(Steps) /\ Len(Tail(t)) = Len(t) - 1 /\ Len(t) \in Nat \ {0}
        /\ Head(t) = t[1]
    OBVIOUS
  <1>2. \A i \in 1 .. Len(Tail(t)) : i + 1 \in 1 .. Len(t) /\ Tail(t)[i] = t[i + 1]
    BY <1>1
  <1>3. ASSUME NEW i \in 1 .. Len(t), i # 1
        PROVE  i - 1 \in 1 .. Len(Tail(t)) /\ Tail(t)[i - 1] = t[i]
    <2>1. i - 1 \in 1 .. Len(Tail(t)) /\ (i - 1) + 1 = i
      BY <1>1, <1>3
    <2>2. QED BY <1>2, <2>1
  <1>4. QED BY <1>1, <1>2, <1>3

(* What it takes for one sequence to be two others joined.                 *)
LEMMA Joined ==
    ASSUME NEW A, NEW s \in Seq(A), NEW t \in Seq(A), NEW u \in Seq(A),
           Len(u) = Len(s) + Len(t),
           \A i \in 1 .. Len(s) : u[i] = s[i],
           \A i \in 1 .. Len(t) : u[Len(s) + i] = t[i]
    PROVE  s \o t = u
  <1>1. /\ s \o t \in Seq(A) /\ Len(s \o t) = Len(s) + Len(t)
        /\ \A i \in 1 .. Len(s) + Len(t) :
              (s \o t)[i] = IF i <= Len(s) THEN s[i] ELSE t[i - Len(s)]
    BY ConcatProperties
  <1>2. ASSUME NEW i \in 1 .. Len(s \o t) PROVE (s \o t)[i] = u[i]
    <2>1. CASE i <= Len(s)
      BY <1>1, <2>1
    <2>2. CASE ~ (i <= Len(s))
      <3>1. i - Len(s) \in 1 .. Len(t) /\ Len(s) + (i - Len(s)) = i
        BY <1>1, <2>2
      <3>2. u[Len(s) + (i - Len(s))] = t[i - Len(s)]
        BY <3>1
      <3>3. QED BY <1>1, <2>2, <3>1, <3>2
    <2>3. QED BY <2>1, <2>2
  <1>3. QED BY <1>1, <1>2, SeqEqual

LEMMA JoinOneOne == ASSUME NEW a, NEW b PROVE << a >> \o << b >> = << a, b >>
  <1> DEFINE A == {a, b}
             s == << a >>  t == << b >>  u == << a, b >>
  <1>1. s \in Seq(A) /\ t \in Seq(A) /\ u \in Seq(A)
    OBVIOUS
  <1>2. Len(s) = 1 /\ Len(t) = 1 /\ Len(u) = 2 /\ u[1] = s[1] /\ u[2] = t[1]
    OBVIOUS
  <1> HIDE DEF A, s, t, u
  <1>3. /\ Len(u) = Len(s) + Len(t)
        /\ \A i \in 1 .. Len(s) : u[i] = s[i]
        /\ \A i \in 1 .. Len(t) : u[Len(s) + i] = t[i]
    BY <1>2
  <1>4. s \o t = u
    BY <1>1, <1>3, Joined
  <1>5. QED BY <1>4 DEF s, t, u

LEMMA JoinOneTwo ==
    ASSUME NEW a, NEW b, NEW c
    PROVE  << a >> \o << b, c >> = << a, b, c >>
  <1> DEFINE A == {a, b, c}
             s == << a >>  t == << b, c >>  u == << a, b, c >>
  <1>1. /\ s \in Seq(A) /\ t \in Seq(A) /\ u \in Seq(A) /\ Len(u) = Len(s) + Len(t)
        /\ \A i \in 1 .. Len(s) : u[i] = s[i]
        /\ \A i \in 1 .. Len(t) : u[Len(s) + i] = t[i]
    OBVIOUS
  <1> HIDE DEF A, s, t, u
  <1>2. s \o t = u
    BY <1>1, Joined
  <1>3. QED BY <1>2 DEF s, t, u

LEMMA JoinTwoTwo ==
    ASSUME NEW a, NEW b, NEW c, NEW d
    PROVE  << a, b >> \o << c, d >> = << a, b, c, d >>
  <1> DEFINE A == {a, b, c, d}
             s == << a, b >>  t == << c, d >>  u == << a, b, c, d >>
  <1>1. /\ s \in Seq(A) /\ t \in Seq(A) /\ u \in Seq(A) /\ Len(u) = Len(s) + Len(t)
        /\ \A i \in 1 .. Len(s) : u[i] = s[i]
        /\ \A i \in 1 .. Len(t) : u[Len(s) + i] = t[i]
    OBVIOUS
  <1> HIDE DEF A, s, t, u
  <1>2. s \o t = u
    BY <1>1, Joined
  <1>3. QED BY <1>2 DEF s, t, u

LEMMA JoinThreeOne ==
    ASSUME NEW a, NEW b, NEW c, NEW d
    PROVE  << a, b, c >> \o << d >> = << a, b, c, d >>
  <1> DEFINE A == {a, b, c, d}
             s == << a, b, c >>  t == << d >>  u == << a, b, c, d >>
  <1>1. /\ s \in Seq(A) /\ t \in Seq(A) /\ u \in Seq(A) /\ Len(u) = Len(s) + Len(t)
        /\ \A i \in 1 .. Len(s) : u[i] = s[i]
        /\ \A i \in 1 .. Len(t) : u[Len(s) + i] = t[i]
    OBVIOUS
  <1> HIDE DEF A, s, t, u
  <1>2. s \o t = u
    BY <1>1, Joined
  <1>3. QED BY <1>2 DEF s, t, u

LEMMA JoinFourThree ==
    ASSUME NEW a, NEW b, NEW c, NEW d, NEW e, NEW f, NEW g
    PROVE  << a, b, c, d >> \o << e, f, g >> = << a, b, c, d, e, f, g >>
  <1> DEFINE A == {a, b, c, d, e, f, g}
             s == << a, b, c, d >>  t == << e, f, g >>  u == << a, b, c, d, e, f, g >>
  <1>1. /\ s \in Seq(A) /\ t \in Seq(A) /\ u \in Seq(A) /\ Len(u) = Len(s) + Len(t)
        /\ \A i \in 1 .. Len(s) : u[i] = s[i]
        /\ \A i \in 1 .. Len(t) : u[Len(s) + i] = t[i]
    OBVIOUS
  <1> HIDE DEF A, s, t, u
  <1>2. s \o t = u
    BY <1>1, Joined
  <1>3. QED BY <1>2 DEF s, t, u

LEMMA Tails ==
    ASSUME NEW a, NEW b, NEW c, NEW d
    PROVE  /\ Tail(<< a >>) = <<>> /\ Tail(<< a, b >>) = << b >>
           /\ Tail(<< a, b, c >>) = << b, c >> /\ Tail(<< a, b, c, d >>) = << b, c, d >>
           /\ Head(<< a >>) = a /\ Head(<< a, b >>) = a
           /\ Head(<< a, b, c >>) = a /\ Head(<< a, b, c, d >>) = a
  <1>1. Tail(<< a >>) = <<>>
    OBVIOUS
  <1>2. Tail(<< a, b >>) = << b >>
    OBVIOUS
  <1>3. Tail(<< a, b, c >>) = << b, c >>
    OBVIOUS
  <1>4. Tail(<< a, b, c, d >>) = << b, c, d >>
    OBVIOUS
  <1>5. /\ Head(<< a >>) = a /\ Head(<< a, b >>) = a
        /\ Head(<< a, b, c >>) = a /\ Head(<< a, b, c, d >>) = a
    OBVIOUS
  <1>6. QED BY <1>1, <1>2, <1>3, <1>4, <1>5

(* How a boot goes on, and a factory reset.                                *)
LEMMA Boots ==
    /\ Setup = << <<"param_init">>, <<"key_init">>, <<"relay_init">> >>
    /\ Save \o Rise = << Erase, Write, <<"key_init">>, <<"relay_init">> >>
    /\ <<Write>> \o Rise = << Write, <<"key_init">>, <<"relay_init">> >>
    /\ Tail(Rise) = << <<"relay_init">> >>
    /\ Tail(Setup) = Rise /\ Tail(Save \o Rise) = <<Write>> \o Rise
    /\ Tail(<<Write>> \o Rise) = Rise /\ Tail(Tail(Rise)) = <<>>
    /\ Head(Setup) = <<"param_init">> /\ Head(Save \o Rise) = Erase
    /\ Head(<<Write>> \o Rise) = Write /\ Head(Rise) = <<"key_init">>
    /\ Head(Tail(Rise)) = <<"relay_init">>
    /\ Tail(FactoryReset) = << <<"restart">> >> /\ Head(FactoryReset) = Erase
    /\ Head(<< <<"restart">> >>) = <<"restart">> /\ Tail(<< <<"restart">> >>) = <<>>
  <1> DEFINE p == <<"param_init">>  k == <<"key_init">>  r == <<"relay_init">>  b == <<"restart">>
  <1>1. Setup = << p, k, r >> /\ Rise = << k, r >> /\ Save = << Erase, Write >>
    BY DEF Setup, Rise, Save, Erase, Write
  <1> HIDE DEF p, k, r, b
  <1>2. Save \o Rise = << Erase, Write, k, r >> /\ << Write >> \o Rise = << Write, k, r >>
    BY <1>1, JoinTwoTwo, JoinOneTwo
  <1>3. /\ Tail(Rise) = << r >> /\ Tail(Setup) = Rise /\ Tail(Tail(Rise)) = <<>>
        /\ Head(Setup) = p /\ Head(Rise) = k /\ Head(Tail(Rise)) = r
    BY <1>1, Tails
  <1>4. /\ Tail(Save \o Rise) = <<Write>> \o Rise /\ Tail(<<Write>> \o Rise) = Rise
        /\ Head(Save \o Rise) = Erase /\ Head(<<Write>> \o Rise) = Write
    <2>1. /\ Tail(<< Erase, Write, k, r >>) = << Write, k, r >>
          /\ Head(<< Erase, Write, k, r >>) = Erase
      BY Tails
    <2>2. Tail(<< Write, k, r >>) = << k, r >> /\ Head(<< Write, k, r >>) = Write
      BY Tails
    <2> DEFINE long == << Erase, Write, k, r >>  short == << Write, k, r >>  rise == << k, r >>
    <2>3. Save \o Rise = long /\ <<Write>> \o Rise = short /\ Rise = rise
      BY <1>1, <1>2
    <2>4. Tail(long) = short /\ Head(long) = Erase /\ Tail(short) = rise /\ Head(short) = Write
      BY <2>1, <2>2
    <2> HIDE DEF long, short, rise
    <2>5. QED BY <2>3, <2>4
  <1>5. /\ Tail(<< Erase, b >>) = << b >> /\ Head(<< Erase, b >>) = Erase
        /\ Head(<< b >>) = b /\ Tail(<< b >>) = <<>>
    BY Tails
  <1>6. QED BY <1>1, <1>2, <1>3, <1>4, <1>5 DEF p, k, r, b, FactoryReset

LEMMA BootsAreSteps ==
    /\ Setup \in Seq(Steps) /\ Save \o Rise \in Seq(Steps) /\ <<Write>> \o Rise \in Seq(Steps)
    /\ Rise \in Seq(Steps) /\ Tail(Rise) \in Seq(Steps) /\ <<>> \in Seq(Steps)
    /\ FactoryReset \in Seq(Steps) /\ << <<"restart">> >> \in Seq(Steps)
  <1>1. /\ Erase \in Steps /\ Write \in Steps /\ <<"restart">> \in Steps
        /\ <<"param_init">> \in Steps /\ <<"key_init">> \in Steps /\ <<"relay_init">> \in Steps
    BY LiteralsAreSteps DEF Quiet, Erase, Write
  <1>2. /\ Setup \in Seq(Steps) /\ Rise \in Seq(Steps) /\ <<Write>> \in Seq(Steps)
        /\ Save \in Seq(Steps) /\ <<>> \in Seq(Steps)
        /\ FactoryReset \in Seq(Steps) /\ << <<"restart">> >> \in Seq(Steps)
        /\ << <<"relay_init">> >> \in Seq(Steps)
    BY <1>1 DEF Setup, Rise, Save, Erase, Write, FactoryReset
  <1>3. Save \o Rise \in Seq(Steps) /\ <<Write>> \o Rise \in Seq(Steps)
    BY <1>2, ConcatProperties
  <1>4. QED BY <1>2, <1>3, Boots

(* The boots are told apart by the step they begin with.                   *)
LEMMA Tags ==
    /\ Head(Setup)[1] = "param_init" /\ Head(Save \o Rise)[1] = "erase"
    /\ Head(<<Write>> \o Rise)[1] = "write" /\ Head(Rise)[1] = "key_init"
    /\ Head(Tail(Rise))[1] = "relay_init"
  BY Boots DEF Erase, Write

(* What the head of the plan says of where the plan comes from.            *)
LEMMA HeadsOfPlans ==
    ASSUME PlanInv, ~Idle
    PROVE  /\ todo \in Seq(Steps) /\ todo # <<>> /\ Head(todo) = todo[1]
           /\ Head(todo) = <<"param_init">> => todo = Setup
           /\ Head(todo) = <<"key_init">> => todo = Rise
           /\ Head(todo) = <<"relay_init">> => todo = Tail(Rise)
           /\ Head(todo)[1] \in {"status", "publish", "flag", "name"} => Handling
           /\ Head(todo) = Erase => Handling \/ todo = Save \o Rise
           /\ Head(todo) = Write => Handling \/ todo = <<Write>> \o Rise
  <1>1. todo \in Seq(Steps) /\ todo # <<>> /\ Head(todo) = todo[1] /\ 1 \in 1 .. Len(todo)
    BY Remaining DEF PlanInv, Idle
  <1> DEFINE h == Head(todo)
  <1>2. /\ h = <<"param_init">> => h[1] = "param_init"
        /\ h = <<"key_init">> => h[1] = "key_init"
        /\ h = <<"relay_init">> => h[1] = "relay_init"
        /\ h = Erase => h[1] = "erase"
        /\ h = Write => h[1] = "write"
    BY DEF Erase, Write
  <1>3. \/ Handling /\ h[1] \in {"status", "publish", "flag", "name", "erase", "write", "restart"}
        \/ todo = Setup /\ h[1] = "param_init"
        \/ todo = Rise /\ h[1] = "key_init"
        \/ todo = Tail(Rise) /\ h[1] = "relay_init"
        \/ todo = Save \o Rise /\ h[1] = "erase"
        \/ todo = <<Write>> \o Rise /\ h[1] = "write"
    <2>1. CASE Booting
      BY <2>1, Tags DEF Booting
    <2>2. CASE Handling
      BY <1>1, <2>2 DEF Handling
    <2>3. QED BY <2>1, <2>2 DEF PlanInv
  <1> HIDE DEF h
  <1>4. /\ h = <<"param_init">> => todo = Setup
        /\ h = <<"key_init">> => todo = Rise
        /\ h = <<"relay_init">> => todo = Tail(Rise)
        /\ h[1] \in {"status", "publish", "flag", "name"} => Handling
        /\ h = Erase => Handling \/ todo = Save \o Rise
        /\ h = Write => Handling \/ todo = <<Write>> \o Rise
    BY <1>2, <1>3
  <1>5. QED BY <1>1, <1>4 DEF h

\* What the handlers have to do, all but the factory reset.
SwitchPlan(v)     == << SetStatus(v), Erase, Write, SetRelayAndPublish(v) >>
VoicePlan(v)      == << SetRelayAndPublish(v), SetStatus(v), Erase, Write >>
SettingPlan(a)    == << a, Erase, Write >>
SwitchAndSet(v, a) == << SetStatus(v), Erase, Write, SetRelayAndPublish(v), a, Erase, Write >>
Setting == {s \in Steps : s[1] \in {"flag", "name"}}

LEMMA PlansOfTheSource ==
    ASSUME NEW v
    PROVE  /\ SaveThenSet(v) = SwitchPlan(v)
           /\ << SetRelayAndPublish(v), SetStatus(v) >> \o Save = VoicePlan(v)
           /\ \A a : << a >> \o Save = SettingPlan(a)
           /\ \A a : SwitchPlan(v) \o SettingPlan(a) = SwitchAndSet(v, a)
  <1> DEFINE st == SetStatus(v)  pb == SetRelayAndPublish(v)
  <1>1. Save = << Erase, Write >>
    BY DEF Save, Erase, Write
  <1>2. SaveThenSet(v) = << st >> \o Save \o << pb >>
    BY DEF SaveThenSet
  <1>3. << st >> \o Save = << st, Erase, Write >>
    BY <1>1, JoinOneTwo
  <1>4. << st, Erase, Write >> \o << pb >> = << st, Erase, Write, pb >>
    BY JoinThreeOne
  <1>5. << pb, st >> \o Save = << pb, st, Erase, Write >>
    BY <1>1, JoinTwoTwo
  <1>6. \A a : << a >> \o Save = << a, Erase, Write >>
    BY <1>1, JoinOneTwo
  <1>7. \A a : << st, Erase, Write, pb >> \o << a, Erase, Write >>
               = << st, Erase, Write, pb, a, Erase, Write >>
    BY JoinFourThree
  <1> HIDE DEF st, pb
  <1>8. QED BY <1>2, <1>3, <1>4, <1>5, <1>6, <1>7
             DEF st, pb, SwitchPlan, VoicePlan, SettingPlan, SwitchAndSet

(* A message sets the switch, or a setting, or both, or nothing.           *)
LEMMA ReceivePlans ==
    ASSUME NEW name, NEW data, NEW started \in BOOLEAN, NEW r, r = Receive(name, data, started)
    PROVE  \/ r = <<>>
           \/ \E v \in {0, 1} : r = SwitchPlan(v)
           \/ \E a \in Setting : r = SettingPlan(a)
           \/ \E v \in {0, 1}, a \in Setting : r = SwitchAndSet(v, a)
  <1> DEFINE OnSwitch == IF SwitchOf(data) = {} THEN <<>>
                         ELSE SaveThenSet(CHOOSE v \in SwitchOf(data) : TRUE)
             Value == IF name = "alexa_on" /\ atoi(data) = 1 /\ ~started THEN 0 ELSE atoi(data)
             OnFlag == IF name \notin Flags THEN <<>>
                       ELSE << SetFlag(name, Value) >> \o Save
             OnName == IF name = "voice_name" /\ data \in Names
                       THEN << SetName(data) >> \o Save ELSE <<>>
  <1>1. OnSwitch = <<>> \/ \E v \in {0, 1} : OnSwitch = SwitchPlan(v)
    <2>1. SwitchOf(data) # {} => (CHOOSE v \in SwitchOf(data) : TRUE) \in {0, 1}
      BY DEF SwitchOf
    <2>2. QED BY <2>1, PlansOfTheSource
  <1>2. OnFlag = <<>> \/ \E a \in Setting : OnFlag = SettingPlan(a)
    <2>1. Value \in {0, 1, 255}
      BY DEF atoi
    <2> HIDE DEF Value
    <2>2. ASSUME name \in Flags PROVE SetFlag(name, Value) \in Setting
      <3>1. SetFlag(name, Value) \in Steps
        BY <2>1, <2>2, LiteralsAreSteps DEF Quiet
      <3>2. SetFlag(name, Value)[1] = "flag"
        BY DEF SetFlag
      <3>3. QED BY <3>1, <3>2 DEF Setting
    <2>3. QED BY <2>2, PlansOfTheSource
  <1>3. OnName = <<>> \/ \E a \in Setting : OnName = SettingPlan(a)
    <2>1. ASSUME data \in Names PROVE SetName(data) \in Setting
      <3>1. SetName(data) \in Steps
        BY <2>1, LiteralsAreSteps DEF Quiet
      <3>2. SetName(data)[1] = "name"
        BY DEF SetName
      <3>3. QED BY <3>1, <3>2 DEF Setting
    <2>2. QED BY <2>1, PlansOfTheSource
  <1>4. OnFlag = <<>> \/ OnName = <<>>
    BY PlugAssumption
  <1>5. r = (OnSwitch \o OnFlag) \o OnName
    BY DEF Receive
  <1>6. /\ OnSwitch \in Seq(Steps) /\ OnFlag \in Seq(Steps) /\ OnName \in Seq(Steps)
    <2>1. Erase \in Steps /\ Write \in Steps /\ <<>> \in Seq(Steps)
      BY LiteralsAreSteps DEF Quiet, Erase, Write
    <2>2. \A a \in Setting : SettingPlan(a) \in Seq(Steps)
      BY <2>1 DEF Setting, SettingPlan
    <2>3. \A v \in {0, 1} : SwitchPlan(v) \in Seq(Steps)
      <3>1. \A v \in {0, 1} : SetStatus(v) \in Steps /\ SetRelayAndPublish(v) \in Steps
        BY LiteralsAreSteps DEF Quiet
      <3>2. QED BY <2>1, <3>1 DEF SwitchPlan
    <2> HIDE DEF OnSwitch, OnFlag, OnName
    <2>4. QED BY <1>1, <1>2, <1>3, <2>1, <2>2, <2>3
  <1> HIDE DEF OnSwitch, OnFlag, OnName
  <1>7. \A s \in Seq(Steps) : s \o <<>> = s /\ <<>> \o s = s
    BY ConcatEmptySeq
  <1>8. PICK x \in Seq(Steps) : /\ r = OnSwitch \o x
                                /\ x = <<>> \/ \E a \in Setting : x = SettingPlan(a)
    <2>1. CASE OnName = <<>>
      <3>1. OnSwitch \o OnFlag \in Seq(Steps)
        BY <1>6, ConcatProperties
      <3>2. QED BY <1>2, <1>5, <1>6, <1>7, <2>1, <3>1
    <2>2. CASE OnFlag = <<>>
      BY <1>3, <1>5, <1>6, <1>7, <2>2
    <2>3. QED BY <1>4, <2>1, <2>2
  <1>9. CASE OnSwitch = <<>>
    BY <1>7, <1>8, <1>9
  <1>10. CASE \E v \in {0, 1} : OnSwitch = SwitchPlan(v)
    <2>1. PICK v \in {0, 1} : OnSwitch = SwitchPlan(v)
      BY <1>10
    <2>2. CASE x = <<>>
      <3>1. r = OnSwitch
        BY <1>6, <1>7, <1>8, <2>2
      <3>2. QED BY <2>1, <3>1
    <2>3. CASE \E a \in Setting : x = SettingPlan(a)
      <3>1. PICK a \in Setting : x = SettingPlan(a)
        BY <2>3
      <3>2. r = SwitchAndSet(v, a)
        BY <1>8, <2>1, <3>1, PlansOfTheSource
      <3>3. QED BY <3>2
    <2>4. QED BY <1>8, <2>2, <2>3
  <1>11. QED BY <1>1, <1>9, <1>10

\* A plan of a handler ends in a save, ...
IsPlan(s) ==
    /\ s \in Seq(Steps) /\ s # <<>> /\ s[1][1] # "write"
    /\ \A i \in 1 .. Len(s) : s[i][1] \in {"status", "publish", "flag", "name", "erase", "write"}
    /\ \E i \in 1 .. Len(s) : s[i][1] = "write" /\ \A j \in i + 1 .. Len(s) : s[j][1] = "publish"

\* ... and if it switches, leaves the status and the relay equal.
LeavesEqual(s) ==
    \/ \A i \in 1 .. Len(s) : s[i][1] \notin {"status", "publish"}
    \/ \E v \in {0, 1} :
          /\ \A i \in 1 .. Len(s) : s[i][1] \in {"status", "publish"} => s[i][2] = v
          /\ \E i \in 1 .. Len(s) : s[i][1] = "status"
          /\ \E i \in 1 .. Len(s) : s[i][1] = "publish"

(* A handler starts with such a plan.                                      *)
LEMMA PlansAreSound ==
    ASSUME NEW v \in {0, 1}, NEW a \in Setting,
           NEW s \in {SwitchPlan(v), VoicePlan(v), SettingPlan(a), SwitchAndSet(v, a)}
    PROVE  IsPlan(s) /\ LeavesEqual(s)
  <1> DEFINE st == SetStatus(v)  pb == SetRelayAndPublish(v)
  <1>1. /\ st \in Steps /\ pb \in Steps /\ Erase \in Steps /\ Write \in Steps /\ a \in Steps
        /\ st[1] = "status" /\ st[2] = v /\ pb[1] = "publish" /\ pb[2] = v
        /\ Erase[1] = "erase" /\ Write[1] = "write" /\ a[1] \in {"flag", "name"}
    <2>1. st \in Steps /\ pb \in Steps /\ Erase \in Steps /\ Write \in Steps
      BY LiteralsAreSteps DEF Quiet, Erase, Write
    <2>2. st[1] = "status" /\ st[2] = v /\ pb[1] = "publish" /\ pb[2] = v
      BY DEF SetStatus, SetRelayAndPublish
    <2>3. QED BY <2>1, <2>2 DEF Erase, Write, Setting
  <1>2. /\ SwitchPlan(v) = << st, Erase, Write, pb >>
        /\ VoicePlan(v) = << pb, st, Erase, Write >>
        /\ SettingPlan(a) = << a, Erase, Write >>
        /\ SwitchAndSet(v, a) = << st, Erase, Write, pb, a, Erase, Write >>
    BY DEF SwitchPlan, VoicePlan, SettingPlan, SwitchAndSet
  <1> HIDE DEF st, pb
  <1>3. CASE s = << st, Erase, Write, pb >>
    <2>1. s \in Seq(Steps) /\ Len(s) = 4 /\ s # <<>> /\ s[1] = st
      BY <1>1, <1>3
    <2>2. s[1] = st /\ s[2] = Erase /\ s[3] = Write /\ s[4] = pb
      BY <1>3
    <2>3. IsPlan(s)
      BY <1>1, <2>1, <2>2 DEF IsPlan
    <2>4. LeavesEqual(s)
      BY <1>1, <2>1, <2>2 DEF LeavesEqual
    <2>5. QED BY <2>3, <2>4
  <1>4. CASE s = << pb, st, Erase, Write >>
    <2>1. s \in Seq(Steps) /\ Len(s) = 4 /\ s # <<>> /\ s[1] = pb
      BY <1>1, <1>4
    <2>2. s[1] = pb /\ s[2] = st /\ s[3] = Erase /\ s[4] = Write
      BY <1>4
    <2>3. IsPlan(s)
      BY <1>1, <2>1, <2>2 DEF IsPlan
    <2>4. LeavesEqual(s)
      BY <1>1, <2>1, <2>2 DEF LeavesEqual
    <2>5. QED BY <2>3, <2>4
  <1>5. CASE s = << a, Erase, Write >>
    <2>1. s \in Seq(Steps) /\ Len(s) = 3 /\ s # <<>> /\ s[1] = a
      BY <1>1, <1>5
    <2>2. s[1] = a /\ s[2] = Erase /\ s[3] = Write
      BY <1>5
    <2>3. IsPlan(s)
      BY <1>1, <2>1, <2>2 DEF IsPlan
    <2>4. LeavesEqual(s)
      BY <1>1, <2>1, <2>2 DEF LeavesEqual
    <2>5. QED BY <2>3, <2>4
  <1>6. CASE s = << st, Erase, Write, pb, a, Erase, Write >>
    <2>1. s \in Seq(Steps) /\ Len(s) = 7 /\ s # <<>> /\ s[1] = st
      BY <1>1, <1>6
    <2>2. s[1] = st /\ s[2] = Erase /\ s[3] = Write /\ s[4] = pb /\ s[5] = a /\ s[6] = Erase /\ s[7] = Write
      BY <1>6
    <2>3. IsPlan(s)
      BY <1>1, <2>1, <2>2 DEF IsPlan
    <2>4. LeavesEqual(s)
      BY <1>1, <2>1, <2>2 DEF LeavesEqual
    <2>5. QED BY <2>3, <2>4
  <1>7. QED BY <1>2, <1>3, <1>4, <1>5, <1>6

BootPlans == {Setup, Save \o Rise, <<Write>> \o Rise, Rise, Tail(Rise)}

(* A plan of a handler is no boot.                                         *)
LEMMA KindsOfPlans ==
    ASSUME NEW t,
           \A i \in 1 .. Len(t) :
              t[i][1] \in {"status", "publish", "flag", "name", "erase", "write", "restart"}
    PROVE  t \notin BootPlans
  <1> DEFINE k == <<"key_init">>  r == <<"relay_init">>  p == <<"param_init">>
  <1>1. k[1] = "key_init" /\ r[1] = "relay_init" /\ p[1] = "param_init"
    OBVIOUS
  <1>2. /\ Setup = << p, k, r >> /\ Save \o Rise = << Erase, Write, k, r >>
        /\ <<Write>> \o Rise = << Write, k, r >> /\ Rise = << k, r >> /\ Tail(Rise) = << r >>
    BY Boots DEF Rise
  <1> HIDE DEF p, k, r
  <1>3. t # << p, k, r >>
    <2>1. 1 \in 1 .. Len(<< p, k, r >>) /\ << p, k, r >>[1] = p
      OBVIOUS
    <2>2. QED BY <1>1, <2>1
  <1>4. t # << Erase, Write, k, r >>
    <2>1. 3 \in 1 .. Len(<< Erase, Write, k, r >>) /\ << Erase, Write, k, r >>[3] = k
      OBVIOUS
    <2>2. QED BY <1>1, <2>1
  <1>5. t # << Write, k, r >>
    <2>1. 2 \in 1 .. Len(<< Write, k, r >>) /\ << Write, k, r >>[2] = k
      OBVIOUS
    <2>2. QED BY <1>1, <2>1
  <1>6. t # << k, r >>
    <2>1. 1 \in 1 .. Len(<< k, r >>) /\ << k, r >>[1] = k
      OBVIOUS
    <2>2. QED BY <1>1, <2>1
  <1>7. t # << r >>
    <2>1. 1 \in 1 .. Len(<< r >>) /\ << r >>[1] = r
      OBVIOUS
    <2>2. QED BY <1>1, <2>1
  <1>8. QED BY <1>2, <1>3, <1>4, <1>5, <1>6, <1>7 DEF BootPlans

(* When no handler runs all is saved and shown.                            *)
LEMMA IdleMeans ==
    ASSUME SInv, Idle
    PROVE  /\ Handling /\ Saved /\ OnlyPublishes /\ ~Restarting
           /\ param.status = relay /\ relay \in {0, 1}
  <1>1. todo = <<>> /\ Len(todo) = 0 /\ todo # FactoryReset
    BY DEF Idle, FactoryReset
  <1>2. Handling /\ OnlyPublishes /\ ~ WillBeSaved /\ ~Restarting
    BY <1>1 DEF Handling, OnlyPublishes, WillBeSaved, Restarting
  <1>3. Saved /\ \E v \in {0, 1} : EndsWith(v)
    BY <1>1, <1>2 DEF SInv, PlanInv, RestartsClean
  <1>4. QED BY <1>1, <1>2, <1>3 DEF EndsWith

(* What is left of a handler that waits for the restart.                   *)
LEMMA RestartMeans ==
    ASSUME todo = << <<"restart">> >>
    PROVE  Handling /\ OnlyPublishes /\ Restarting /\ RestartsClean
  <1>1. Len(todo) = 1 /\ todo[1] = <<"restart">> /\ todo[1][1] = "restart"
    OBVIOUS
  <1>2. QED BY <1>1 DEF Handling, OnlyPublishes, Restarting, RestartsClean, Last

(* A plan of a handler, just begun.                                        *)
LEMMA PlansBegin ==
    ASSUME SInv, Ready, NEW s, IsPlan(s), LeavesEqual(s), todo' = s \o todo,
           UNCHANGED <<words, sector, warm, since, param, relay, connected, cloud, known>>
    PROVE  PlanInv' /\ KnownInv'
  <1>1. /\ todo \in Seq(Steps) /\ s \in Seq(Steps) /\ Len(s) \in Nat \ {0}
        /\ Idle => Len(todo) = 0
        /\ ~Idle => Len(todo) = 1 /\ todo[1][1] = "restart"
    BY DEF SInv, PlanInv, IsPlan, Ready, Idle
  <1>2. /\ todo' \in Seq(Steps) /\ Len(todo') = Len(s) + Len(todo)
        /\ \A i \in 1 .. Len(s) + Len(todo) :
              todo'[i] = IF i <= Len(s) THEN s[i] ELSE todo[i - Len(s)]
    BY <1>1, ConcatProperties
  <1>3. /\ Len(todo') >= Len(s) /\ Len(todo') <= Len(s) + 1 /\ Len(todo') \in Nat
        /\ \A i \in 1 .. Len(s) : todo'[i] = s[i]
        /\ \A i \in Len(s) + 1 .. Len(todo') : todo'[i][1] = "restart"
        /\ Idle => Len(todo') = Len(s)
        /\ ~Idle => Len(s) + 1 \in 1 .. Len(todo') /\ todo'[Len(s) + 1][1] = "restart"
    <2>1. CASE Idle
      BY <1>1, <1>2, <2>1
    <2>2. CASE ~Idle
      <3>1. Len(todo') = Len(s) + 1
        BY <1>1, <1>2, <2>2
      <3>2. todo'[Len(s) + 1] = todo[1]
        <4>1. PICK n \in Nat : n = Len(s)
          BY <1>1
        <4>2. n + 1 \in 1 .. n + Len(todo) /\ ~(n + 1 <= n) /\ (n + 1) - n = 1
          <5>1. n + 1 \in 1 .. n + 1 /\ ~(n + 1 <= n) /\ (n + 1) - n = 1
            OBVIOUS
          <5>2. Len(todo) = 1
            BY <1>1, <2>2
          <5>3. QED BY <5>1, <5>2
        <4>3. todo'[n + 1] = IF n + 1 <= n THEN s[n + 1] ELSE todo[(n + 1) - n]
          BY <1>2, <4>1, <4>2
        <4>4. QED BY <4>1, <4>2, <4>3
      <3>3. \A i \in 1 .. Len(s) : i \in 1 .. Len(s) + Len(todo) /\ i <= Len(s)
        BY <1>1
      <3>4. \A i \in Len(s) + 1 .. Len(todo') : i = Len(s) + 1
        BY <1>1, <3>1
      <3>5. QED BY <1>1, <1>2, <2>2, <3>1, <3>2, <3>3, <3>4
    <2>3. QED BY <2>1, <2>2
  <1>4. Handling'
    <2>1. ASSUME NEW i \in 1 .. Len(todo')
          PROVE  todo'[i][1] \in {"status", "publish", "flag", "name", "erase", "write", "restart"}
      <3>1. CASE i <= Len(s)
        BY <1>1, <1>3, <3>1 DEF IsPlan
      <3>2. CASE ~(i <= Len(s))
        BY <1>1, <1>3, <3>2
      <3>3. QED BY <3>1, <3>2
    <2>2. QED BY <2>1 DEF Handling
  <1>5. WillBeSaved'
    <2>1. PICK i \in 1 .. Len(s) : s[i][1] = "write" /\ \A j \in i + 1 .. Len(s) : s[j][1] = "publish"
      BY DEF IsPlan
    <2>2. i \in 1 .. Len(todo') /\ todo'[i][1] = "write"
      BY <1>1, <1>3, <2>1
    <2>3. ASSUME NEW j \in i + 1 .. Len(todo') PROVE todo'[j][1] \in Last
      <3>1. CASE j <= Len(s)
        <4>1. j \in i + 1 .. Len(s) /\ j \in 1 .. Len(s)
          BY <1>1, <2>1, <3>1
        <4>2. QED BY <1>3, <2>1, <4>1 DEF Last
      <3>2. CASE ~(j <= Len(s))
        <4>1. j \in Len(s) + 1 .. Len(todo')
          BY <1>1, <1>3, <2>1, <3>2
        <4>2. QED BY <1>3, <4>1 DEF Last
      <3>3. QED BY <3>1, <3>2
    <2>4. QED BY <2>2, <2>3 DEF WillBeSaved
  <1>6. ~Restarting' => \E u \in {0, 1} : EndsWith(u)'
    <2>1. SUFFICES ASSUME ~Restarting' PROVE \E u \in {0, 1} : EndsWith(u)'
      OBVIOUS
    <2>2. Idle
      BY <1>3, <2>1 DEF Restarting
    <2>3. Len(todo') = Len(s) /\ \A i \in 1 .. Len(s) : todo'[i] = s[i]
      BY <1>3, <2>2
    <2>4. param'.status = relay' /\ relay' \in {0, 1}
      BY <2>2, IdleMeans
    <2>5. CASE \A i \in 1 .. Len(s) : s[i][1] \notin {"status", "publish"}
      <3>1. PICK u \in {0, 1} : relay' = u
        BY <2>4
      <3>2. EndsWith(u)'
        BY <2>3, <2>4, <2>5, <3>1 DEF EndsWith
      <3>3. QED BY <3>2
    <2>6. ASSUME NEW v \in {0, 1},
                 \A i \in 1 .. Len(s) : s[i][1] \in {"status", "publish"} => s[i][2] = v,
                 \E i \in 1 .. Len(s) : s[i][1] = "status",
                 \E i \in 1 .. Len(s) : s[i][1] = "publish"
          PROVE  \E u \in {0, 1} : EndsWith(u)'
      <3>1. EndsWith(v)'
        BY <2>3, <2>6 DEF EndsWith
      <3>2. QED BY <3>1
    <2>7. QED BY <2>5, <2>6 DEF LeavesEqual
  <1>7. todo' \notin BootPlans
    BY <1>4, KindsOfPlans DEF Handling
  <1>8. PlanInv'
    BY <1>2, <1>4, <1>5, <1>6, <1>7 DEF SInv, PlanInv, Booting, BootPlans
  <1>9. Head(todo') # Write
    <2>1. Head(todo') = todo'[1] /\ todo'[1] = s[1]
      BY <1>1, <1>2, <1>3
    <2>2. QED BY <2>1 DEF IsPlan, Write
  <1>10. KnownInv'
    BY <1>9 DEF SInv, KnownInv
  <1>11. QED BY <1>8, <1>10

(* A handler with no step of its own.                                      *)
LEMMA StaysReady ==
    ASSUME SInv, Ready, UNCHANGED <<todo, words, sector, warm, since, relay>>,
           known \subseteq known', Idle => param'.status = relay /\ Saved',
           connected' => cloud' = relay
    PROVE  PlanInv' /\ KnownInv'
  <1>1. CASE Idle
    <2>1. todo' = <<>> /\ todo' \in Seq(Steps) /\ Len(todo') = 0
      BY <1>1 DEF Idle, SInv, PlanInv
    <2>2. Handling' /\ OnlyPublishes' /\ \E u \in {0, 1} : EndsWith(u)'
      BY <1>1, <2>1, IdleMeans DEF Handling, OnlyPublishes, EndsWith
    <2>3. todo' \notin BootPlans
      BY <2>2, KindsOfPlans DEF Handling
    <2>4. PlanInv'
      BY <1>1, <2>1, <2>2, <2>3 DEF PlanInv, Booting, BootPlans
    <2>5. KnownInv'
      BY <2>1 DEF SInv, KnownInv, Idle
    <2>6. QED BY <2>4, <2>5
  <1>2. CASE todo = << <<"restart">> >>
    <2>1. Handling /\ OnlyPublishes /\ Restarting
      BY <1>2, RestartMeans
    <2>2. Handling' /\ OnlyPublishes' /\ Restarting' /\ RestartsClean' /\ todo' \in Seq(Steps)
      BY <1>2, <2>1 DEF Handling, OnlyPublishes, Restarting, RestartsClean, SInv, PlanInv
    <2>3. todo' \notin BootPlans
      BY <2>2, KindsOfPlans DEF Handling
    <2>4. PlanInv'
      BY <2>2, <2>3 DEF PlanInv, Booting, BootPlans
    <2>5. Head(todo') # Write
      <3>1. Head(todo') = <<"restart">> /\ <<"restart">>[1] = "restart" /\ Write[1] = "write"
        BY <1>2, Boots DEF Write
      <3>2. QED BY <3>1
    <2>6. KnownInv'
      BY <2>5 DEF SInv, KnownInv
    <2>7. QED BY <2>4, <2>6
  <1>3. QED BY <1>1, <1>2 DEF Ready

(* The handlers start from a saved state, or one that waits for a restart, *)
(* or leave one.                                                           *)
LEMMA HandlerPlans ==
    ASSUME SInv, Handler
    PROVE  PlanInv' /\ KnownInv'
  <1>1. PlugTypes /\ PlanInv /\ KnownInv /\ Ready
    BY DEF SInv, Handler, mjyun_receive, VoiceControl, xkey_short_press, xkey_long_press,
           UpnpFails, get_relay_status, mjyun_connected, mjyun_disconnected, Start
  <1>s. PICK a0 : a0 \in Setting
    <2>1. SetName("office") \in Steps
      BY LiteralsAreSteps DEF Names, Quiet
    <2>2. SetName("office")[1] = "name"
      BY DEF SetName
    <2>3. QED BY <2>1, <2>2 DEF Setting
  <1>p. \A v \in {0, 1}, a \in Setting :
           \A s \in {SwitchPlan(v), VoicePlan(v), SettingPlan(a), SwitchAndSet(v, a)} :
              IsPlan(s) /\ LeavesEqual(s)
    BY PlansAreSound
  <1>i. Idle => param.status = relay /\ Saved
    BY IdleMeans
  <1>e. todo \in Seq(Steps) /\ <<>> \o todo = todo
    BY <1>1, ConcatEmptySeq DEF PlanInv
  <1>2. CASE \E m \in Messages, started \in BOOLEAN : mjyun_receive(m[1], m[2], started)
    <2>1. PICK m \in Messages, started \in BOOLEAN : mjyun_receive(m[1], m[2], started)
      BY <1>2
    <2> DEFINE s == Receive(m[1], m[2], started)
    <2>2. /\ todo' = s \o todo
          /\ UNCHANGED <<words, sector, warm, since, param, relay, connected, cloud, known>>
      BY <2>1 DEF mjyun_receive, Start, flash, history
    <2>3. CASE s = <<>>
      <3>1. UNCHANGED todo
        BY <1>e, <2>2, <2>3
      <3>2. Idle => param'.status = relay /\ Saved'
        BY <1>i, <2>2, <3>1 DEF Saved, Idle
      <3>3. QED BY <1>1, <2>2, <3>1, <3>2, StaysReady DEF PlanInv
    <2>4. CASE s # <<>>
      <3>1. IsPlan(s) /\ LeavesEqual(s)
        <4>1. \E v \in {0, 1}, a \in Setting : s \in {SwitchPlan(v), SettingPlan(a), SwitchAndSet(v, a)}
          BY <1>s, <2>4, ReceivePlans
        <4> HIDE DEF s
        <4>2. QED BY <1>p, <4>1
      <3> HIDE DEF s
      <3>2. QED BY <1>1, <2>2, <3>1, PlansBegin
    <2>5. QED BY <2>3, <2>4
  <1>3. CASE \E v \in 0 .. 1 : VoiceControl(v)
    <2>1. PICK v \in {0, 1} : VoiceControl(v)
      BY <1>3
    <2>2. /\ todo' = VoicePlan(v) \o todo
          /\ UNCHANGED <<words, sector, warm, since, param, relay, connected, cloud, known>>
      BY <2>1, PlansOfTheSource DEF VoiceControl, Start, flash, history
    <2>3. IsPlan(VoicePlan(v)) /\ LeavesEqual(VoicePlan(v))
      BY <1>p, <1>s
    <2>4. QED BY <1>1, <2>2, <2>3, PlansBegin
  <1>4. CASE xkey_short_press
    <2>1. /\ todo' = SwitchPlan(1 - relay) \o todo
          /\ UNCHANGED <<words, sector, warm, since, param, relay, connected, cloud, known>>
      BY <1>4, PlansOfTheSource DEF xkey_short_press, Start, flash, history
    <2>2. 1 - relay \in {0, 1}
      BY <1>1 DEF PlugTypes
    <2>3. IsPlan(SwitchPlan(1 - relay)) /\ LeavesEqual(SwitchPlan(1 - relay))
      BY <1>p, <1>s, <2>2
    <2>4. QED BY <1>1, <2>1, <2>3, PlansBegin
  <1>5. CASE xkey_long_press
    <2>1. /\ todo' = FactoryReset /\ known' = known \cup {Factory}
          /\ UNCHANGED <<words, sector, warm, since, param, relay, connected, cloud>>
      <3>1. /\ todo' = (<< Erase >> \o (IF Idle THEN << <<"restart">> >> ELSE <<>>)) \o todo
            /\ known' = known \cup {Factory}
            /\ UNCHANGED <<words, sector, warm, since, param, relay, connected, cloud>>
        BY <1>5 DEF xkey_long_press, Start, flash, Erase
      <3>2. (<< Erase >> \o (IF Idle THEN << <<"restart">> >> ELSE <<>>)) \o todo = FactoryReset
        <4>1. << Erase >> \o << <<"restart">> >> = FactoryReset
          BY JoinOneOne DEF FactoryReset
        <4>2. << Erase >> \in Seq(Steps) /\ FactoryReset \in Seq(Steps)
          BY LiteralsAreSteps, BootsAreSteps DEF Quiet, Erase
        <4>3. << Erase >> \o <<>> = << Erase >> /\ FactoryReset \o <<>> = FactoryReset
          BY <4>2, ConcatEmptySeq
        <4>4. CASE Idle
          BY <4>1, <4>3, <4>4 DEF Idle
        <4>5. CASE ~Idle
          BY <1>1, <4>1, <4>3, <4>5 DEF Ready
        <4>6. QED BY <4>4, <4>5
      <3>3. QED BY <3>1, <3>2
    <2>2. Len(todo') = 2 /\ todo'[1] = Erase /\ todo'[2] = <<"restart">> /\ Head(todo') = Erase
      BY <2>1 DEF FactoryReset
    <2>3. Erase[1] = "erase" /\ Write[1] = "write" /\ <<"restart">>[1] = "restart"
      BY DEF Erase, Write
    <2>4. Handling' /\ Restarting'
      BY <2>2, <2>3 DEF Handling, Restarting
    <2>5. todo' \notin BootPlans
      BY <2>4, KindsOfPlans DEF Handling
    <2>6. PlanInv'
      <3>1. todo' \in Seq(Steps)
        BY <2>1, BootsAreSteps
      <3>2. QED BY <1>1, <2>1, <2>4, <2>5, <3>1 DEF PlanInv, Booting, BootPlans
    <2>7. KnownInv'
      BY <1>1, <2>1, <2>2, <2>3 DEF KnownInv
    <2>8. QED BY <2>6, <2>7
  <1>6. CASE UpnpFails
    <2>1. /\ param' = [param EXCEPT !.flags["alexa_on"] = 0] /\ known' = known \cup {param'}
          /\ UNCHANGED <<todo, words, sector, warm, since, relay, connected, cloud>>
      BY <1>6 DEF UpnpFails, flash
    <2>2. /\ param'.status = param.status /\ param'.name = param.name
          /\ \A f \in Flags \ {"alexa_on"} : param'.flags[f] = param.flags[f]
      BY <1>1, <2>1 DEF PlugTypes, Params
    <2>3. Idle => param'.status = relay /\ Saved'
      BY <1>i, <2>1, <2>2 DEF Saved, Idle
    <2>4. QED BY <1>1, <2>1, <2>3, StaysReady DEF PlanInv
  <1>7. CASE get_relay_status
    <2>1. /\ param' = [param EXCEPT !.status = relay]
          /\ UNCHANGED <<todo, words, sector, warm, since, relay, connected, cloud, known>>
      BY <1>7 DEF get_relay_status, flash, history
    <2>2. /\ param'.status = relay /\ param'.name = param.name /\ param'.flags = param.flags
      BY <1>1, <2>1 DEF PlugTypes, Params
    <2>3. Idle => param'.status = relay /\ Saved'
      BY <1>i, <2>1, <2>2 DEF Saved, Idle
    <2>4. QED BY <1>1, <2>1, <2>3, StaysReady DEF PlanInv
  <1>8. CASE mjyun_connected \/ mjyun_disconnected
    <2>1. /\ UNCHANGED <<param, todo, words, sector, warm, since, relay, known>>
          /\ connected' => cloud' = relay
      BY <1>8 DEF mjyun_connected, mjyun_disconnected, flash
    <2>2. Idle => param'.status = relay /\ Saved'
      BY <1>i, <2>1 DEF Saved, Idle
    <2>3. QED BY <1>1, <2>1, <2>2, StaysReady
  <1>9. QED BY <1>2, <1>3, <1>4, <1>5, <1>6, <1>7, <1>8 DEF Handler

(* A boot forgets what ran before it.                                      *)
LEMMA BootPlansAnew ==
    ASSUME SInv, NEW cold \in BOOLEAN, Boot(cold), words' > 0 => sector' \in known
    PROVE  PlanInv' /\ KnownInv'
  <1>1. /\ todo' = Setup /\ connected' = FALSE /\ known' = known
        /\ warm' = (warm /\ ~cold) /\ since' = IF cold THEN "none" ELSE since
    BY DEF Boot
  <1>2. todo' \in BootPlans /\ todo' \in Seq(Steps) /\ Head(todo') # Write
    <2>1. Head(todo')[1] = "param_init" /\ Write[1] = "write"
      BY <1>1, Tags DEF Write
    <2>2. QED BY <1>1, <2>1, BootsAreSteps DEF BootPlans
  <1>3. ~ Handling' /\ todo' # Rise /\ todo' # Tail(Rise)
    <2>1. ~ Handling'
      BY <1>2, KindsOfPlans DEF Handling
    <2>2. Head(todo')[1] # Head(Rise)[1] /\ Head(todo')[1] # Head(Tail(Rise))[1]
      BY <1>1, Tags
    <2>3. QED BY <2>1, <2>2
  <1>4. PlanInv'
    BY <1>1, <1>2, <1>3 DEF PlanInv, Booting, BootPlans
  <1>5. KnownInv'
    BY <1>1, <1>2 DEF SInv, KnownInv
  <1>6. QED BY <1>4, <1>5

(* The power may fail in the middle of an erase or of a write.             *)
LEMMA ResetPlansAnew ==
    ASSUME SInv, NEW cold \in BOOLEAN, Reset(cold)
    PROVE  PlanInv' /\ KnownInv'
  <1>1. Boot(cold)
    BY DEF Reset
  <1>2. words' > 0 => sector' \in known
    <2>1. CASE ~Idle /\ Head(todo) = Erase
      BY <2>1 DEF Reset, SInv, KnownInv, Erase
    <2>2. CASE ~(~Idle /\ Head(todo) = Erase) /\ ~Idle /\ Head(todo) = Write
      BY <2>2 DEF Reset, SInv, KnownInv, Erase, Write
    <2>3. CASE ~(~Idle /\ Head(todo) = Erase) /\ ~(~Idle /\ Head(todo) = Write)
      BY <2>3 DEF Reset, SInv, KnownInv, flash, Erase, Write
    <2>4. QED BY <2>1, <2>2, <2>3
  <1>3. QED BY <1>1, <1>2, BootPlansAnew

(* When nothing must be saved the sector is as param_init left param.      *)
LEMMA UnchangedIsSaved ==
    ASSUME PlugTypes, ~ MustSave(Read)
    PROVE  words = Full /\ sector = Restored(Read)
  <1>1. Restored(Read) = Read
    BY DEF MustSave
  <1>2. "cold_on" \in Flags
    BY PlugAssumption
  <1>3. Read.flags["cold_on"] # Erased
    <2>1. Restored(Read).flags["cold_on"] = Read.flags["cold_on"]
      BY <1>1
    <2>2. Restored(Read).flags["cold_on"]
            = IF Read.flags["cold_on"] = Erased THEN Default("cold_on") ELSE Read.flags["cold_on"]
      BY <1>2 DEF Restored
    <2>3. Default("cold_on") # Erased
      BY DEF Default, Erased
    <2>4. QED BY <2>1, <2>2, <2>3
  <1>4. words = Full
    BY <1>2, <1>3 DEF Read
  <1>5. sector \in Params
    BY DEF PlugTypes
  <1>6. Read = [status |-> sector.status, name |-> sector.name,
                flags |-> [f \in Flags |-> sector.flags[f]]]
    BY <1>4 DEF Read, Full
  <1>7. Read = sector
    <2>1. sector.flags \in [Flags -> {0, 1, Erased}]
      BY <1>5 DEF Params
    <2>2. [f \in Flags |-> sector.flags[f]] = sector.flags
      BY <2>1
    <2>3. sector = [status |-> sector.status, name |-> sector.name, flags |-> sector.flags]
      BY <1>5 DEF Params
    <2>4. QED BY <1>6, <2>2, <2>3
  <1>8. QED BY <1>1, <1>4, <1>7

LEMMA ParamInitPlans ==
    ASSUME SInv, param_init
    PROVE  PlanInv' /\ KnownInv'
  <1>1. /\ ~Idle /\ Head(todo) = <<"param_init">>
        /\ param' = Restored(Read) /\ warm' = Marked(Read)
        /\ todo' = (IF MustSave(Read) THEN Save ELSE <<>>) \o Tail(todo)
        /\ since' = (IF Read.status = Erased /\ since # "marked" THEN "erased" ELSE "marked")
        /\ UNCHANGED <<words, sector, relay, connected, cloud, known>>
    BY DEF param_init, flash
  <1>2. todo = Setup
    BY <1>1, HeadsOfPlans DEF SInv
  <1>3. ~ connected /\ ~ connected'
    BY <1>1, <1>2 DEF SInv, PlanInv, Booting
  <1>4. todo' = IF MustSave(Read) THEN Save \o Rise ELSE Rise
    <2>1. Tail(todo) = Rise /\ Rise \in Seq(Steps)
      BY <1>2, Boots, BootsAreSteps
    <2>2. <<>> \o Rise = Rise
      BY <2>1, ConcatEmptySeq
    <2>3. QED BY <1>1, <2>1, <2>2
  <1>5. todo' \in BootPlans /\ todo' \in Seq(Steps) /\ Head(todo')[1] \in {"erase", "key_init"}
    BY <1>4, Tags, BootsAreSteps DEF BootPlans
  <1>6. ~ Handling'
    BY <1>5, KindsOfPlans DEF Handling
  <1>7. todo' \in {Rise, Tail(Rise)} => Saved'
    <2>1. SUFFICES ASSUME todo' \in {Rise, Tail(Rise)} PROVE Saved'
      OBVIOUS
    <2>2. Head(todo')[1] # "erase"
      BY <2>1, Tags
    <2>3. ~ MustSave(Read)
      BY <1>4, <2>2, Tags
    <2>4. words' = Full /\ sector' = param'
      BY <1>1, <2>3, UnchangedIsSaved DEF SInv
    <2>5. QED BY <2>4 DEF Saved
  <1>8. PlanInv'
    BY <1>3, <1>5, <1>6, <1>7 DEF PlanInv, Booting, BootPlans
  <1>9. Head(todo') # Write
    BY <1>5 DEF Write
  <1>10. since' = "marked" => warm'
    BY <1>1 DEF Marked, SInv, KnownInv
  <1>11. KnownInv'
    BY <1>1, <1>9, <1>10 DEF SInv, KnownInv
  <1>12. QED BY <1>8, <1>11

(* The relay shows what param_init found or restored.                      *)
LEMMA InitialisePlans ==
    ASSUME SInv, Initialise, UNCHANGED <<flash, warm, param, connected, cloud, since>>
    PROVE  PlanInv' /\ KnownInv'
  <1>1. UNCHANGED <<words, sector, warm, param, connected, cloud, since>> /\ PlanInv
    BY DEF flash, SInv
  <1>2. CASE Does(<<"key_init">>) /\ UNCHANGED <<relay, known>>
    <2>1. todo = Rise /\ todo' = Tail(Rise)
      BY <1>1, <1>2, HeadsOfPlans DEF Does
    <2>2. todo' \in BootPlans /\ todo' \in Seq(Steps) /\ Head(todo')[1] = "relay_init" /\ ~ Idle
      BY <1>2, <2>1, Tags, BootsAreSteps DEF BootPlans, Does
    <2>3. ~ Handling'
      BY <2>2, KindsOfPlans DEF Handling
    <2>4. Saved /\ ~connected
      BY <1>1, <2>1 DEF PlanInv, Booting
    <2>5. Saved'
      BY <1>1, <2>2, <2>4 DEF Saved
    <2>6. PlanInv'
      BY <1>1, <2>2, <2>3, <2>4, <2>5 DEF PlanInv, Booting, BootPlans
    <2>7. KnownInv'
      BY <1>1, <1>2, <2>2 DEF SInv, KnownInv, Write
    <2>8. QED BY <2>6, <2>7
  <1>3. CASE Does(<<"relay_init">>) /\ relay' = param.status /\ known' = {param}
    <2>1. todo = Tail(Rise) /\ todo' = <<>> /\ ~ Idle
      BY <1>1, <1>3, HeadsOfPlans, Boots DEF Does
    <2>2. words = Full /\ sector = param /\ ~connected
      BY <1>1, <2>1 DEF PlanInv, Booting, Saved
    <2>3. todo' \in Seq(Steps) /\ Len(todo') = 0
      BY <2>1
    <2>4. Handling' /\ OnlyPublishes'
      BY <2>3 DEF Handling, OnlyPublishes
    <2>5. \E u \in {0, 1} : EndsWith(u)'
      <3>1. PICK u \in {0, 1} : param.status = u
        BY DEF SInv, PlugTypes, Params
      <3>2. EndsWith(u)'
        BY <1>1, <1>3, <2>3, <3>1 DEF EndsWith
      <3>3. QED BY <3>2
    <2>6. Saved'
      BY <1>1, <2>2 DEF Saved
    <2>7. todo' \notin BootPlans
      BY <2>4, KindsOfPlans DEF Handling
    <2>8. PlanInv'
      BY <1>1, <2>2, <2>3, <2>4, <2>5, <2>6, <2>7 DEF PlanInv, Booting, BootPlans
    <2>9. KnownInv'
      BY <1>1, <1>3, <2>1, <2>2 DEF SInv, KnownInv, Idle
    <2>10. QED BY <2>8, <2>9
  <1>4. QED BY <1>2, <1>3 DEF Initialise

(* Nothing is written once only a restart is left.                         *)
LEMMA NothingLeft ==
    ASSUME NEW t \in {<<>>, << <<"restart">> >>}
    PROVE  ~ \E i \in 1 .. Len(t) : t[i][1] = "write"
  <1>1. CASE t = <<>>
    BY <1>1
  <1>2. CASE t = << <<"restart">> >>
    <2>1. Len(t) = 1 /\ t[1] = <<"restart">> /\ t[1][1] = "restart"
      BY <1>2
    <2>2. QED BY <2>1
  <1>3. QED BY <1>1, <1>2

(* What is still planned, once the head of the plan is done.               *)
LEMMA PlansGoOn ==
    ASSUME PlanInv, ~Idle, todo' = Tail(todo), Handling, todo[1][1] # "restart"
    PROVE  /\ todo' \in Seq(Steps) /\ Handling' /\ todo' \notin BootPlans
           /\ Restarting => Restarting'
           /\ WillBeSaved /\ todo[1][1] # "write" =>
                WillBeSaved' /\ todo' \notin {<<>>, << <<"restart">> >>}
           /\ WillBeSaved /\ todo[1][1] = "write" => WillBeSaved' \/ OnlyPublishes'
           /\ OnlyPublishes => OnlyPublishes' /\ todo[1][1] = "publish"
           /\ todo = FactoryReset => todo[1][1] = "erase" /\ todo' = << <<"restart">> >>
           /\ todo # << <<"restart">> >>
  <1>1. /\ todo' \in Seq(Steps) /\ Len(todo') = Len(todo) - 1 /\ Len(todo) \in Nat \ {0}
        /\ 1 \in 1 .. Len(todo)
        /\ \A i \in 1 .. Len(todo') : i + 1 \in 1 .. Len(todo) /\ todo'[i] = todo[i + 1]
        /\ \A i \in 1 .. Len(todo) : i # 1 => i - 1 \in 1 .. Len(todo') /\ todo'[i - 1] = todo[i]
    <2>1. todo \in Seq(Steps) /\ todo # <<>>
      BY DEF PlanInv, Idle
    <2>2. QED BY <2>1, Remaining
  <1>2. Handling'
    BY <1>1 DEF Handling
  <1>3. todo' \notin BootPlans
    BY <1>2, KindsOfPlans DEF Handling
  <1>4. OnlyPublishes => OnlyPublishes' /\ todo[1][1] = "publish"
    BY <1>1 DEF OnlyPublishes, Last
  <1>5. ASSUME WillBeSaved
        PROVE  /\ todo[1][1] # "write" => WillBeSaved'
               /\ todo[1][1] = "write" => WillBeSaved' \/ OnlyPublishes'
    <2>1. PICK i \in 1 .. Len(todo) :
             todo[i][1] = "write" /\ \A j \in i + 1 .. Len(todo) : todo[j][1] \in Last
      BY <1>5 DEF WillBeSaved
    <2>2. CASE i = 1
      <3>1. ASSUME NEW j \in 1 .. Len(todo') PROVE todo'[j][1] \in Last
        <4>1. j + 1 \in 2 .. Len(todo) /\ todo'[j] = todo[j + 1]
          BY <1>1
        <4>2. QED BY <2>1, <2>2, <4>1
      <3>2. QED BY <2>1, <2>2, <3>1 DEF OnlyPublishes
    <2>3. CASE i # 1
      <3>1. i - 1 \in 1 .. Len(todo') /\ todo'[i - 1][1] = "write"
        BY <1>1, <2>1, <2>3
      <3>2. ASSUME NEW j \in (i - 1) + 1 .. Len(todo') PROVE todo'[j][1] \in Last
        <4>1. j \in 1 .. Len(todo') /\ j + 1 \in i + 1 .. Len(todo)
          BY <1>1, <2>1
        <4>2. QED BY <1>1, <2>1, <4>1
      <3>3. WillBeSaved'
        BY <3>1, <3>2 DEF WillBeSaved
      <3>4. QED BY <3>3
    <2>4. QED BY <2>2, <2>3
  <1>6. WillBeSaved' => todo' \notin {<<>>, << <<"restart">> >>}
    BY NothingLeft DEF WillBeSaved
  <1>7. Restarting => Restarting'
    BY <1>1 DEF Restarting
  <1>8. todo = FactoryReset => todo[1][1] = "erase" /\ todo' = << <<"restart">> >>
    BY Boots DEF FactoryReset, Erase
  <1>9. todo # << <<"restart">> >>
    OBVIOUS
  <1>10. QED BY <1>1, <1>2, <1>3, <1>4, <1>5, <1>6, <1>7, <1>8, <1>9

(* The status and the relay still end up equal, once a step is done.       *)
LEMMA EndsGoOn ==
    ASSUME PlanInv, ~Idle, todo' = Tail(todo), NEW v \in {0, 1}, EndsWith(v),
           todo[1][1] # "status" => param'.status = param.status,
           todo[1][1] = "status" => param'.status = todo[1][2],
           todo[1][1] # "publish" => relay' = relay,
           todo[1][1] = "publish" => relay' = todo[1][2]
    PROVE  EndsWith(v)'
  <1>1. /\ todo' \in Seq(Steps) /\ Len(todo') = Len(todo) - 1 /\ Len(todo) \in Nat \ {0}
        /\ 1 \in 1 .. Len(todo)
        /\ \A i \in 1 .. Len(todo') : i + 1 \in 1 .. Len(todo) /\ todo'[i] = todo[i + 1]
        /\ \A i \in 1 .. Len(todo) : i # 1 => i - 1 \in 1 .. Len(todo') /\ todo'[i - 1] = todo[i]
    <2>1. todo \in Seq(Steps) /\ todo # <<>>
      BY DEF PlanInv, Idle
    <2>2. QED BY <2>1, Remaining
  <1>2. \A i \in 1 .. Len(todo') : todo'[i][1] \in {"status", "publish"} => todo'[i][2] = v
    BY <1>1 DEF EndsWith
  <1>3. param'.status = v \/ \E i \in 1 .. Len(todo') : todo'[i][1] = "status"
    <2>1. CASE todo[1][1] = "status"
      BY <1>1, <2>1 DEF EndsWith
    <2>2. CASE todo[1][1] # "status"
      <3>1. param.status = v \/ \E i \in 1 .. Len(todo) : todo[i][1] = "status"
        BY DEF EndsWith
      <3>2. ASSUME NEW i \in 1 .. Len(todo), todo[i][1] = "status"
            PROVE  i - 1 \in 1 .. Len(todo') /\ todo'[i - 1][1] = "status"
        <4>1. i # 1
          BY <2>2, <3>2
        <4>2. QED BY <1>1, <3>2, <4>1
      <3>3. QED BY <2>2, <3>1, <3>2
    <2>3. QED BY <2>1, <2>2
  <1>4. relay' = v \/ \E i \in 1 .. Len(todo') : todo'[i][1] = "publish"
    <2>1. CASE todo[1][1] = "publish"
      BY <1>1, <2>1 DEF EndsWith
    <2>2. CASE todo[1][1] # "publish"
      <3>1. relay = v \/ \E i \in 1 .. Len(todo) : todo[i][1] = "publish"
        BY DEF EndsWith
      <3>2. ASSUME NEW i \in 1 .. Len(todo), todo[i][1] = "publish"
            PROVE  i - 1 \in 1 .. Len(todo') /\ todo'[i - 1][1] = "publish"
        <4>1. i # 1
          BY <2>2, <3>2
        <4>2. QED BY <1>1, <3>2, <4>1
      <3>3. QED BY <2>2, <3>1, <3>2
    <2>3. QED BY <2>1, <2>2
  <1>5. QED BY <1>2, <1>3, <1>4 DEF EndsWith

LEMMA AssignPlans ==
    ASSUME SInv, Assign, Settles, UNCHANGED <<words, sector, relay, cloud, warm, connected, since>>
    PROVE  PlanInv' /\ KnownInv'
  <1>1. PICK h : /\ ~Idle /\ Head(todo) = h /\ todo' = Tail(todo)
                 /\ h[1] \in {"status", "flag", "name"}
                 /\ h[1] # "status" => param'.status = param.status
                 /\ h[1] = "status" => param'.status = h[2]
    <2>1. CASE \E v \in 0 .. 1 : Does(SetStatus(v)) /\ param' = [param EXCEPT !.status = v]
      <3>1. PICK v \in 0 .. 1 : Does(SetStatus(v)) /\ param' = [param EXCEPT !.status = v]
        BY <2>1
      <3>2. param'.status = v
        BY <3>1 DEF SInv, PlugTypes, Params
      <3>3. SetStatus(v)[1] = "status" /\ SetStatus(v)[2] = v
        BY DEF SetStatus
      <3>4. QED BY <3>1, <3>2, <3>3 DEF Does
    <2>2. CASE \E f \in Flags, v \in {0, 1, 255} :
                  Does(SetFlag(f, v)) /\ param' = [param EXCEPT !.flags[f] = v]
      <3>1. PICK f \in Flags, v \in {0, 1, 255} :
                    Does(SetFlag(f, v)) /\ param' = [param EXCEPT !.flags[f] = v]
        BY <2>2
      <3>2. param'.status = param.status
        BY <3>1 DEF SInv, PlugTypes, Params
      <3>3. SetFlag(f, v)[1] = "flag"
        BY DEF SetFlag
      <3>4. QED BY <3>1, <3>2, <3>3 DEF Does
    <2>3. CASE \E n \in Names : Does(SetName(n)) /\ param' = [param EXCEPT !.name = n]
      <3>1. PICK n \in Names : Does(SetName(n)) /\ param' = [param EXCEPT !.name = n]
        BY <2>3
      <3>2. param'.status = param.status
        BY <3>1 DEF SInv, PlugTypes, Params
      <3>3. SetName(n)[1] = "name"
        BY DEF SetName
      <3>4. QED BY <3>1, <3>2, <3>3 DEF Does
    <2>4. QED BY <2>1, <2>2, <2>3 DEF Assign
  <1>2. PlanInv /\ todo[1] = h /\ Handling
    BY <1>1, HeadsOfPlans DEF SInv
  <1>3. /\ WillBeSaved' /\ todo' \notin {<<>>, << <<"restart">> >>}
        /\ todo' \in Seq(Steps) /\ Handling' /\ todo' \notin BootPlans
        /\ Restarting => Restarting'
    <2>1. WillBeSaved
      BY <1>1, <1>2, PlansGoOn DEF PlanInv
    <2>2. QED BY <1>1, <1>2, <2>1, PlansGoOn
  <1>4. ~Restarting' => \E u \in {0, 1} : EndsWith(u)'
    <2>1. SUFFICES ASSUME ~Restarting' PROVE \E u \in {0, 1} : EndsWith(u)'
      OBVIOUS
    <2>2. PICK u \in {0, 1} : EndsWith(u)
      BY <1>2, <1>3, <2>1 DEF PlanInv
    <2>3. EndsWith(u)'
      BY <1>1, <1>2, <2>2, EndsGoOn
    <2>4. QED BY <2>3
  <1>5. PlanInv'
    BY <1>2, <1>3, <1>4 DEF PlanInv, Booting, BootPlans
  <1>6. known' = known \cup {param'}
    BY <1>1, <1>3 DEF Settles
  <1>7. KnownInv'
    BY <1>6 DEF SInv, KnownInv
  <1>8. QED BY <1>5, <1>7

LEMMA SwitchPlans ==
    ASSUME SInv, SwitchRelay, Settles, UNCHANGED <<words, sector, param, warm, connected, since>>
    PROVE  PlanInv' /\ KnownInv'
  <1>1. PICK v \in 0 .. 1 : /\ Does(SetRelayAndPublish(v)) /\ relay' = v
                           /\ cloud' = IF connected THEN v ELSE cloud
    BY DEF SwitchRelay
  <1>2. /\ ~Idle /\ todo' = Tail(todo) /\ todo[1][1] = "publish" /\ todo[1][2] = v
        /\ Handling /\ PlanInv
    <2>1. SetRelayAndPublish(v)[1] = "publish" /\ SetRelayAndPublish(v)[2] = v
      BY DEF SetRelayAndPublish
    <2>2. QED BY <1>1, <2>1, HeadsOfPlans DEF Does, SInv
  <1>3. /\ todo' \in Seq(Steps) /\ Handling' /\ todo' \notin BootPlans
        /\ Restarting => Restarting'
        /\ \/ WillBeSaved' /\ todo' \notin {<<>>, << <<"restart">> >>}
           \/ /\ OnlyPublishes' /\ ~Idle
              /\ Saved \/ (Restarting /\ (words = 0 \/ sector = param))
    BY <1>2, PlansGoOn DEF PlanInv, RestartsClean
  <1>4. ~Restarting' => \E u \in {0, 1} : EndsWith(u)'
    <2>1. SUFFICES ASSUME ~Restarting' PROVE \E u \in {0, 1} : EndsWith(u)'
      OBVIOUS
    <2>2. PICK u \in {0, 1} : EndsWith(u)
      BY <1>2, <1>3, <2>1 DEF PlanInv
    <2>3. EndsWith(u)'
      BY <1>1, <1>2, <2>2, EndsGoOn
    <2>4. QED BY <2>3
  <1>5. /\ Saved => Saved' /\ sector' = param'
        /\ Restarting /\ (words = 0 \/ sector = param) => RestartsClean'
    BY <1>2, <1>3 DEF Saved, RestartsClean
  <1>6. PlanInv'
    BY <1>1, <1>2, <1>3, <1>4, <1>5 DEF PlanInv, Booting, BootPlans
  <1>7. known' = known \cup {param'} \/ (known' = {param'} /\ ~WillBeSaved')
    <2>1. Tail(todo) \in {<<>>, << <<"restart">> >>} => ~WillBeSaved'
      BY <1>2, NothingLeft DEF WillBeSaved
    <2>2. QED BY <2>1 DEF Settles
  <1>8. words' > 0 => sector' \in known'
    <2>1. CASE known' = known \cup {param'}
      BY <2>1 DEF SInv, KnownInv
    <2>2. CASE known' = {param'} /\ ~WillBeSaved'
      BY <1>3, <1>5, <2>2
    <2>3. QED BY <1>7, <2>1, <2>2
  <1>9. KnownInv'
    BY <1>7, <1>8 DEF SInv, KnownInv
  <1>10. QED BY <1>6, <1>9

LEMMA ErasePlans ==
    ASSUME SInv, Does(Erase), words' = 0, Settles,
           UNCHANGED <<sector, param, relay, cloud, warm, connected, since>>
    PROVE  PlanInv' /\ KnownInv'
  <1>1. ~Idle /\ todo' = Tail(todo) /\ Head(todo) = Erase /\ PlanInv /\ Head(todo) = todo[1]
    BY HeadsOfPlans DEF Does, SInv
  <1>2. Erase[1] = "erase"
    BY DEF Erase
  <1>3. KnownInv'
    <2>1. param' \in known'
      BY DEF Settles
    <2>2. QED BY <2>1 DEF SInv, KnownInv
  <1>4. PlanInv'
    <2>1. CASE Handling
      <3>1. /\ todo' \in Seq(Steps) /\ Handling' /\ todo' \notin BootPlans
            /\ Restarting => Restarting'
            /\ WillBeSaved' \/ todo' = << <<"restart">> >>
        BY <1>1, <1>2, <2>1, PlansGoOn DEF PlanInv
      <3>2. ASSUME ~Restarting' PROVE \E u \in {0, 1} : EndsWith(u)'
        <4>1. PICK u \in {0, 1} : EndsWith(u)
          BY <1>1, <2>1, <3>1, <3>2 DEF PlanInv
        <4>2. EndsWith(u)'
          BY <1>1, <1>2, <4>1, EndsGoOn
        <4>3. QED BY <4>2
      <3>3. ASSUME todo' = << <<"restart">> >> PROVE OnlyPublishes' /\ RestartsClean'
        <4>1. Len(todo') = 1 /\ todo'[1] = <<"restart">> /\ todo'[1][1] = "restart"
          BY <3>3
        <4>2. QED BY <3>3, <4>1 DEF OnlyPublishes, Restarting, RestartsClean, Last
      <3>4. QED BY <1>1, <3>1, <3>2, <3>3 DEF PlanInv, Booting, BootPlans
    <2>2. CASE todo = Save \o Rise
      <3>1. todo' = <<Write>> \o Rise /\ todo' \in Seq(Steps) /\ todo' \in BootPlans
        BY <1>1, <2>2, Boots, BootsAreSteps DEF BootPlans
      <3>2. ~ Handling'
        BY <3>1, KindsOfPlans DEF Handling
      <3>3. ~ connected
        BY <1>1, <2>2 DEF PlanInv, Booting
      <3>4. todo' # Rise /\ todo' # Tail(Rise)
        BY <3>1, Tags
      <3>5. QED BY <3>1, <3>2, <3>3, <3>4 DEF PlanInv, Booting, BootPlans
    <2>3. QED BY <1>1, <2>1, <2>2, HeadsOfPlans
  <1>5. QED BY <1>3, <1>4

LEMMA WritePlans ==
    ASSUME SInv, Does(Write), words' = Full, sector' = param, Settles,
           UNCHANGED <<param, relay, cloud, warm, connected, since>>
    PROVE  PlanInv' /\ KnownInv'
  <1>1. ~Idle /\ todo' = Tail(todo) /\ Head(todo) = Write /\ PlanInv /\ Head(todo) = todo[1]
    BY HeadsOfPlans DEF Does, SInv
  <1>2. Write[1] = "write"
    BY DEF Write
  <1>3. KnownInv'
    <2>1. param' \in known'
      BY DEF Settles
    <2>2. QED BY <2>1 DEF SInv, KnownInv
  <1>4. Saved'
    BY DEF Saved
  <1>5. PlanInv'
    <2>1. CASE Handling
      <3>1. /\ todo' \in Seq(Steps) /\ Handling' /\ todo' \notin BootPlans
            /\ Restarting => Restarting'
            /\ WillBeSaved' \/ OnlyPublishes'
        BY <1>1, <1>2, <2>1, PlansGoOn DEF PlanInv
      <3>2. ASSUME ~Restarting' PROVE \E u \in {0, 1} : EndsWith(u)'
        <4>1. PICK u \in {0, 1} : EndsWith(u)
          BY <1>1, <2>1, <3>1, <3>2 DEF PlanInv
        <4>2. EndsWith(u)'
          BY <1>1, <1>2, <4>1, EndsGoOn
        <4>3. QED BY <4>2
      <3>3. QED BY <1>1, <1>4, <3>1, <3>2 DEF PlanInv, Booting, BootPlans
    <2>2. CASE todo = <<Write>> \o Rise
      <3>1. todo' = Rise /\ todo' \in Seq(Steps) /\ todo' \in BootPlans
        BY <1>1, <2>2, Boots, BootsAreSteps DEF BootPlans
      <3>2. ~ Handling'
        BY <3>1, KindsOfPlans DEF Handling
      <3>3. ~ connected
        BY <1>1, <2>2 DEF PlanInv, Booting
      <3>4. QED BY <1>4, <3>1, <3>2, <3>3 DEF PlanInv, Booting, BootPlans
    <2>3. QED BY <1>1, <2>1, <2>2, HeadsOfPlans
  <1>6. QED BY <1>3, <1>5

LEMMA StepPlans == ASSUME SInv, Step PROVE PlanInv' /\ KnownInv'
  <1>1. CASE param_init
    BY <1>1, ParamInitPlans
  <1>2. CASE Initialise /\ UNCHANGED <<flash, warm, param, connected, cloud, since>>
    BY <1>2, InitialisePlans
  <1>3. CASE Settles /\ UNCHANGED <<warm, connected, since>> /\ Assign /\ UNCHANGED <<flash, relay, cloud>>
    BY <1>3, AssignPlans DEF flash
  <1>4. CASE Settles /\ UNCHANGED <<warm, connected, since>> /\ SwitchRelay /\ UNCHANGED <<flash, param>>
    BY <1>4, SwitchPlans DEF flash
  <1>5. CASE Settles /\ UNCHANGED <<warm, connected, since>> /\ SaveStep /\ UNCHANGED <<param, relay, cloud>>
    <2>1. CASE Does(Erase) /\ words' = 0 /\ UNCHANGED sector
      BY <1>5, <2>1, ErasePlans
    <2>2. CASE Does(Write) /\ words' = Full /\ sector' = param
      BY <1>5, <2>2, WritePlans
    <2>3. QED BY <1>5, <2>1, <2>2 DEF SaveStep, Erase, Write
  <1>6. CASE Boot(FALSE) /\ UNCHANGED flash
    <2>1. words' > 0 => sector' \in known
      BY <1>6 DEF flash, SInv, KnownInv
    <2>2. QED BY <1>6, <2>1, BootPlansAnew
  <1>7. QED BY <1>1, <1>2, <1>3, <1>4, <1>5, <1>6 DEF Step

LEMMA InitPlans == Init => SInv
  <1>1. SUFFICES ASSUME Init PROVE SInv
    OBVIOUS
  <1>2. PlugTypes
    BY <1>1, InitHolds DEF IInv
  <1>3. todo = Setup /\ connected = FALSE /\ words = 0 /\ since = "none"
    BY <1>1 DEF Init
  <1>4. /\ todo \in BootPlans /\ todo \in Seq(Steps) /\ Head(todo)[1] = "param_init"
        /\ todo \notin {Rise, Tail(Rise)}
    BY <1>3, Tags, BootsAreSteps DEF BootPlans
  <1>5. ~ Handling
    BY <1>4, KindsOfPlans DEF Handling
  <1>6. PlanInv
    BY <1>3, <1>4, <1>5 DEF PlanInv, Booting, BootPlans
  <1>7. KnownInv
    BY <1>3, <1>4 DEF KnownInv, Write
  <1>8. QED BY <1>2, <1>6, <1>7 DEF SInv

LEMMA PlansKept == ASSUME SInv, [Next]_vars PROVE SInv'
  <1>1. CASE UNCHANGED plugVars
    <2>1. /\ UNCHANGED <<words, sector, warm, param, relay, todo, connected>>
          /\ UNCHANGED <<cloud, known, since>>
      BY <1>1 DEF plugVars, flash, history
    <2>2. PlugTypes' /\ KnownInv'
      BY <2>1 DEF SInv, PlugTypes, KnownInv, Idle
    <2>3. /\ Booting' = Booting /\ Handling' = Handling /\ Restarting' = Restarting
          /\ WillBeSaved' = WillBeSaved /\ OnlyPublishes' = OnlyPublishes
          /\ Saved' = Saved /\ RestartsClean' = RestartsClean
          /\ \A v \in {0, 1} : EndsWith(v)' = EndsWith(v)
      BY <2>1 DEF Booting, Handling, Restarting, WillBeSaved, OnlyPublishes, Saved,
                  RestartsClean, EndsWith, Idle
    <2>4. QED BY <2>1, <2>2, <2>3 DEF SInv, PlanInv
  <1>2. CASE Handler
    BY <1>2, HandlerPlans, HandlerTypes DEF SInv
  <1>3. CASE Step
    BY <1>3, StepPlans, StepTypes DEF SInv
  <1>4. ASSUME NEW cold \in BOOLEAN, Reset(cold) PROVE SInv'
    BY <1>4, ResetPlansAnew, ResetTypes DEF SInv
  <1>5. QED BY <1>1, <1>2, <1>3, <1>4 DEF Next, KeyStep, vars

(* When no handler runs, the relay, the status in RAM and the saved one    *)
(* agree, the other settings are saved and the platform has been told,     *)
(* whichever handlers came, between which resets, and however far a save   *)
(* had got when the power failed (main.c, param.c).                        *)
THEOREM SettledStatesAreSaved == Spec => []SettledIsSaved
  <1>1. SInv => SettledIsSaved
    <2>1. ASSUME SInv, Idle
          PROVE  /\ relay = param.status
                 /\ words = Full /\ sector.status = relay /\ sector.name = param.name
                 /\ \A f \in Flags \ {"alexa_on"} : sector.flags[f] = param.flags[f]
                 /\ connected => cloud = relay
      BY <2>1, IdleMeans DEF Saved, SInv, PlanInv
    <2>2. QED BY <2>1 DEF SettledIsSaved
  <1>2. SInv /\ [Next]_vars => SInv'
    BY PlansKept
  <1>3. QED BY <1>1, <1>2, InitPlans, PTL DEF Spec

(* What param_init puts in RAM after a reset anywhere in a save is a       *)
(* default or what the plug held since it was last settled (param.c,       *)
(* 54-118): a relay that comes on was on, was being switched on, or is to  *)
(* come on with the power.                                                 *)
THEOREM ResetsInventNothing == Spec => NothingInvented
  <1> DEFINE Genuine ==
               /\ param'.status = 1 => \E p \in known : p.status = 1 \/ p.flags["cold_on"] = 1
               /\ param'.name \in {Factory.name} \cup {p.name : p \in known}
               /\ \A f \in Flags :
                    param'.flags[f] \in {Default(f)} \cup {p.flags[f] : p \in known}
  <1>1. ASSUME SInv, param_init PROVE Genuine
    <2>1. param' = Restored(Read) /\ (words > 0 => sector \in known) /\ words \in 0 .. 4
      BY <1>1 DEF param_init, SInv, KnownInv, PlugTypes, Full
    <2>2. "cold_on" \in Flags
      BY PlugAssumption
    <2>3. ASSUME param'.status = 1
          PROVE  \E p \in known : p.status = 1 \/ p.flags["cold_on"] = 1
      <3>1. CASE Read.status = 1
        <4>1. words >= 1 /\ sector.status = 1
          BY <3>1 DEF Read, Erased
        <4>2. QED BY <2>1, <4>1
      <3>2. CASE Read.status # 1
        <4> DEFINE q == Read
        <4> HIDE DEF q
        <4>r. param'.status = IF q.status = Erased THEN 0
                              ELSE IF ~warm /\ TurnsOn(q) THEN 1 ELSE q.status
          BY <2>1 DEF Restored, q
        <4>s. 0 # 1
          OBVIOUS
        <4>1. TurnsOn(Read)
          BY <2>3, <3>2, <4>r, <4>s DEF q
        <4>2. words = Full /\ sector.flags["cold_on"] = 1
          BY <2>2, <4>1 DEF TurnsOn, Read, Erased
        <4>3. QED BY <2>1, <4>2 DEF Full
      <3>3. QED BY <3>1, <3>2
    <2>4. param'.name \in {Factory.name} \cup {p.name : p \in known}
      <3>1. CASE Read.status = Erased \/ ~IsName(Read.name)
        BY <2>1, <3>1 DEF Restored, Factory
      <3>2. CASE ~ (Read.status = Erased \/ ~IsName(Read.name))
        <4>1. param'.name = Read.name /\ Read.name # BadName
          BY <2>1, <3>2 DEF Restored, IsName
        <4>2. words >= 3 /\ Read.name = sector.name
          BY <4>1 DEF Read
        <4>3. QED BY <2>1, <4>1, <4>2
      <3>3. QED BY <3>1, <3>2
    <2>5. ASSUME NEW f \in Flags
          PROVE  param'.flags[f] \in {Default(f)} \cup {p.flags[f] : p \in known}
      <3>1. param'.flags[f] = IF Read.flags[f] = Erased THEN Default(f) ELSE Read.flags[f]
        BY <2>1 DEF Restored
      <3>2. Read.flags[f] # Erased => words = Full /\ Read.flags[f] = sector.flags[f]
        BY DEF Read
      <3>3. QED BY <2>1, <3>1, <3>2 DEF Full
    <2>6. QED BY <2>3, <2>4, <2>5
  <1>2. SInv /\ [Next]_vars => SInv'
    BY PlansKept
  <1>3. SInv /\ [Next]_vars => [param_init => Genuine]_vars
    BY <1>1
  <1>4. QED BY <1>2, <1>3, InitPlans, PTL DEF Spec, NothingInvented

(* A reset of a plug that left its mark finds the status it had, also when *)
(* the plug is to come on with the power (param.c, 108-118).               *)
THEOREM WarmBootsKeepTheStatus == Spec => WarmBootKeepsStatus
  <1> DEFINE Kept ==
               \A v \in 0 .. 1 :
                  (\A p \in known : p.status = v) =>
                      \/ param'.status = v
                      \/ since # "marked" /\ \E p \in known : p.flags["cold_on"] = 1
  <1>1. ASSUME SInv, param_init, words = Full PROVE Kept
    <2>1. /\ param' = Restored(Read) /\ sector \in known
          /\ since = "marked" => warm
      BY <1>1 DEF param_init, SInv, KnownInv, Full
    <2>2. "cold_on" \in Flags
      BY PlugAssumption
    <2>3. Read.status = sector.status /\ Read.flags["cold_on"] = sector.flags["cold_on"]
      BY <1>1, <2>2 DEF Read, Full
    <2>4. ASSUME NEW v \in 0 .. 1, \A p \in known : p.status = v
          PROVE  \/ param'.status = v
                 \/ since # "marked" /\ \E p \in known : p.flags["cold_on"] = 1
      <3>1. Read.status = v /\ v # Erased
        BY <2>1, <2>3, <2>4 DEF Erased
      <3>2. param'.status = IF ~warm /\ TurnsOn(Read) THEN 1 ELSE v
        BY <2>1, <3>1 DEF Restored
      <3>3. CASE ~warm /\ TurnsOn(Read)
        <4>1. sector.flags["cold_on"] = 1
          BY <2>3, <3>3 DEF TurnsOn
        <4>2. QED BY <2>1, <3>3, <4>1
      <3>4. QED BY <3>2, <3>3
    <2>5. QED BY <2>4
  <1>2. SInv /\ [Next]_vars => SInv'
    BY PlansKept
  <1>3. SInv /\ [Next]_vars => [param_init /\ words = Full => Kept]_vars
    BY <1>1
  <1>4. QED BY <1>2, <1>3, InitPlans, PTL DEF Spec, WarmBootKeepsStatus

(* The key driver keeps its types wherever edges fall.                     *)
LEMMA KeyTypesKept == ASSUME KeyTypes, [Next]_vars PROVE KeyTypes'
  <1> USE DEF KeyTypes, timers
  <1>0. 0 \in 0 .. MaxTicks
    BY KeyAssumption DEF MaxTicks
  <1>1. CASE Edge
    BY <1>1 DEF Edge
  <1>2. CASE Tick
    <2>1. /\ UNCHANGED <<pressed, status, handling, shortArmed, longArmed, missed>>
          /\ age' = IF age = None THEN None ELSE Later(age)
          /\ steady' = IF pressed THEN Later(steady) ELSE 0
      BY <1>2 DEF Tick
    <2>2. \A t \in 0 .. MaxTicks : Later(t) \in 0 .. MaxTicks
      BY LaterCounts DEF MaxTicks
    <2>3. steady' \in 0 .. MaxTicks
      BY <1>0, <2>1, <2>2
    <2>4. age' \in 0 .. MaxTicks \cup {None}
      BY <2>1, <2>2
    <2>5. QED BY <2>1, <2>3, <2>4
  <1>3. CASE key_intr_handler
    BY <1>0, <1>3 DEF key_intr_handler, LastTime
  <1>4. CASE ClearStatus
    BY <1>4 DEF ClearStatus
  <1>5. CASE key_short_cb
    BY <1>5 DEF key_short_cb
  <1>6. CASE key_long_cb
    BY <1>6 DEF key_long_cb
  <1>7. CASE KeyReset
    BY <1>7 DEF KeyReset
  <1>8. CASE key_init
    BY <1>8 DEF key_init
  <1>9. CASE UNCHANGED keyVars
    BY <1>9 DEF keyVars
  <1>a. KeyStep => Edge \/ Tick \/ ClearStatus \/ key_intr_handler
    BY DEF KeyStep
  <1>b. Handler => key_short_cb \/ key_long_cb \/ UNCHANGED keyVars
    BY DEF Handler, mjyun_receive, VoiceControl, xkey_short_press, xkey_long_press,
           UpnpFails, get_relay_status, mjyun_connected, mjyun_disconnected
  <1>c. Step => key_init \/ KeyReset \/ UNCHANGED keyVars
    BY DEF Step, param_init, Initialise, Boot
  <1>d. (\E cold \in BOOLEAN : Reset(cold)) => KeyReset
    BY DEF Reset, Boot
  <1>e. \/ Edge \/ Tick \/ key_intr_handler \/ ClearStatus \/ key_short_cb \/ key_long_cb
        \/ KeyReset \/ key_init \/ UNCHANGED keyVars
    BY <1>a, <1>b, <1>c, <1>d DEF Next, vars
  <1>f. QED BY <1>1, <1>2, <1>3, <1>4, <1>5, <1>6, <1>7, <1>8, <1>9, <1>e

(* Types: above all, what a handler leaves in RAM is never the erased      *)
(* value that param_init looks for (param.c, 54-118).                      *)
THEOREM TypesHold == Spec => []TypeOK
  <1>1. Init => SInv /\ KeyTypes
    BY InitPlans, InitKeeps DEF KInv
  <1>2. SInv /\ KeyTypes /\ [Next]_vars => SInv' /\ KeyTypes'
    BY PlansKept, KeyTypesKept
  <1>3. SInv /\ KeyTypes => TypeOK
    <2>1. SUFFICES ASSUME SInv, KeyTypes PROVE TypeOK
      OBVIOUS
    <2>2. KeyTypeOK
      BY <2>1 DEF KeyTypes, KeyTypeOK
    <2>3. QED BY <2>1, <2>2 DEF SInv, PlugTypes, PlanInv, TypeOK
  <1>4. QED BY <1>1, <1>2, <1>3, PTL DEF Spec

(* But for the interrupt after an edge that its handler's clear took, a    *)
(* timer of the key is armed only after the key was held for as long as    *)
(* that press must be (key.c, 290-329): no order of edges, bounces, lost   *)
(* edges, resets and other handlers before it turns a short press, or      *)
(* none, into a factory reset.                                             *)
THEOREM PressesWereHeld == Spec => PressesAreReal
  <1>1. IInv /\ [Next]_vars => IInv'
    BY StepKeeps
  <1>2. IInv /\ [Next]_vars =>
          [ /\ longArmed' /\ ~longArmed => IsLong(steady) \/ missed
            /\ shortArmed' /\ ~shortArmed => steady > 0 \/ missed ]_keyVars
    BY StepKeeps DEF Armed
  <1>3. QED BY <1>1, <1>2, InitHolds, PTL DEF Spec, PressesAreReal
=============================================================================
