---------------------------- MODULE ProjectTables ----------------------------
(***************************************************************************)
(* What every build of the firmware keeps in the storage, which property  *)
(* of the box changes it, and where the build reads it.                    *)
(*                                                                         *)
(* The tables of a build:                                                  *)
(*   keys   key of the storage |-> type its setter and getter use          *)
(*   props  key |-> the fields of the running objects its property sets,   *)
(*          in order, before it stores the value                           *)
(*   start  field |-> key the field is read from when the objects start    *)
(*   uses   what reads the key anew each time it is used |-> key           *)
(*   early  field |-> key a static constructor reads it from, which runs    *)
(*          before there is a storage                                       *)
(*   remote the keys an mqtt message stores, in order                      *)
(*   cut    the fields that are ints while their key is a float            *)
(* A property is named by the key it stores. Values have no table: every   *)
(* getter has a default of its own, which the model calls Default.         *)
(***************************************************************************)
LOCAL INSTANCE TLC
LOCAL INSTANCE Functions

\* A property that only stores its value: no running object is told.
Stored(keys) == [k \in keys |-> << >>]
Ints(keys) == [k \in keys |-> "int"]
Strs(keys) == [k \in keys |-> "str"]
Floats(keys) == [k \in keys |-> "float"]

\* The broker of the mqtt client and the device's number in the topics.
MqttKeys == Ints({"l_mqtt_id", "mq_port"}) @@ Strs({"mq_ip"})
MqttProps == Stored(DOMAIN MqttKeys)
MqttStart == "mqtt.ip" :> "mq_ip" @@ "mqtt.port" :> "mq_port"
             @@ "mqtt.subscribed" :> "l_mqtt_id"
MqttUses == "mqtt.topic" :> "l_mqtt_id"

Build(keys, props, start, uses) ==
    [keys |-> keys, props |-> props, start |-> start, uses |-> uses,
     early |-> << >>, remote |-> << >>, cut |-> {}]

-----------------------------------------------------------------------------
\* Green house: three switches with settings of their own.

GreenHouseKeys ==
    Ints({"l_on", "l_off", "f_speed"})
    @@ Floats({"f_low_t", "f_high_t", "f_low_h", "f_high_h", "f_delta",
               "f_h_del", "f_per", "h_low_t", "h_high_t", "h_delta"})

\* The hours of light are the day of the heater and of the fan.
LightProps ==
    "l_on" :> <<"light.start", "heat.dayStart", "fan.dayStart">>
    @@ "l_off" :> <<"light.end", "heat.dayEnd", "fan.dayEnd">>

HeatProps ==
    "h_low_t" :> <<"heat.low">> @@ "h_high_t" :> <<"heat.high">>
    @@ "h_delta" :> <<"heat.delta">>

FanProps ==
    "f_low_t" :> <<"fan.lowTemp">> @@ "f_high_t" :> <<"fan.highTemp">>
    @@ "f_low_h" :> <<"fan.lowHum">> @@ "f_high_h" :> <<"fan.highHum">>
    @@ "f_delta" :> <<"fan.deltaHum">> @@ "f_h_del" :> <<"fan.deltaPeriodHum">>
    @@ "f_per" :> <<"fan.period">>

\* _init_from_settings(): the fan takes its night shift of temperature from
\* the heater's.
GreenHouseStart ==
    "light.start" :> "l_on" @@ "light.end" :> "l_off"
    @@ "fan.speed" :> "f_speed"
    @@ "fan.lowTemp" :> "f_low_t" @@ "fan.highTemp" :> "f_high_t"
    @@ "fan.lowHum" :> "f_low_h" @@ "fan.highHum" :> "f_high_h"
    @@ "fan.dayStart" :> "l_on" @@ "fan.dayEnd" :> "l_off"
    @@ "fan.deltaHum" :> "f_delta" @@ "fan.deltaTemp" :> "h_delta"
    @@ "fan.deltaPeriodHum" :> "f_h_del" @@ "fan.period" :> "f_per"
    @@ "heat.low" :> "h_low_t" @@ "heat.high" :> "h_high_t"
    @@ "heat.dayStart" :> "l_on" @@ "heat.dayEnd" :> "l_off"
    @@ "heat.delta" :> "h_delta"

\* setDeltaPeriod(int) of a float property.
GreenHouseCut == {"fan.period"}
GreenHouse == [Build(GreenHouseKeys, LightProps @@ HeatProps @@ FanProps,
                     GreenHouseStart, << >>)
                 EXCEPT !.cut = GreenHouseCut]

-----------------------------------------------------------------------------
\* Relays and toy sticks: an http puller that can be changed at run time.

PullerProps == "h_delay" :> <<"puller.timeout">> @@ "h_url" :> <<"puller.url">>
PullerStart == "puller.timeout" :> "h_delay" @@ "puller.url" :> "h_url"

RelayKeys == Ints({"h_delay"}) @@ Strs({"h_url"}) @@ MqttKeys
\* The puller's properties are registered for both versions of the board,
\* the puller is started on the first one only.
RelayStart == [v1 |-> PullerStart, v2 |-> MqttStart]
RelayV1 == Build(RelayKeys, PullerProps, RelayStart.v1, << >>)
RelayV2 == Build(RelayKeys, PullerProps @@ MqttProps, RelayStart.v2, MqttUses)

SticksKeys == Ints({"h_delay"}) @@ Strs({"h_url"})
SticksProps == PullerProps
SticksStart == PullerStart
Sticks == Build(SticksKeys, SticksProps, SticksStart, << >>)

-----------------------------------------------------------------------------
\* Riddles: properties that only store.

CipherBoxKeys ==
    Ints({"adc_error", "adc_bounce", "chips", "readings", "http_en"})
    @@ Strs({"http_url"}) @@ MqttKeys
CipherBoxProps == Stored(DOMAIN CipherBoxKeys)
CipherBoxStart ==
    MqttStart @@ "expander.chips" :> "chips" @@ "scan.error" :> "adc_error"
    @@ "scan.bounce" :> "adc_bounce"
CipherBoxUses ==
    MqttUses @@ "scan.chips" :> "chips" @@ "send.http" :> "http_en"
    @@ "send.url" :> "http_url"
\* _matrix is a static object of the second version of the board.
CipherBoxEarly == "matrix.readings" :> "readings"
CipherBox ==
    [Build(CipherBoxKeys, CipherBoxProps, CipherBoxStart, CipherBoxUses)
        EXCEPT !.early = CipherBoxEarly]

InputMatrixKeys ==
    Ints({"t_pulse", "t_deb", "t_still", "e_target"}) @@ Strs({"comb"})
    @@ MqttKeys
InputMatrixProps == Stored(DOMAIN InputMatrixKeys)
InputMatrixStart ==
    MqttStart @@ "pwm.pulse" :> "t_pulse" @@ "target" :> "comb"
    @@ "grid.debounce" :> "t_deb" @@ "grid.still" :> "t_still"
InputMatrixUses == MqttUses @@ "target.enabled" :> "e_target"
InputMatrix ==
    Build(InputMatrixKeys, InputMatrixProps, InputMatrixStart, InputMatrixUses)

KeypadKeys == Ints({"t_pulse"}) @@ MqttKeys
KeypadProps == Stored({"t_pulse"})
KeypadMqttProps == MqttProps
KeypadStart == MqttStart @@ "pwm.pulse" :> "t_pulse"
Keypad == Build(KeypadKeys, KeypadProps @@ KeypadMqttProps, KeypadStart, MqttUses)

WasherKeys == Ints({"bounce", "blink_ms"}) @@ Strs({"http_url"}) @@ MqttKeys
WasherProps == Stored(DOMAIN WasherKeys)
WasherStart == MqttStart @@ "blink.period" :> "blink_ms"
Washer == Build(WasherKeys, WasherProps, WasherStart, MqttUses)

AudioKeys == Ints({"df_vol"}) @@ MqttKeys
AudioProps == Stored(DOMAIN AudioKeys)
AudioUses == MqttUses @@ "player.volume" :> "df_vol"
\* The topic "volume" stores what it was sent.
AudioRemote == <<"df_vol">>
Audio == [Build(AudioKeys, AudioProps, MqttStart, AudioUses)
            EXCEPT !.remote = AudioRemote]

RfidsKeys == Ints({"log_en", "read_ms"}) @@ Strs({"http_url"})
RfidsProps == Stored(DOMAIN RfidsKeys)
RfidsUses == "send.url" :> "http_url" @@ "log" :> "log_en"
RfidsStart == "reader.period" :> "read_ms"
Rfids == Build(RfidsKeys, RfidsProps, RfidsStart, RfidsUses)

TressureKeys ==
    Ints({"f_pulse", "f_boost", "b_max", "b_min",
          "led_red", "led_green", "led_blue"}) @@ MqttKeys
TressureProps == MqttProps
TressureStart ==
    MqttStart @@ "battery.min" :> "b_min" @@ "battery.max" :> "b_max"
    @@ "led.red" :> "led_red" @@ "led.green" :> "led_green"
    @@ "led.blue" :> "led_blue"
\* The topic "rgb" stores the colour.
TressureRemote == <<"led_red", "led_green", "led_blue">>
Tressure == [Build(TressureKeys, TressureProps, TressureStart, MqttUses)
                EXCEPT !.remote = TressureRemote]

IrKeys == MqttKeys
IrProps == MqttProps
InfraRed == Build(IrKeys, IrProps, MqttStart, MqttUses)

DmxKeys == MqttKeys
DmxProps == MqttProps
Dmx == Build(DmxKeys, DmxProps, MqttStart, MqttUses)

\* The build is chosen by _PROJECT when the firmware is compiled.
Builds ==
    "green_house" :> GreenHouse @@ "relay" :> RelayV1 @@ "relay2" :> RelayV2
    @@ "sticks" :> Sticks @@ "cipher_box" :> CipherBox
    @@ "input_matrix" :> InputMatrix @@ "keypad_backlight" :> Keypad
    @@ "washer" :> Washer @@ "audio_multi" :> Audio @@ "rfids" :> Rfids
    @@ "tressure" :> Tressure @@ "ir" :> InfraRed @@ "dmx_light" :> Dmx
=============================================================================
