----------------------------- MODULE Properties -----------------------------
(***************************************************************************)
(* The settings of a device: the storage, the properties of the box that   *)
(* change it, the running objects that were started from it, provisioning  *)
(* and the button that forgets the network. Three threads write: the http  *)
(* server (one property at a time), the provisioning manager and the main   *)
(* loop with the button. A handler is a sequence of statements, and power   *)
(* may go between any two of them.                                         *)
(***************************************************************************)
EXTENDS Integers, Sequences, TLC, Functions, ProjectTables

CONSTANTS
    Projects,       \* the builds to look at
    MaxOps,         \* bound on handlers started
    MaxCuts,        \* bound on losses of power
    Values          \* values a property can be given

PropertiesAssumption ==
    /\ Projects \subseteq DOMAIN Builds
    /\ MaxOps \in Nat /\ MaxCuts \in Nat
    /\ Values \subseteq Nat \ {0}

VARIABLES
    project,        \* the build
    phase,          \* "off", "boot", "provision" or "work"
    flash,          \* the nvs partitions: key |-> value or Missing
    ram,            \* RamStorage, used when nvs fails to start
    store,          \* which of the two settings::_storage points to
    box,            \* key of a property |-> value the box shows for it
    behind,         \* properties whose setting is not what the box was told:
                    \* others stored or erased it since the start, or the
                    \* storage refused it
    hw,             \* field of a running object |-> value it works with
    todo,           \* what is left of the handler a thread is in
    ops, cuts,      \* counters of the bounds
    failed,         \* a write failed, which the code only logs
    torn,           \* the credentials are not of one undisturbed writing
    forgetting      \* a reset has begun and no network was stored since

vars == <<project, phase, flash, ram, store, box, behind, hw, todo, ops, cuts,
          failed, torn, forgetting>>

Missing == -1
AP == 0
STA == 1
Default == 0
Threads == {"httpd", "provision", "button", "mqtt"}

NetKeys == {"wifi_mode", "ap_ssid", "ap_pass", "sta_ssid", "sta_pass"}

\* No build keeps anything of its own under the keys every box has, each has
\* a type for what its properties store, and an object that a property tells
\* first is started from the key of that property.
TablesAssumption ==
    \A p \in Projects :
        LET keys == Builds[p].keys
            props == Builds[p].props
            start == Builds[p].start
            remote == Builds[p].remote
        IN  /\ props \in [DOMAIN props -> Seq(STRING)]
            /\ DOMAIN props \subseteq STRING \cap DOMAIN keys
            /\ DOMAIN keys \cap (NetKeys \cup {"s_id"}) = {}
            /\ \A k \in DOMAIN props :
                  props[k] # << >> /\ props[k][1] \in DOMAIN start => start[props[k][1]] = k
            /\ remote \in Seq(STRING)
            /\ \A i \in DOMAIN remote : remote[i] \notin NetKeys

build == Builds[project]
Keys == NetKeys \cup {"s_id"} \cup DOMAIN build.keys

-----------------------------------------------------------------------------
(* Storage and settings                                                    *)

Contents == IF store = "nvs" THEN flash ELSE ram

HasKey(k) == Contents[k] # Missing

\* getIntOrDefault(), getStrOrDefault(), getFloatOrDefault().
Setting(k) == IF HasKey(k) THEN Contents[k] ELSE Default

WriteStorage(k, v) ==
    IF store = "nvs"
    THEN flash' = [flash EXCEPT ![k] = v] /\ UNCHANGED ram
    ELSE ram' = [ram EXCEPT ![k] = v] /\ UNCHANGED flash

\* A float is counted in units here, two of which make the last of the six
\* digits that setFloat() keeps and _valueToString() prints, and four a whole.
SixDigits(v) == v - (v % 2)
Printed(k, v) ==
    IF k \in DOMAIN build.keys /\ build.keys[k] = "float" THEN SixDigits(v) ELSE v

\* A float given to a field that is an int.
Whole(v) == v - (v % 4)
Held(f, v) == IF f \in build.cut THEN Whole(v) ELSE v

WifiMode == IF HasKey("wifi_mode") THEN Contents["wifi_mode"] ELSE STA

\* Mutant: the password is not asked for.
IsProvidedByNames ==
    HasKey("wifi_mode") /\ (HasKey("sta_ssid") \/ HasKey("ap_ssid"))

\* isWifiProvided(), which asks for the name of the access point twice.
IsWifiProvided ==
    /\ HasKey("wifi_mode")
    /\ \/ HasKey("sta_ssid") /\ HasKey("sta_pass")
       \/ HasKey("ap_ssid") /\ HasKey("ap_ssid")

-----------------------------------------------------------------------------
(* Statements of the handlers                                              *)

SetField(f, v) == [op |-> "field", on |-> f, val |-> v]
PutKey(k, v) == [op |-> "put", on |-> k, val |-> v]
\* The same by the setter of a property, which keeps what the box shows.
KeepKey(k, v) == [op |-> "keep", on |-> k, val |-> v]
EraseKey(k) == [op |-> "erase", on |-> k, val |-> Missing]

\* A property tells the running objects, then the storage.
Setter(k, v) ==
    LET fields == build.props[k]
    IN  [i \in DOMAIN fields |-> SetField(fields[i], v)]
        \o <<KeepKey(k, Printed(k, v))>>

\* The properties every box has that store something: Wifi SSID, Wifi pass,
\* Spiff partition ID.
CoreProps == {"sta_ssid", "sta_pass", "s_id"}
Props == DOMAIN build.props \cup CoreProps
CoreSetter(k, v) == <<KeepKey(k, v)>>

\* Mutant: the mode is erased last.
ClearModeLast == <<EraseKey("sta_ssid"), EraseKey("sta_pass"),
                   EraseKey("ap_ssid"), EraseKey("ap_pass"), EraseKey("wifi_mode")>>

\* clearWifi()
ClearWifi == <<EraseKey("wifi_mode"), EraseKey("sta_ssid"), EraseKey("sta_pass"),
               EraseKey("ap_ssid"), EraseKey("ap_pass")>>

\* WIFI_PROV_CRED_RECV: the mode is the one the custom endpoint stored.
Credentials(v) ==
    IF WifiMode = AP
    THEN <<PutKey("wifi_mode", AP), PutKey("ap_ssid", v), PutKey("ap_pass", v)>>
    ELSE <<PutKey("wifi_mode", STA), PutKey("sta_ssid", v), PutKey("sta_pass", v)>>

-----------------------------------------------------------------------------

\* global::init(): the objects are started from the settings, and the box
\* takes its values from the objects or from the settings.
Fields == DOMAIN build.start \cup DOMAIN build.early
          \cup UNION {Range(build.props[k]) : k \in DOMAIN build.props}

StartedHw(read) ==
    [f \in Fields |->
        IF f \in DOMAIN build.start
        THEN Held(f, IF read[build.start[f]] = Missing THEN Default ELSE read[build.start[f]])
        ELSE Default]

\* Mutant: the box is filled before the objects are started.
StartedBoxEarly(read, fields) == [k \in Props |-> Default]

StartedBox(read, fields) ==
    [k \in Props |->
        IF k \in DOMAIN build.props /\ build.props[k] # << >>
        THEN fields[build.props[k][1]]
        ELSE IF read[k] = Missing THEN Default ELSE read[k]]

Nothing == [k \in Keys |-> Missing]
Idle == [t \in Threads |-> << >>]

Init ==
    /\ project \in Projects
    /\ phase = "off" /\ store = "nvs"
    /\ flash = Nothing /\ ram = Nothing
    /\ hw = StartedHw(Nothing) /\ box = StartedBox(Nothing, hw) /\ behind = {}
    /\ todo = Idle
    /\ ops = 0 /\ cuts = 0
    /\ failed = FALSE /\ torn = FALSE /\ forgetting = FALSE

\* _init_settings() and project::init...Objs().
\* RamStorage is taken when nvs does not start.
PowerOn ==
    /\ phase = "off"
    /\ store' \in {"nvs", "ram"}
    /\ ram' = Nothing
    /\ hw' = StartedHw(IF store' = "nvs" THEN flash ELSE Nothing)
    /\ box' = StartedBox(IF store' = "nvs" THEN flash ELSE Nothing, hw') /\ behind' = {}
    /\ phase' = "boot"
    /\ UNCHANGED <<project, flash, todo, ops, cuts, failed, torn, forgetting>>

\* StateHwInit: on to the network, or ask for one.
LeaveHwInit ==
    /\ phase = "boot"
    /\ phase' = IF IsWifiProvided THEN "work" ELSE "provision"
    /\ UNCHANGED <<project, flash, ram, store, box, behind, hw, todo, ops, cuts,
                   failed, torn, forgetting>>

\* A thread is in the middle of clearWifi().
Resetting == \E t \in Threads : todo[t] # << >> /\ Head(todo[t]).op = "erase"

\* The credentials a phone sends now meet older ones, or a reset.
Overlaps == Resetting \/ HasKey("sta_ssid") \/ HasKey("ap_ssid")

\* Power goes; a handler that was in the middle never ends.
PowerOff ==
    /\ phase # "off" /\ cuts < MaxCuts
    /\ phase' = "off" /\ cuts' = cuts + 1
    /\ torn' = (torn \/ Resetting)
    /\ todo' = Idle
    /\ UNCHANGED <<project, flash, ram, store, box, behind, hw, ops, failed, forgetting>>

\* A thread starts a handler; each runs one at a time.
Begin(t, stmts) ==
    /\ todo[t] = << >> /\ ops < MaxOps
    /\ todo' = [todo EXCEPT ![t] = stmts]
    /\ ops' = ops + 1
    /\ UNCHANGED <<project, phase, flash, ram, store, behind, hw, cuts, failed>>

\* setFromJson() of a property of the project: its value, then the callback.
SetProperty(k, v) ==
    /\ phase = "work"
    /\ Begin("httpd", Setter(k, v))
    /\ box' = [box EXCEPT ![k] = v]
    /\ UNCHANGED <<torn, forgetting>>

\* The same of the properties every box has.
SetCoreProperty(k, v) ==
    /\ phase = "work"
    /\ Begin("httpd", CoreSetter(k, v))
    /\ box' = [box EXCEPT ![k] = v]
    /\ torn' = (torn \/ k # "s_id")
    /\ UNCHANGED forgetting

\* A message of the broker stores values; the box is not told.
RemoteStores(v) ==
    LET keys == build.remote
    IN  /\ phase = "work" /\ keys # << >>
        /\ Begin("mqtt", [i \in DOMAIN keys |-> PutKey(keys[i], Printed(keys[i], v))])
        /\ UNCHANGED <<box, torn, forgetting>>

\* update::endSpiff() names the other partition; the box is not told.
FilesUpdated ==
    /\ phase \in {"provision", "work"}
    /\ Begin("httpd", <<PutKey("s_id", IF Setting("s_id") = Default THEN 1 ELSE Default)>>)
    /\ UNCHANGED <<box, torn, forgetting>>

\* PROPERTY_SYSTEM_RESET_SETTINGS of the http server, or the button RESET
\* held for two seconds in the main loop.
Reset(t) ==
    /\ t \in {"httpd", "button"} /\ phase # "off"
    /\ t = "httpd" => phase = "work"
    /\ Begin(t, ClearWifi)
    /\ torn' = (torn \/ \E u \in Threads : todo[u] # << >>)
    /\ UNCHANGED <<box, forgetting>>

\* The custom endpoint of provisioning.
ChooseMode(mode) ==
    /\ phase = "provision"
    /\ Begin("provision", <<PutKey("wifi_mode", mode)>>)
    /\ torn' = (torn \/ Overlaps)
    /\ UNCHANGED <<box, forgetting>>

\* The phone sends a name and a password.
ReceiveCredentials(v) ==
    /\ phase = "provision"
    /\ Begin("provision", Credentials(v))
    /\ torn' = (torn \/ Overlaps)
    /\ UNCHANGED <<box, forgetting>>

\* CRED_SUCCESS, or CRED_FAIL for an access point: on to the network.
Provisioned ==
    /\ phase = "provision" /\ todo["provision"] = << >>
    /\ IsWifiProvided
    /\ phase' = "work"
    /\ UNCHANGED <<project, flash, ram, store, box, behind, hw, todo, ops, cuts,
                   failed, torn, forgetting>>

\* A thread executes its next statement. What the storage refuses is logged.
Statement(t) ==
    LET s == Head(todo[t])
    IN  /\ todo[t] # << >>
        /\ todo' = [todo EXCEPT ![t] = Tail(@)]
        /\ CASE s.op = "field" ->
                  /\ hw' = [hw EXCEPT ![s.on] = Held(s.on, s.val)]
                  /\ UNCHANGED <<flash, ram, behind, failed, forgetting>>
             [] s.op # "field" ->
                  /\ UNCHANGED hw
                  /\ \/ /\ WriteStorage(s.on, s.val)
                        /\ behind' = IF s.op = "keep" THEN behind \ {s.on}
                                     ELSE behind \cup ({s.on} \cap Props)
                        /\ forgetting' =
                             IF store = "ram" THEN forgetting
                             ELSE IF s.op = "erase"
                             THEN forgetting \/ Len(todo[t]) = Len(ClearWifi)
                             ELSE forgetting /\ s.on # "wifi_mode"
                        /\ UNCHANGED failed
                     \/ /\ store = "nvs" /\ ~failed
                        /\ failed' = TRUE
                        /\ behind' = IF s.op = "keep" THEN behind \cup {s.on} ELSE behind
                        /\ UNCHANGED <<flash, ram, forgetting>>
        /\ UNCHANGED <<project, phase, store, box, ops, cuts, torn>>

Next ==
    \/ PowerOn
    \/ LeaveHwInit
    \/ PowerOff
    \/ \E k \in DOMAIN build.props, v \in Values : SetProperty(k, v)
    \/ \E k \in CoreProps, v \in Values : SetCoreProperty(k, v)
    \/ \E v \in Values : RemoteStores(v)
    \/ FilesUpdated
    \/ \E t \in Threads : Reset(t)
    \/ \E mode \in {AP, STA} : ChooseMode(mode)
    \/ \E v \in Values : ReceiveCredentials(v)
    \/ Provisioned
    \/ \E t \in Threads : Statement(t)

Spec == Init /\ [][Next]_vars
-----------------------------------------------------------------------------

Quiet == phase # "off" /\ todo = Idle

\* The properties the box can vouch for: one whose object is never started on
\* this board shows what the object was built with.
Kept == {k \in Props :
           k \in DOMAIN build.props =>
              \A i \in DOMAIN build.props[k] : build.props[k][i] \in DOMAIN build.start}

\* A property whose object keeps whole numbers only.
IsCut(k) ==
    k \in DOMAIN build.props /\ build.props[k] # << >> /\ build.props[k][1] \in build.cut

\* The box may show v for a setting: it has the digits that are stored, or it was
\* read from an object that keeps whole numbers.
Shows(k, v, setting) == Printed(k, v) = setting \/ (IsCut(k) /\ v = Whole(setting))

\* What the box shows for a property is what is stored, to the digits that are
\* shown, in every build and whatever handlers, losses of power and refused writes
\* went before, and no start brings back another value than the last one stored
\* (but for the fraction of a number that an object keeps as a whole one). The
\* exceptions are the settings that provisioning, a reset, a message, an update or
\* a refused write left behind the box, each until it is set or the device starts.
ShownIsStored == Quiet => \A k \in Kept \ behind : Shows(k, box[k], Setting(k))

\* Once a reset has removed its first key there is no way back: whenever power
\* goes, the device asks for a network at its next start. (A reset made while
\* nvs was out of use reaches RamStorage only and is undone by the restart.)
ResetIsForGood ==
    [][phase = "boot" /\ forgetting => phase' # "work"]_vars

\* Wherever power goes while credentials are stored, a station that counts as
\* provided has a name and a password of one message. (Not so once a reset was
\* cut or ran beside provisioning, a property changed one of the two, or the
\* phone started over.)
ProvidedIsWhole ==
    phase # "off" /\ ~failed /\ ~torn /\ ~Resetting
    /\ IsWifiProvided /\ WifiMode = STA
    => HasKey("sta_ssid") /\ Contents["sta_pass"] = Contents["sta_ssid"]
=============================================================================
