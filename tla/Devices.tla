------------------------------- MODULE Devices -------------------------------
(***************************************************************************)
(* The device table of sip_server (main.cpp) and the database the Lua      *)
(* script keeps beside it (script.cpp).  The SIP thread changes both as    *)
(* the lower platform reports: catalogue answers, catalogue notifications  *)
(* and mobile positions (SipMessage.cpp).  When sip_server starts it fills *)
(* the table from the database; it may stop between any two steps.         *)
(* A text is a model value or a short string; "" is an empty field, and    *)
(* "0" is what platforms send for a coordinate they do not know.           *)
(* Coordinate conversion by the script (_transPos) is off.                 *)
(***************************************************************************)
CONSTANTS
    Devices,
    Reports,    \* what the platform may say of a device, as DevInfo records
    _useScript  \* whether there is a script, and so a database

Info == [strStatus : STRING, strLatitude : STRING, strLongitude : STRING]

ASSUME DevicesAssumption ==
    /\ Reports \subseteq Info
    /\ _useScript \in BOOLEAN

VARIABLES
    g_mapDevs,  \* device -> DevInfo
    db,         \* device -> the row the script has written
    item         \* the SIP thread: [at, dev, info] of the item it is working on
devicesVars == <<g_mapDevs, db, item>>

Idle == [at |-> "idle"]
Item(at, d, r) == [at |-> at, dev |-> d, info |-> r]
Nowhere == [d \in {} |-> Idle]

(* Script::Init reads the rows back (GetDevInfo).                          *)
Preload == IF _useScript THEN db ELSE Nowhere

DevicesInit == g_mapDevs = Nowhere /\ db = Nowhere /\ item = Idle

-----------------------------------------------------------------------------
(* What the script does.                                                   *)
With(f, d, r)       == [x \in DOMAIN f \union {d} |-> IF x = d THEN r ELSE f[x]]
SetStatus(f, d, s)  == IF d \in DOMAIN f THEN [f EXCEPT ![d].strStatus = s] ELSE f
SetPosSwapped(f, d, lat, lon) ==
    IF d \in DOMAIN f THEN [f EXCEPT ![d].strLatitude = lon, ![d].strLongitude = lat] ELSE f

(* on_update_postion takes (longitude, latitude), UpdatePos the reverse.   *)
SetPos(f, d, lat, lon) ==
    IF d \in DOMAIN f THEN [f EXCEPT ![d].strLatitude = lat, ![d].strLongitude = lon] ELSE f

InsertDev(d, r)         == db' = IF _useScript THEN With(db, d, r) ELSE db
UpdateStatus(d, s)      == db' = IF _useScript THEN SetStatus(db, d, s) ELSE db
UpdatePos(d, lat, lon)  == db' = IF _useScript THEN SetPos(db, d, lat, lon) ELSE db

-----------------------------------------------------------------------------
(* A catalogue item, on_device.                                            *)
OnNewDevice(d, r) ==
    /\ item.at = "idle" /\ d \notin DOMAIN g_mapDevs
    /\ g_mapDevs' = With(g_mapDevs, d, r)
    /\ InsertDev(d, r)
    /\ UNCHANGED item

Differs(new, old) == new \notin {"", old}
Moved(r, old) ==
    /\ Differs(r.strLatitude, old.strLatitude) /\ r.strLatitude # "0"
    /\ Differs(r.strLongitude, old.strLongitude) /\ r.strLongitude # "0"

OnKnownDevice(d, r) ==
    /\ item.at = "idle" /\ d \in DOMAIN g_mapDevs
    /\ IF Moved(r, g_mapDevs[d]) THEN UpdatePos(d, r.strLatitude, r.strLongitude) ELSE UNCHANGED db
    /\ item' = Item("device", d, r)
    /\ UNCHANGED g_mapDevs

NewStatusAfterwards(r, old) == Differs(r.strStatus, r.strStatus)
NewStatus(r, old) == Differs(r.strStatus, old.strStatus)

ReplaceDevice ==
    /\ item.at = "device"
    /\ IF NewStatus(item.info, g_mapDevs[item.dev])
       THEN UpdateStatus(item.dev, item.info.strStatus) ELSE UNCHANGED db
    /\ g_mapDevs' = With(g_mapDevs, item.dev, item.info)
    /\ item' = Idle

-----------------------------------------------------------------------------
(* An item of a catalogue notification, ParseNotifyCatalog: the script     *)
(* hears of the status before the table does.                              *)
HasPos(r) == r.strLongitude # "" /\ r.strLatitude # ""

OnNotify(d, r) ==
    /\ item.at = "idle"
    /\ IF r.strStatus # ""
       THEN UpdateStatus(d, r.strStatus) /\ item' = Item("status", d, r)
       ELSE UNCHANGED db /\ item' = IF HasPos(r) THEN Item("position", d, r) ELSE Idle
    /\ UNCHANGED g_mapDevs

OnUpdateStatus ==
    /\ item.at = "status"
    /\ g_mapDevs' = SetStatus(g_mapDevs, item.dev, item.info.strStatus)
    /\ item' = IF HasPos(item.info) THEN Item("position", item.dev, item.info) ELSE Idle
    /\ UNCHANGED db

Position(d, r) ==
    /\ g_mapDevs' = SetPos(g_mapDevs, d, r.strLatitude, r.strLongitude)
    /\ IF d \in DOMAIN g_mapDevs THEN UpdatePos(d, r.strLatitude, r.strLongitude) ELSE UNCHANGED db

OnUpdatePostion ==
    /\ item.at = "position" /\ Position(item.dev, item.info)
    /\ item' = Idle

(* ParseMobilePosition: empty coordinates are not left out here.           *)
OnMobilePosition(d, r) ==
    /\ item.at = "idle" /\ Position(d, r)
    /\ UNCHANGED item

-----------------------------------------------------------------------------
(* sip_server stops at any point and is started again.                     *)
Restart ==
    /\ g_mapDevs' = Preload
    /\ item' = Idle
    /\ UNCHANGED db

SipThread ==
    \/ \E d \in Devices, r \in Reports :
          OnNewDevice(d, r) \/ OnKnownDevice(d, r) \/ OnNotify(d, r) \/ OnMobilePosition(d, r)
    \/ ReplaceDevice \/ OnUpdateStatus \/ OnUpdatePostion

DevicesNext == SipThread \/ Restart
DevicesSpec == DevicesInit /\ [][DevicesNext]_devicesVars
-----------------------------------------------------------------------------
(* Every variable stays in its type.                                       *)
DevicesTypeOK ==
    /\ DOMAIN g_mapDevs \subseteq Devices /\ DOMAIN db \subseteq Devices
    /\ \A d \in DOMAIN g_mapDevs : g_mapDevs[d] \in Info
    /\ \A d \in DOMAIN db : db[d] \in Info
    /\ \/ item = Idle
       \/ item.at \in {"device", "status", "position"} /\ item.dev \in Devices /\ item.info \in Reports

(* main.cpp:28-57: between two reports the database knows every device of  *)
(* the table, with the status the table shows: a restart of sip_server     *)
(* forgets no device and no status, whatever the order in which            *)
(* catalogues and notifications came and wherever earlier restarts fell.   *)
RestartLosesNoStatus ==
    item.at = "idle" /\ _useScript =>
        \A d \in DOMAIN g_mapDevs :
            /\ d \in DOMAIN db
            /\ g_mapDevs[d].strStatus \in {"", db[d].strStatus}

(* main.cpp:37-39, 60-71: a latitude and a longitude that stand together   *)
(* in the table or in the database came together in one report, although   *)
(* they pass through calls with different argument orders and are compared *)
(* one by one.                                                             *)
Pairs == { <<r.strLatitude, r.strLongitude>> : r \in Reports }
PositionsAreReports ==
    \A f \in {g_mapDevs, db} : \A d \in DOMAIN f : <<f[d].strLatitude, f[d].strLongitude>> \in Pairs

=============================================================================
