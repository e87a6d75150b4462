------------------------------ MODULE WifiLink ------------------------------
(***************************************************************************)
(* The station monitor (modules/wifi.c): CMD_WIFI_CONNECT starts it,       *)
(* wifi_check_ip then polls the station status from the timer WiFiLinker,  *)
(* asks for another attempt when one has failed and sends the host an      *)
(* event when the status has changed.                                      *)
(*                                                                         *)
(* wifi_check_ip reads the address once and the status up to four times;   *)
(* the SDK's own tasks may change both between two reads, so each read is  *)
(* a step.  WIFI_Connect is a command handler and never overlaps a poll.   *)
(* The credentials and the timer's periods are left out: air says what an  *)
(* attempt with the present configuration leads to.  Left out as well is   *)
(* wifi_station_set_auto_connect, which tells the SDK what to do at power  *)
(* on, where user_init switches it off.                                    *)
(*                                                                         *)
(* The chip may restart at any time (CMD_RESET, the watchdog, an           *)
(* exception) and forgets all of this.  told and toldCb are what the host  *)
(* has heard since.                                                        *)
(***************************************************************************)
EXTENDS Naturals

CONSTANTS
  Callbacks,      \* the values of callback in the host's commands, 0 excluded
  MaxConnects,    \* bound: CMD_WIFI_CONNECT commands
  MaxChanges,     \* bound: changes on the air
  MaxResets       \* bound: restarts of the chip

ASSUME CallbacksAssumption == Callbacks \subseteq Nat \ {0}
ASSUME WifiBoundsAssumption == {MaxConnects, MaxChanges, MaxResets} \subseteq Nat

VARIABLES
  status,         \* wifi_station_get_connect_status()
  ip,             \* wifi_get_ip_info gives an address other than 0
  attempt,        \* an attempt to join is under way
  air,            \* the status that an attempt ends in
  timer,          \* WiFiLinker is armed
  poll,           \* the next read of wifi_check_ip, "idle" outside of it
  ipConfig,       \* the address it has read
  wifiCb, wifiStatus, lastWifiStatus,
  told,           \* the host: the status in the last event of this boot, and
  toldCb,         \* the callback it carried
  connects, changes, resets

sdk == <<status, ip, attempt, air>>
monitor == <<wifiCb, wifiStatus, lastWifiStatus, told, toldCb>>
counters == <<connects, changes, resets>>
vars == <<sdk, timer, poll, ipConfig, monitor, counters>>

Failed == {"WRONG_PASSWORD", "NO_AP_FOUND", "CONNECT_FAIL"}
Outcomes == Failed \cup {"GOT_IP"}
Statuses == Outcomes \cup {"IDLE", "CONNECTING"}

\* user_init has switched auto connect off: no attempt before the first command.
Init ==
  /\ status = "IDLE"
  /\ ip = FALSE
  /\ attempt = FALSE
  /\ air \in Outcomes
  /\ timer = FALSE
  /\ poll = "idle"
  /\ ipConfig = FALSE
  /\ wifiCb = 0
  /\ wifiStatus = "IDLE" /\ lastWifiStatus = "IDLE"
  /\ told = "IDLE" /\ toldCb = 0
  /\ connects = 0 /\ changes = 0 /\ resets = 0

-----------------------------------------------------------------------------
(* The SDK. *)

\* wifi_station_connect starts an attempt; the status follows at once or when
\* the SDK's task gets to it.
wifi_station_connect ==
  /\ attempt' = TRUE
  /\ status' \in {status, "CONNECTING"}
  /\ ip' = (ip /\ status' = status)

SdkJoining ==
  /\ attempt
  /\ status # "CONNECTING"
  /\ status' = "CONNECTING"
  /\ ip' = FALSE
  /\ UNCHANGED <<attempt, air, timer, poll, ipConfig, monitor, counters>>

SdkResult ==
  /\ attempt
  /\ attempt' = FALSE
  /\ status' = air
  /\ ip' = (air = "GOT_IP")
  /\ UNCHANGED <<air, timer, poll, ipConfig, monitor, counters>>

\* The access point goes, comes back or is set up anew.  A station that is
\* joined loses the association and tries again by itself.
AirChanges ==
  /\ changes < MaxChanges
  /\ changes' = changes + 1
  /\ air' \in Outcomes \ {air}
  /\ IF status = "GOT_IP"
       THEN status' = "CONNECTING" /\ ip' = FALSE /\ attempt' = TRUE
       ELSE UNCHANGED <<status, ip, attempt>>
  /\ UNCHANGED <<timer, poll, ipConfig, monitor, connects, resets>>

-----------------------------------------------------------------------------
(* The chip. *)

\* All memory is as it was at the first start; user_init allows no attempt.
Boot ==
  /\ resets < MaxResets
  /\ resets' = resets + 1
  /\ status' = "IDLE" /\ ip' = FALSE /\ attempt' = FALSE
  /\ timer' = FALSE /\ poll' = "idle" /\ ipConfig' = FALSE
  /\ wifiCb' = 0
  /\ wifiStatus' = "IDLE" /\ lastWifiStatus' = "IDLE"
  /\ told' = "IDLE" /\ toldCb' = 0
  /\ UNCHANGED air

system_restart == Boot /\ UNCHANGED <<connects, changes>>

-----------------------------------------------------------------------------
(* WIFI_Connect. *)

\* The two fields are copied to the stack, into 32 and 64 bytes, by the lengths
\* found in front of them and before argc is looked at; with fewer than two
\* arguments a length is what lies behind them, the checksum or the rest of an
\* older frame.  Fields that do not fit overwrite what the stack holds above:
\* the chip restarts, at once or a little later, or nothing comes of it.
WIFI_Connect(argc, callback, fits) ==
  /\ poll = "idle"
  /\ connects < MaxConnects
  /\ connects' = connects + 1
  /\ \/ ~fits /\ Boot
     \/ /\ argc # 2 \/ callback = 0
        /\ UNCHANGED <<sdk, timer, poll, ipConfig, monitor, resets>>
     \/ /\ argc = 2 /\ callback # 0
        /\ wifiCb' = callback
        /\ air' \in Outcomes                 \* wifi_station_set_config
        /\ timer' = TRUE
        /\ wifi_station_connect
        /\ UNCHANGED <<poll, ipConfig, wifiStatus, lastWifiStatus, told, toldCb,
                       resets>>
  /\ UNCHANGED changes

-----------------------------------------------------------------------------
(* wifi_check_ip. *)

\* The timer is one-shot; os_timer_disarm and wifi_get_ip_info.
PollStart ==
  /\ poll = "idle"
  /\ timer
  /\ timer' = FALSE
  /\ ipConfig' = ip
  /\ poll' = "status"
  /\ UNCHANGED <<sdk, monitor, counters>>

\* Faults: the joined branch forgets the timer; the status is not read while
\* the station has an address.
PollStatusNoTimer ==
  /\ poll = "status"
  /\ wifiStatus' = status
  /\ poll' = IF status = "GOT_IP" /\ ipConfig THEN "report" ELSE "WRONG_PASSWORD"
  /\ UNCHANGED <<sdk, timer, ipConfig, wifiCb, lastWifiStatus, told,
                 toldCb, counters>>
PollStatusSkipsRead ==
  /\ poll = "status"
  /\ IF ipConfig
       THEN timer' = TRUE /\ poll' = "report" /\ UNCHANGED wifiStatus
       ELSE /\ wifiStatus' = status /\ UNCHANGED timer
            /\ poll' = "WRONG_PASSWORD"
  /\ UNCHANGED <<sdk, ipConfig, wifiCb, lastWifiStatus, told,
                 toldCb, counters>>

\* wifiStatus = wifi_station_get_connect_status(): with an address, the timer
\* is armed for 2 s and nothing else is done.
PollStatus ==
  /\ poll = "status"
  /\ wifiStatus' = status
  /\ IF status = "GOT_IP" /\ ipConfig
       THEN timer' = TRUE /\ poll' = "report"
       ELSE UNCHANGED timer /\ poll' = "WRONG_PASSWORD"
  /\ UNCHANGED <<sdk, ipConfig, wifiCb, lastWifiStatus, told,
                 toldCb, counters>>

\* Fault: a fourth test that no branch handles.
NextTestTooMany == [WRONG_PASSWORD |-> "NO_AP_FOUND", NO_AP_FOUND |-> "CONNECT_FAIL",
                    CONNECT_FAIL |-> "CONNECTING"]

\* The chain of tests, each of which reads the status again.
NextTest == [WRONG_PASSWORD |-> "NO_AP_FOUND", NO_AP_FOUND |-> "CONNECT_FAIL",
             CONNECT_FAIL |-> "report"]

\* Fault: only a wrong password is worth another attempt.
PollTestNoRetry ==
  /\ poll \in Failed
  /\ \/ /\ status = poll
        /\ IF poll = "WRONG_PASSWORD" THEN wifi_station_connect
             ELSE UNCHANGED <<status, ip, attempt>>
        /\ timer' = TRUE
        /\ poll' = "report"
     \/ /\ status # poll
        /\ poll' = NextTest[poll]
        /\ timer' = (poll' = "report")
        /\ UNCHANGED <<status, ip, attempt>>
  /\ UNCHANGED <<air, ipConfig, monitor, counters>>

\* A test that succeeds starts an attempt; the last one and one that succeeds
\* arm the timer for 500 ms.
PollTest ==
  /\ poll \in Failed
  /\ \/ /\ status = poll
        /\ wifi_station_connect
        /\ timer' = TRUE
        /\ poll' = "report"
     \/ /\ status # poll
        /\ poll' = NextTest[poll]
        /\ timer' = (poll' = "report")
        /\ UNCHANGED <<status, ip, attempt>>
  /\ UNCHANGED <<air, ipConfig, monitor, counters>>

\* Faults: the status is read once more for lastWifiStatus; an event at every
\* poll.
PollReportReadsAgain ==
  /\ poll = "report"
  /\ poll' = "idle"
  /\ lastWifiStatus' = status
  /\ IF wifiStatus # lastWifiStatus /\ wifiCb # 0
       THEN told' = wifiStatus /\ toldCb' = wifiCb
       ELSE UNCHANGED <<told, toldCb>>
  /\ UNCHANGED <<sdk, timer, ipConfig, wifiCb, wifiStatus,
                 counters>>
PollReportAlways ==
  /\ poll = "report"
  /\ poll' = "idle"
  /\ lastWifiStatus' = wifiStatus
  /\ told' = wifiStatus /\ toldCb' = wifiCb
  /\ UNCHANGED <<sdk, timer, ipConfig, wifiCb, wifiStatus,
                 counters>>

\* A status other than the one before is sent to the callback, if there is one.
PollReport ==
  /\ poll = "report"
  /\ poll' = "idle"
  /\ lastWifiStatus' = wifiStatus
  /\ IF wifiStatus # lastWifiStatus /\ wifiCb # 0
       THEN told' = wifiStatus /\ toldCb' = wifiCb
       ELSE UNCHANGED <<told, toldCb>>
  /\ UNCHANGED <<sdk, timer, ipConfig, wifiCb, wifiStatus,
                 counters>>

wifi_check_ip == PollStart \/ PollStatus \/ PollTest \/ PollReport

-----------------------------------------------------------------------------
Sdk == SdkJoining \/ SdkResult
Command == \E argc \in 0..2, callback \in {0} \cup Callbacks, fits \in BOOLEAN :
             WIFI_Connect(argc, callback, fits)

Next == Sdk \/ AirChanges \/ Command \/ wifi_check_ip \/ system_restart

Spec == Init /\ [][Next]_vars

\* Timers fire and their callbacks run; an attempt to join comes to an end.
FairSpec == Spec /\ WF_vars(wifi_check_ip) /\ WF_vars(SdkResult)

-----------------------------------------------------------------------------
(* Properties. *)

TypeOK ==
  /\ status \in Statuses /\ air \in Outcomes
  /\ {ip, attempt, timer, ipConfig} \subseteq BOOLEAN
  /\ poll \in {"idle", "status", "report"} \cup Failed
  /\ {wifiStatus, lastWifiStatus, told} \subseteq Statuses
  /\ {wifiCb, toldCb} \subseteq {0} \cup Callbacks
  /\ connects \in 0..MaxConnects /\ changes \in 0..MaxChanges
  /\ resets \in 0..MaxResets

\* The monitor never dies while the chip runs: once a CMD_WIFI_CONNECT was
\* accepted, WiFiLinker is armed or wifi_check_ip is on the way to a branch that
\* arms it, whatever it reads in between.
MonitorAlive ==
  wifiCb # 0 => timer \/ poll \in {"status"} \cup Failed

\* Between two polls the host has heard in this boot what the last poll saw: no
\* change that was seen is left out of an event, not even across a new
\* CMD_WIFI_CONNECT, accepted or not, or when the status was another one by the
\* time a later test read it.
HostKnowsLastPoll ==
  poll = "idle" => told = wifiStatus /\ lastWifiStatus = wifiStatus

\* Within a boot, every event tells the host something new, on the callback of
\* the last accepted command, and tells what the same poll has read.
EventIsNews ==
  [][<<told, toldCb>>' # <<told, toldCb>> /\ resets' = resets =>
       told' # told /\ told' = wifiStatus /\ toldCb' = wifiCb]_vars

\* After the last restart, if a command is accepted and from some time on an
\* attempt can succeed, the station joins and the host is told, however many
\* attempts failed before: a poll that finds one failed asks for another.
EventuallyJoined ==
  <>[](wifiCb # 0) /\ <>[](air = "GOT_IP") => <>[](told = "GOT_IP" /\ ip)

\* A status that lasts is in the end what the host knows, if a command was
\* accepted after the last restart.
LastingStatusTold ==
  \A s \in Statuses :
    <>[](wifiCb # 0) /\ <>[](status = s) => <>[](told = s)
=============================================================================
