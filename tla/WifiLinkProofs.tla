--------------------------- MODULE WifiLinkProofs ---------------------------
(***************************************************************************)
(* Proofs about the station monitor for every set of callbacks and every   *)
(* number of commands, changes on the air and restarts.                    *)
(***************************************************************************)
EXTENDS WifiLink, TLAPS

\* Every variable of the monitor and of the SDK stays in its domain: a test of
\* the chain leads to another one or to the report, whatever status it reads.
THEOREM TypeCorrect == Spec => []TypeOK
<1>1. Init => TypeOK
  <2> SUFFICES ASSUME Init PROVE TypeOK
    OBVIOUS
  <2>1. ip = FALSE /\ attempt = FALSE /\ timer = FALSE /\ ipConfig = FALSE
    BY DEF Init
  <2>2. {ip, attempt, timer, ipConfig} \subseteq BOOLEAN
    BY <2>1
  <2>3. /\ status \in Statuses /\ air \in Outcomes
        /\ poll \in {"idle", "status", "report"} \cup Failed
        /\ {wifiStatus, lastWifiStatus, told} \subseteq Statuses
    BY DEF Init, Statuses
  <2>4. /\ {wifiCb, toldCb} \subseteq {0} \cup Callbacks
        /\ connects \in 0..MaxConnects /\ changes \in 0..MaxChanges
        /\ resets \in 0..MaxResets
    BY WifiBoundsAssumption DEF Init
  <2>5. QED
    BY <2>2, <2>3, <2>4 DEF TypeOK
<1>2. ASSUME TypeOK, Boot, connects' \in 0..MaxConnects, changes' \in 0..MaxChanges
      PROVE  TypeOK'
  <2>1. resets' \in 0..MaxResets /\ air' \in Outcomes
    BY <1>2, WifiBoundsAssumption DEF TypeOK, Boot
  <2>2. /\ ip' = FALSE /\ attempt' = FALSE /\ timer' = FALSE /\ ipConfig' = FALSE
        /\ status' = "IDLE" /\ poll' = "idle"
        /\ wifiStatus' = "IDLE" /\ lastWifiStatus' = "IDLE" /\ told' = "IDLE"
        /\ wifiCb' = 0 /\ toldCb' = 0
    BY <1>2 DEF Boot
  <2>3. {ip, attempt, timer, ipConfig}' \subseteq BOOLEAN
    BY <2>2
  <2>4. QED
    BY <1>2, <2>1, <2>2, <2>3 DEF TypeOK, Statuses
<1>3. TypeOK /\ [Next]_vars => TypeOK'
  <2> SUFFICES ASSUME TypeOK, [Next]_vars
               PROVE  TypeOK'
    OBVIOUS
  <2> USE DEF TypeOK, monitor, sdk, counters
  <2>1. CASE Sdk
    <3>1. CASE SdkJoining
      BY <2>1, <3>1 DEF SdkJoining, Statuses
    <3>2. CASE SdkResult
      <4>1. ip' \in BOOLEAN /\ attempt' \in BOOLEAN
        BY <3>2 DEF SdkResult
      <4>2. status' \in Statuses
        BY <3>2 DEF SdkResult, Statuses
      <4>3. UNCHANGED <<air, timer, poll, ipConfig, monitor, counters>>
        BY <3>2 DEF SdkResult
      <4>4. QED
        BY <4>1, <4>2, <4>3
    <3>3. QED
      BY <2>1, <3>1, <3>2 DEF Sdk
  <2>2. CASE AirChanges
    <3>1. changes' \in 0..MaxChanges /\ air' \in Outcomes
      BY <2>2, WifiBoundsAssumption DEF AirChanges
    <3>2. status' \in Statuses /\ ip' \in BOOLEAN /\ attempt' \in BOOLEAN
      BY <2>2 DEF AirChanges, Statuses
    <3>3. UNCHANGED <<timer, poll, ipConfig, monitor, connects, resets>>
      BY <2>2 DEF AirChanges
    <3>4. QED
      BY <3>1, <3>2, <3>3
  <2>3. CASE Command
    <3>1. PICK argc \in 0..2, callback \in {0} \cup Callbacks, fits \in BOOLEAN :
                 WIFI_Connect(argc, callback, fits)
      BY <2>3 DEF Command
    <3>2. connects' \in 0..MaxConnects /\ UNCHANGED changes
      BY <3>1, WifiBoundsAssumption DEF WIFI_Connect
    <3>3. CASE Boot
      BY <1>2, <3>2, <3>3
    <3>4. CASE UNCHANGED <<sdk, timer, poll, ipConfig, monitor, resets>>
      BY <3>2, <3>4
    <3>5. CASE /\ wifi_station_connect
               /\ wifiCb' = callback /\ air' \in Outcomes /\ timer' = TRUE
               /\ UNCHANGED <<poll, ipConfig, wifiStatus, lastWifiStatus, told, toldCb,
                              resets>>
      <4>1. status' \in Statuses /\ ip' \in BOOLEAN /\ attempt' \in BOOLEAN
        BY <3>5 DEF wifi_station_connect, Statuses
      <4>2. QED
        BY <3>2, <3>5, <4>1
    <3>6. QED
      BY <3>1, <3>3, <3>4, <3>5 DEF WIFI_Connect
  <2>4. CASE PollStart
    BY <2>4 DEF PollStart
  <2>5. CASE PollStatus
    BY <2>5 DEF PollStatus, Failed
  <2>6. CASE PollTest
    <3>1. NextTest[poll] \in {"NO_AP_FOUND", "CONNECT_FAIL", "report"}
      BY <2>6 DEF PollTest, NextTest, Failed
    <3>2. CASE status = poll
      BY <2>6, <3>2 DEF PollTest, wifi_station_connect, Statuses, Failed
    <3>3. CASE status # poll
      BY <2>6, <3>1, <3>3 DEF PollTest, Failed
    <3>4. QED
      BY <3>2, <3>3
  <2>7. CASE PollReport
    BY <2>7 DEF PollReport
  <2>8. CASE system_restart
    BY <1>2, <2>8 DEF system_restart
  <2>9. CASE UNCHANGED vars
    BY <2>9 DEF vars
  <2>10. QED
    BY <2>1, <2>2, <2>3, <2>4, <2>5, <2>6, <2>7, <2>8, <2>9 DEF Next, wifi_check_ip
<1>4. QED
  BY <1>1, <1>3, PTL DEF Spec

\* While wifi_check_ip runs, the host knows what the poll before saw; it runs
\* only after a command was accepted, as does the timer.
PollInv ==
  /\ poll \in {"idle", "status", "report"} \cup Failed
  /\ wifiCb \in {0} \cup Callbacks
  /\ told = lastWifiStatus
  /\ poll \in {"idle", "status"} => wifiStatus = lastWifiStatus
  /\ timer \/ poll # "idle" => wifiCb # 0
  /\ wifiCb # 0 => timer \/ poll \in {"status"} \cup Failed

LEMMA PollInvInductive == Spec => []PollInv
<1>1. Init => PollInv
  BY DEF Init, PollInv
<1>2. PollInv /\ [Next]_vars => PollInv'
  <2> SUFFICES ASSUME PollInv, [Next]_vars
               PROVE  PollInv'
    OBVIOUS
  <2> USE DEF PollInv, monitor
  <2>1. CASE Sdk
    BY <2>1 DEF Sdk, SdkJoining, SdkResult
  <2>2. CASE AirChanges
    BY <2>2 DEF AirChanges
  <2>3. CASE Command
    <3>1. PICK argc \in 0..2, callback \in {0} \cup Callbacks, fits \in BOOLEAN :
                 WIFI_Connect(argc, callback, fits)
      BY <2>3 DEF Command
    <3>2. CASE Boot
      BY <3>2 DEF Boot
    <3>3. CASE UNCHANGED <<sdk, timer, poll, ipConfig, monitor, resets>>
      BY <3>3
    <3>4. CASE /\ callback # 0 /\ wifiCb' = callback /\ timer' = TRUE
               /\ UNCHANGED <<poll, wifiStatus, lastWifiStatus, told>>
      BY <3>1, <3>4 DEF WIFI_Connect
    <3>5. QED
      BY <3>1, <3>2, <3>3, <3>4 DEF WIFI_Connect
  <2>4. CASE PollStart
    BY <2>4 DEF PollStart
  <2>5. CASE PollStatus
    <3>1. /\ poll = "status" /\ wifiCb # 0
          /\ told' = lastWifiStatus' /\ wifiCb' = wifiCb
      BY <2>5 DEF PollStatus
    <3>2. \/ poll' = "report" /\ timer' = TRUE
          \/ poll' = "WRONG_PASSWORD"
      BY <2>5 DEF PollStatus
    <3>3. QED
      BY <3>1, <3>2 DEF Failed
  <2>6. CASE PollTest
    <3>1. /\ poll \in Failed /\ poll # "idle"
          /\ UNCHANGED <<wifiCb, wifiStatus, lastWifiStatus, told>>
      BY <2>6 DEF PollTest, Failed
    <3>2. \/ poll' = "report" /\ timer' = TRUE
          \/ poll' = NextTest[poll] /\ timer' = (poll' = "report")
      BY <2>6 DEF PollTest
    <3>3. NextTest[poll] \in {"NO_AP_FOUND", "CONNECT_FAIL", "report"}
      BY <3>1 DEF NextTest, Failed
    <3>4. QED
      BY <3>1, <3>2, <3>3 DEF Failed
  <2>7. CASE PollReport
    \* wifiCb is set, so a status that differs is sent.
    <3>1. wifiCb # 0 /\ timer
      BY <2>7 DEF PollReport, Failed
    <3>2. told' = wifiStatus /\ lastWifiStatus' = wifiStatus
      BY <2>7, <3>1 DEF PollReport
    <3>3. QED
      BY <2>7, <3>1, <3>2 DEF PollReport
  <2>8. CASE system_restart
    BY <2>8 DEF system_restart, Boot
  <2>9. CASE UNCHANGED vars
    BY <2>9 DEF vars
  <2>10. QED
    BY <2>1, <2>2, <2>3, <2>4, <2>5, <2>6, <2>7, <2>8, <2>9 DEF Next, wifi_check_ip
<1>3. QED
  BY <1>1, <1>2, PTL DEF Spec

\* The monitor never dies while the chip runs: from the first accepted
\* CMD_WIFI_CONNECT of a boot on, WiFiLinker is armed or a poll is on the way to
\* a branch that arms it.
THEOREM MonitorNeverDies == Spec => []MonitorAlive
<1>1. PollInv => MonitorAlive
  BY DEF PollInv, MonitorAlive
<1>2. QED
  BY <1>1, PollInvInductive, PTL

\* Between two polls the host has heard in this boot what the last poll saw,
\* whatever commands came in between, rejected ones and such as overrun the
\* stack and restart the chip included.
THEOREM HostIsCurrent == Spec => []HostKnowsLastPoll
<1>1. PollInv => HostKnowsLastPoll
  BY DEF PollInv, HostKnowsLastPoll
<1>2. QED
  BY <1>1, PollInvInductive, PTL

\* Within a boot every event is news: it differs from the one before, and
\* carries the status read by the poll that sends it and the callback of the
\* last accepted command.
THEOREM EventsAreNews == Spec => EventIsNews
<1> DEFINE News == <<told, toldCb>>' # <<told, toldCb>> /\ resets' = resets =>
                     told' # told /\ told' = wifiStatus /\ toldCb' = wifiCb
<1>1. TypeOK /\ PollInv /\ [Next]_vars => [News]_vars
  <2> SUFFICES ASSUME TypeOK, PollInv, Next
               PROVE  News
    BY DEF vars
  <2>1. CASE PollReport
    BY <2>1 DEF PollReport, PollInv
  <2>2. CASE Boot
    <3>1. resets \in Nat /\ resets' = resets + 1
      BY <2>2, WifiBoundsAssumption DEF Boot, TypeOK
    <3>2. resets' # resets
      BY <3>1
    <3>3. QED
      BY <3>2
  <2>3. CASE ~PollReport /\ ~Boot
    <3>1. UNCHANGED <<told, toldCb>>
      BY <2>3 DEF Next, Sdk, SdkJoining, SdkResult, AirChanges, Command,
                  WIFI_Connect, wifi_check_ip, PollStart, PollStatus, PollTest,
                  system_restart, monitor
    <3>2. QED
      BY <3>1
  <2>4. QED
    BY <2>1, <2>2, <2>3
<1>2. QED
  BY <1>1, TypeCorrect, PollInvInductive, PTL DEF Spec, EventIsNews
=============================================================================
