---------------------------- MODULE WifiManager ----------------------------
(***************************************************************************)
(* The WiFi connection manager (sw_services/wifi_manager/FreeRTOS/         *)
(* wifi_connection_mgr.c) on top of the WF200 driver (drivers/wifi/        *)
(* sl_wf200/FreeRTOS/sl_wfx_iot_wifi.c).                                   *)
(*                                                                         *)
(* Four actors: the manager task, an application task that calls           *)
(* wifi_conn_mgr_disconnect_from_ap() and wifi_conn_mgr_stop_soft_ap(),    *)
(* the bus task that runs the module's callbacks, and the IP task that     *)
(* passes on the network down event.  They share the driver's event group  *)
(* and its recursive lock.  The driver treats the station link and the     *)
(* soft AP in the same way, so the event bits are sets of roles:           *)
(*                                                                         *)
(*    up      SL_WFX_CONNECT       SL_WFX_START_AP                         *)
(*    downed  SL_WFX_DISCONNECT    SL_WFX_STOP_AP                          *)
(*    failed  SL_WFX_CONNECT_FAIL  SL_WFX_START_AP_FAIL                    *)
(*                                                                         *)
(* A command returns when the bus task has processed its confirmation, so  *)
(* after every callback that was under way before.  Which access points    *)
(* there are and which one is tried next is left to ApCache.               *)
(***************************************************************************)
EXTENDS Integers

CONSTANTS WmTries,    \* connection attempts of one round of the manager
          WmAppCalls, \* driver calls the application makes
          WmFaults    \* links the module loses and resets it asks for

ASSUME WmAssumption == {WmTries, WmAppCalls, WmFaults} \subseteq Nat

Roles   == {"sta", "ap"}
Callers == {"mgr", "app"}

VARIABLES
  wmUp, wmDowned, wmFailed, \* the event group
  wifi_lock,                \* the caller that holds the recursive lock, or "free"
  wifi_mode,                \* the driver's mode
  wmAt,                     \* where each caller is
  wmCall,                   \* the driver call it is in
  wmOk,                     \* what its last call or inner call returned
  wmLink,                   \* the role the module is up in, or "none"
  wmAsked,                  \* the command the module has not answered
  wmCallback,               \* the callback the bus task is in
  wmIpDown,                 \* a network down event on its way in the IP task
  wmNotified,               \* the manager's task notification bits
  wmMode, connected_ap,     \* the manager's mode, and whether it holds an AP
  initiate_disconnect,
  wmTried, wmAppLeft, wmFaultsLeft,
  wmSilent                  \* the application's own call has reset the
                            \* module while the link was up

wmDriver  == <<wmUp, wmDowned, wmFailed, wifi_mode>>
wmModule  == <<wmLink, wmAsked, wmCallback>>
wmManager == <<wmMode, connected_ap, initiate_disconnect, wmTried>>
wmBounds  == <<wmAppLeft, wmFaultsLeft>>
wmVars    == <<wmDriver, wmModule, wmManager, wmBounds, wifi_lock, wmAt, wmCall,
               wmOk, wmIpDown, wmNotified, wmSilent>>

NoCall == [op |-> "none", role |-> "sta", then |-> "top"]
Quiet  == [kind |-> "none", role |-> "sta", step |-> 0, had |-> FALSE]
Idle   == <<"none", "sta">>

Other(r) == CHOOSE q \in Roles : q # r

WmInit ==
  /\ wmUp = {} /\ wmDowned = {} /\ wmFailed = {}
  /\ wifi_lock = "free" /\ wifi_mode = "sta"
  /\ wmAt = [c \in Callers |-> IF c = "mgr" THEN "top" ELSE "idle"]
  /\ wmCall = [c \in Callers |-> NoCall]
  /\ wmOk = [c \in Callers |-> FALSE]
  /\ wmLink = "none" /\ wmAsked = Idle /\ wmCallback = Quiet
  /\ wmIpDown = FALSE /\ wmNotified = {}
  /\ wmMode \in Roles /\ connected_ap = FALSE /\ initiate_disconnect = FALSE
  /\ wmTried = 0 /\ wmAppLeft = WmAppCalls /\ wmFaultsLeft = WmFaults
  /\ wmSilent = FALSE

(***************************************************************************)
(* The driver's calls.  "up" is WIFI_ConnectAP or WIFI_StartAP, "down" is  *)
(* WIFI_Disconnect or WIFI_StopAP, "reset" WIFI_Reset and "ask"            *)
(* WIFI_IsConnected.                                                       *)
(***************************************************************************)
WmGoto(c, l) == wmAt' = [wmAt EXCEPT ![c] = l]

Enter(c, op, role, then) ==
  /\ WmGoto(c, "lock")
  /\ wmCall' = [wmCall EXCEPT ![c] = [op |-> op, role |-> role, then |-> then]]

\* The call returns ok to its caller and gives the lock back.
Leave(c, ok) ==
  /\ WmGoto(c, wmCall[c].then)
  /\ wmOk' = [wmOk EXCEPT ![c] = ok]
  /\ wmCall' = [wmCall EXCEPT ![c] = NoCall]
  /\ wifi_lock' = "free"

WIFI_GetLock(c) ==
  /\ wmAt[c] = "lock"
  /\ wifi_lock = "free"
  /\ wifi_lock' = c
  /\ WmGoto(c, "begin")
  /\ UNCHANGED <<wmDriver, wmModule, wmManager, wmBounds, wmCall, wmOk,
                 wmIpDown, wmNotified, wmSilent>>

WIFI_GetLock_timeout(c) ==
  /\ wmAt[c] = "lock"
  /\ wifi_lock # "free"
  /\ WmGoto(c, wmCall[c].then)
  /\ wmOk' = [wmOk EXCEPT ![c] = FALSE]
  /\ wmCall' = [wmCall EXCEPT ![c] = NoCall]
  /\ UNCHANGED <<wmDriver, wmModule, wmManager, wmBounds, wifi_lock,
                 wmIpDown, wmNotified, wmSilent>>

\* WIFI_Off and WIFI_On: the module starts again and all event bits are
\* cleared, and nobody is told that a link has gone.
WIFI_Reset(c) ==
  /\ wmCallback = Quiet
  /\ wmUp' = {} /\ wmDowned' = {} /\ wmFailed' = {}
  /\ wifi_mode' = "sta"
  /\ wmLink' = "none" /\ wmAsked' = Idle
  /\ wmSilent' = (wmSilent \/ (c = "app" /\ "sta" \in wmUp))
  /\ UNCHANGED wmCallback

\* The decisions under the lock: the mode, then whether a link has to be
\* taken down first.
WmBegin(c) ==
  LET call == wmCall[c] IN
  /\ wmAt[c] = "begin"
  /\ \/ /\ call.op = "down"
        /\ IF call.role \in wmUp
           THEN WmGoto(c, "tear") /\ UNCHANGED <<wmOk, wmCall, wifi_lock>>
           ELSE Leave(c, TRUE)
        /\ UNCHANGED wifi_mode
     \/ /\ call.op = "up"
        /\ wifi_mode # call.role
        /\ IF Other(call.role) \in wmUp
           THEN WmGoto(c, "tear") /\ UNCHANGED wifi_mode
           ELSE wifi_mode' = call.role /\ UNCHANGED wmAt
        /\ UNCHANGED <<wmOk, wifi_lock, wmCall>>
     \/ /\ call.op = "up"
        /\ wifi_mode = call.role
        /\ WmGoto(c, IF call.role \in wmUp THEN "tear" ELSE "send")
        /\ UNCHANGED <<wmOk, wifi_lock, wifi_mode, wmCall>>
     \/ /\ call.op = "ask"
        /\ Leave(c, wmUp # {})
        /\ UNCHANGED wifi_mode
  /\ UNCHANGED <<wmUp, wmDowned, wmFailed, wmModule, wmManager, wmBounds,
                 wmIpDown, wmNotified, wmSilent>>

ResetCall(c) ==
  /\ wmAt[c] = "begin"
  /\ wmCall[c].op = "reset"
  /\ WIFI_Reset(c)
  /\ Leave(c, TRUE)
  /\ UNCHANGED <<wmManager, wmBounds, wmIpDown, wmNotified>>

\* The role a caller takes down: its own, or the other one on a change of mode.
Tearing(c) ==
  IF wmCall[c].op = "up" /\ wifi_mode # wmCall[c].role
  THEN Other(wmCall[c].role) ELSE wmCall[c].role

\* sl_wfx_send_disconnect_command and sl_wfx_stop_ap_command: accepted, in
\* the wrong state (the link went meanwhile), or lost on the bus.
SendDown(c) ==
  /\ wmAt[c] = "tear"
  /\ wmCallback = Quiet
  /\ \/ /\ wmLink = Tearing(c)
        /\ wmAsked' = <<"down", Tearing(c)>>
        /\ WmGoto(c, "tearing")
        /\ UNCHANGED <<wmDriver, wmLink, wmCallback, wmSilent, wmOk, wmCall,
                       wifi_lock>>
     \/ /\ wmLink # Tearing(c)
        /\ WIFI_Reset(c)
        /\ Leave(c, FALSE)
     \/ /\ Leave(c, FALSE)
        /\ UNCHANGED <<wmDriver, wmModule, wmSilent>>
  /\ UNCHANGED <<wmManager, wmBounds, wmIpDown, wmNotified>>

\* The end of the inner WIFI_Disconnect or WIFI_StopAP: the bit has come
\* and is taken, or the wait has timed out.
Torn(c) ==
  /\ wmAt[c] = "tearing"
  /\ Tearing(c) \in wmDowned
  /\ wmDowned' = wmDowned \ {Tearing(c)}
  /\ IF wmCall[c].op = "down"
     THEN Leave(c, TRUE) /\ UNCHANGED wifi_mode
     ELSE /\ WmGoto(c, IF wifi_mode = wmCall[c].role THEN "send" ELSE "begin")
          /\ wifi_mode' = wmCall[c].role
          /\ UNCHANGED <<wmOk, wmCall, wifi_lock>>
  /\ UNCHANGED <<wmUp, wmFailed, wmModule, wmManager, wmBounds,
                 wmIpDown, wmNotified, wmSilent>>

TearTimeout(c) ==
  /\ wmAt[c] = "tearing"
  /\ Tearing(c) \notin wmDowned
  /\ WIFI_Reset(c)
  /\ Leave(c, FALSE)
  /\ UNCHANGED <<wmManager, wmBounds, wmIpDown, wmNotified>>

\* sl_wfx_send_join_command and sl_wfx_start_ap_command.
SendUp(c) ==
  /\ wmAt[c] = "send"
  /\ wmCallback = Quiet
  /\ \/ /\ wmFailed' = wmFailed \ {wmCall[c].role}
        /\ wmAsked' = <<"up", wmCall[c].role>>
        /\ WmGoto(c, "joining")
        /\ UNCHANGED <<wmUp, wmDowned, wifi_mode, wmLink, wmCallback, wmSilent,
                       wmOk, wmCall, wifi_lock>>
     \/ /\ WIFI_Reset(c)
        /\ Leave(c, FALSE)
     \/ /\ wmFailed' = wmFailed \ {wmCall[c].role}
        /\ Leave(c, FALSE)
        /\ UNCHANGED <<wmUp, wmDowned, wifi_mode, wmModule, wmSilent>>
  /\ UNCHANGED <<wmManager, wmBounds, wmIpDown, wmNotified>>

\* The bits are read and not taken; a success outweighs a failure.
Joined(c) ==
  /\ wmAt[c] = "joining"
  /\ wmCall[c].role \in wmUp \cup wmFailed
  /\ Leave(c, wmCall[c].role \in wmUp)
  /\ UNCHANGED <<wmDriver, wmModule, wmManager, wmBounds, wmIpDown, wmNotified,
                 wmSilent>>

JoinTimeout(c) ==
  /\ wmAt[c] = "joining"
  /\ wmCall[c].role \notin wmUp \cup wmFailed
  /\ WIFI_Reset(c)
  /\ Leave(c, FALSE)
  /\ UNCHANGED <<wmManager, wmBounds, wmIpDown, wmNotified>>

DriverCall(c) ==
  \/ WIFI_GetLock(c) \/ WIFI_GetLock_timeout(c)
  \/ WmBegin(c) \/ ResetCall(c)
  \/ SendDown(c) \/ Torn(c) \/ TearTimeout(c)
  \/ SendUp(c) \/ Joined(c) \/ JoinTimeout(c)

(***************************************************************************)
(* The module and the bus task.                                            *)
(***************************************************************************)
Callback(kind, role) ==
  wmCallback' = [kind |-> kind, role |-> role, step |-> 1, had |-> FALSE]

Answer ==
  /\ wmCallback = Quiet
  /\ wmAsked # Idle
  /\ wmAsked' = Idle
  /\ \/ wmAsked[1] = "up" /\ wmLink' = wmAsked[2] /\ Callback("up", wmAsked[2])
     \/ wmAsked[1] = "up" /\ UNCHANGED wmLink /\ Callback("fail", wmAsked[2])
     \/ wmAsked[1] = "down" /\ wmLink' = "none" /\ Callback("down", wmAsked[2])
  /\ UNCHANGED <<wmDriver, wmManager, wmBounds, wifi_lock, wmAt, wmCall, wmOk,
                 wmIpDown, wmNotified, wmSilent>>

LinkLost ==
  /\ wmCallback = Quiet
  /\ wmLink = "sta"
  /\ wmFaultsLeft > 0
  /\ wmFaultsLeft' = wmFaultsLeft - 1
  /\ wmLink' = "none" /\ wmAsked' = Idle
  /\ Callback("down", "sta")
  /\ UNCHANGED <<wmDriver, wmManager, wmAppLeft, wifi_lock, wmAt, wmCall, wmOk,
                 wmIpDown, wmNotified, wmSilent>>

NextStep == wmCallback' = [wmCallback EXCEPT !.step = @ + 1]

\* Mutant: the callback for a new link leaves the bit of an old disconnection set.
UpCallbackOnly(r) ==
  /\ wmCallback.kind = "up"
  /\ wmCallback.role = r
  /\ \/ wmCallback.step = 1 /\ wmUp' = wmUp \cup {r} /\ NextStep
        /\ UNCHANGED wmDowned
     \/ wmCallback.step = 2 /\ wmCallback' = Quiet /\ UNCHANGED <<wmUp, wmDowned>>
  /\ UNCHANGED <<wmFailed, wmIpDown>>

\* sl_wfx_connect_callback and sl_wfx_start_ap_callback with a success: the
\* one bit is set, then the other is cleared.
UpCallback(r) ==
  /\ wmCallback.kind = "up"
  /\ wmCallback.role = r
  /\ \/ wmCallback.step = 1 /\ wmUp' = wmUp \cup {r} /\ NextStep
        /\ UNCHANGED wmDowned
     \/ wmCallback.step = 2 /\ wmDowned' = wmDowned \ {r} /\ wmCallback' = Quiet
        /\ UNCHANGED wmUp
  /\ UNCHANGED <<wmFailed, wmIpDown>>

\* Mutant: the callback looks at the event bits after it has cleared its own.
ClearUpThenLook(r) ==
  /\ wmUp' = wmUp \ {r}
  /\ wmCallback' = [wmCallback EXCEPT !.step = 2, !.had = FALSE]

\* The bit is cleared; its old value tells whether the network goes down.
ClearUp(r) ==
  /\ wmUp' = wmUp \ {r}
  /\ wmCallback' = [wmCallback EXCEPT !.step = 2, !.had = r \in wmUp]

\* The same callbacks with a failure.
FailCallback(r) ==
  /\ wmCallback.kind = "fail"
  /\ wmCallback.role = r
  /\ \/ wmCallback.step = 1 /\ ClearUp(r) /\ UNCHANGED <<wmFailed, wmIpDown>>
     \/ /\ wmCallback.step = 2 /\ NextStep
        /\ wmIpDown' = (wmIpDown \/ wmCallback.had)
        /\ UNCHANGED <<wmUp, wmFailed>>
     \/ wmCallback.step = 3 /\ wmFailed' = wmFailed \cup {r} /\ wmCallback' = Quiet
        /\ UNCHANGED <<wmUp, wmIpDown>>
  /\ UNCHANGED wmDowned

\* sl_wfx_disconnect_callback and sl_wfx_stop_ap_callback.
DownCallback(r) ==
  /\ wmCallback.kind = "down"
  /\ wmCallback.role = r
  /\ \/ wmCallback.step = 1 /\ ClearUp(r) /\ UNCHANGED <<wmDowned, wmIpDown>>
     \/ wmCallback.step = 2 /\ wmDowned' = wmDowned \cup {r} /\ NextStep
        /\ UNCHANGED <<wmUp, wmIpDown>>
     \/ wmCallback.step = 3 /\ wmCallback' = Quiet
        /\ wmIpDown' = (wmIpDown \/ wmCallback.had)
        /\ UNCHANGED <<wmUp, wmDowned>>
  /\ UNCHANGED wmFailed

BusTask ==
  /\ \E r \in Roles : UpCallback(r) \/ FailCallback(r) \/ DownCallback(r)
  /\ UNCHANGED <<wifi_mode, wmLink, wmAsked, wmManager, wmBounds, wifi_lock, wmAt,
                 wmCall, wmOk, wmNotified, wmSilent>>

\* wifi_conn_mgr_network_event, called by the IP task.
wifi_conn_mgr_network_event ==
  /\ wmIpDown
  /\ wmIpDown' = FALSE
  /\ wmNotified' = wmNotified \cup {"down"}
  /\ UNCHANGED <<wmDriver, wmModule, wmManager, wmBounds, wifi_lock, wmAt, wmCall,
                 wmOk, wmSilent>>

sl_wfx_reset_request_callback ==
  /\ wmFaultsLeft > 0
  /\ wmFaultsLeft' = wmFaultsLeft - 1
  /\ wmNotified' = wmNotified \cup {"reset"}
  /\ UNCHANGED <<wmDriver, wmModule, wmManager, wmAppLeft, wifi_lock, wmAt, wmCall,
                 wmOk, wmIpDown, wmSilent>>

(***************************************************************************)
(* The application.  A retry after a failure is one more of its calls.     *)
(***************************************************************************)
Application ==
  /\ wmAt["app"] = "idle"
  /\ wmAppLeft > 0
  /\ wmAppLeft' = wmAppLeft - 1
  /\ \E r \in Roles : Enter("app", "down", r, "idle")
  /\ \E updated \in SUBSET {"profiles"} : wmNotified' = wmNotified \cup updated
  /\ UNCHANGED <<wmDriver, wmModule, wmManager, wmFaultsLeft, wifi_lock, wmOk,
                 wmIpDown, wmSilent>>

(***************************************************************************)
(* The manager's loop.                                                     *)
(***************************************************************************)
\* Connect when there is no connection, or leave a poor one for a better.
Top ==
  /\ wmAt["mgr"] = "top"
  /\ wmTried' = 0
  /\ \/ /\ wmMode = "sta" /\ ~ connected_ap
        /\ WmGoto("mgr", "try")
        /\ initiate_disconnect' = FALSE
        /\ UNCHANGED connected_ap
     \/ /\ wmMode = "sta" /\ connected_ap
        /\ WmGoto("mgr", "try")
        /\ initiate_disconnect' = TRUE
        /\ connected_ap' = FALSE
     \/ /\ wmMode = "ap" \/ connected_ap
        /\ WmGoto("mgr", "soft")
        /\ initiate_disconnect' = FALSE
        /\ UNCHANGED connected_ap
  /\ UNCHANGED <<wmMode, wmCall, wmOk>>

Try ==
  /\ wmAt["mgr"] = "try"
  /\ wmTried < WmTries
  /\ wmTried' = wmTried + 1
  /\ Enter("mgr", "up", "sta", "tried")
  /\ UNCHANGED <<wmMode, connected_ap, initiate_disconnect, wmOk>>

Tried ==
  /\ wmAt["mgr"] = "tried"
  /\ connected_ap' = wmOk["mgr"]
  /\ WmGoto("mgr", IF wmOk["mgr"] THEN "soft" ELSE "try")
  /\ UNCHANGED <<wmMode, initiate_disconnect, wmTried, wmCall, wmOk>>

\* No access point is left to try; after some rounds the application is
\* asked for the mode.
GiveUp ==
  /\ wmAt["mgr"] = "try"
  /\ wmMode' \in Roles
  /\ WmGoto("mgr", "soft")
  /\ UNCHANGED <<connected_ap, initiate_disconnect, wmTried, wmCall, wmOk>>

SoftAp ==
  /\ wmAt["mgr"] = "soft"
  /\ IF wmMode = "ap" THEN Enter("mgr", "ask", "ap", "soft_asked")
     ELSE WmGoto("mgr", "wait") /\ UNCHANGED wmCall
  /\ UNCHANGED <<wmManager, wmOk>>

\* WIFI_StartAP is repeated until it succeeds.
SoftApAsked ==
  /\ wmAt["mgr"] \in {"soft_asked", "soft_started"}
  /\ IF wmOk["mgr"] THEN WmGoto("mgr", "wait") /\ UNCHANGED wmCall
     ELSE Enter("mgr", "up", "ap", "soft_started")
  /\ UNCHANGED <<wmManager, wmOk>>

\* The outcome of WIFI_IsConnected after a network down event.
DownAsked ==
  /\ wmAt["mgr"] = "down_asked"
  /\ WmGoto("mgr", "top")
  /\ IF wmOk["mgr"] THEN UNCHANGED <<wmMode, connected_ap>>
     ELSE /\ IF wmMode = "sta" /\ initiate_disconnect THEN wmMode' = wmMode
             ELSE wmMode' \in Roles
          /\ connected_ap' = (connected_ap /\ wmMode = "ap" /\ wmMode' = "ap")
  /\ UNCHANGED <<initiate_disconnect, wmTried, wmCall, wmOk>>

ResetDone ==
  /\ wmAt["mgr"] = "reset_done"
  /\ WmGoto("mgr", "top")
  /\ connected_ap' = FALSE
  /\ UNCHANGED <<wmMode, initiate_disconnect, wmTried, wmCall, wmOk>>

\* xTaskNotifyWait takes all bits; a reset makes it forget the others.
NotifyWait ==
  /\ wmAt["mgr"] = "wait"
  /\ wmNotified' = {}
  /\ IF "reset" \in wmNotified THEN Enter("mgr", "reset", "sta", "reset_done")
     ELSE IF "down" \in wmNotified THEN Enter("mgr", "ask", "sta", "down_asked")
     ELSE WmGoto("mgr", "top") /\ UNCHANGED wmCall
  /\ UNCHANGED <<wmManager, wmOk>>

Manager ==
  /\ \/ /\ Top \/ Try \/ Tried \/ GiveUp \/ SoftAp \/ SoftApAsked \/ DownAsked \/ ResetDone
        /\ UNCHANGED wmNotified
     \/ NotifyWait
  /\ UNCHANGED <<wmDriver, wmModule, wmBounds, wifi_lock, wmIpDown, wmSilent>>

WmNext ==
  \/ \E c \in Callers : DriverCall(c)
  \/ Answer \/ LinkLost \/ BusTask
  \/ wifi_conn_mgr_network_event \/ sl_wfx_reset_request_callback
  \/ Application \/ Manager

\* The module answers what it took and the bus thread hands it on; the network
\* stack, the manager and an application inside a call go on.
WmFairness ==
  /\ WF_wmVars(Answer \/ BusTask) /\ WF_wmVars(wifi_conn_mgr_network_event)
  /\ WF_wmVars(Manager \/ DriverCall("mgr")) /\ WF_wmVars(DriverCall("app"))

WmSpec == WmInit /\ [][WmNext]_wmVars /\ WmFairness

(***************************************************************************)
(* Properties.                                                             *)
(***************************************************************************)
\* The configASSERTs of WIFI_ConnectAP (482) and WIFI_StartAP (1116): when a
\* link is asked for, the bit that says it is up is clear, although the
\* bit was read, and the old link taken down, some waits earlier.
WifiAskedWhenDown ==
  \A c \in Callers : wmAt[c] = "send" => wmCall[c].role \notin wmUp

\* The manager is about to hear that its link has gone.
Announced ==
  \/ wmCallback.kind \in {"down", "fail"} /\ wmCallback.had
  \/ wmIpDown
  \/ wmNotified \cap {"down", "reset"} # {}

\* A lost link is never forgotten: while the manager waits believing that
\* it is connected and the link is down, the news is on its way, whatever
\* it ignored before as superfluous.  The one exception is an application
\* whose own disconnection timed out and reset the module: a reset clears
\* the bit and tells nobody.
WifiLossAnnounced ==
  (wmAt["mgr"] = "wait" /\ wmMode = "sta" /\ connected_ap /\ "sta" \notin wmUp)
    => Announced \/ wmSilent

\* The manager holds on to a link that is down.
WmStranded == connected_ap /\ wmMode = "sta" /\ "sta" \notin wmUp /\ ~ wmSilent
=============================================================================
