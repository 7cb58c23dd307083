------------------------------- MODULE UsbDevice ------------------------------
(* The USB device of the board and the host that enumerates it: usb_task.c,   *)
(* usb_device_task.c, usb_standard_request.c and usb_specific_request.c.      *)
(*                                                                            *)
(* An interrupt is part of the event that raises it, since no task runs       *)
(* before it; usb_task (priority 3) is woken by VBUS going off and deletes    *)
(* and creates the device task (priority 2), which looks for events every     *)
(* 20 ms and serves requests with loops that wait for the host.  A descriptor *)
(* is counted in packets of the control endpoint: that of the configuration   *)
(* has 65 bytes and takes two, the others take one, and none ends with a full *)
(* packet, so that no empty one is sent.                                      *)
EXTENDS Integers

CONSTANTS
  Requests,   \* what the host asks once the board is configured
  MaxPackets  \* of the longest descriptor

VARIABLES
  plugged, \* VBUS
  step,    \* how far the host is with the enumeration
  asks,    \* the request it has sent last
  stage,   \* of that request: setup (and data), status, or none
  want,    \* packets the host has yet to read
  read,    \* and whether it has read one
  haddr,   \* the address it sends to: 0, or 1 once it has set it
  ep,      \* flags of the control endpoint; "in": a packet waits for the host
  uadd,    \* UADD, the address register
  addrEn,  \* ADDEN, whether the board answers to it
  mode,    \* controller: off, on, attached
  left,    \* data_to_transfer, in packets
  data,    \* the data endpoints are enabled
  halted,  \* a data endpoint answers with STALL
  usb_connected, usb_configuration_nb,
  event,   \* EVT_USB_RESET
  semphr,  \* usb_tsk_semphr
  usb,     \* where usb_task is
  dev,     \* where the device task is, or none
  gaveUp,  \* history: since the board was plugged in the host has left a request
           \* alone that the device task was still waiting to finish
  raced    \* history: VBUS came on just before usb_task disabled the controller
host == <<step, asks, stage, want, read, haddr>>
task == <<usb_connected, usb_configuration_nb, event>>
ctrl == <<ep, uadd, addrEn, data, halted>>
ghosts == <<gaveUp, raced>>
vars == <<plugged, host, ctrl, left, mode, task, semphr, usb, dev, ghosts>>

Reads == {"get_descriptor", "get_configuration", "get_status", "get_interface"}
NoData == {"set_address", "set_configuration", "set_feature", "clear_feature", "set_interface"}
Unsupported == {"unsupported"}
Sequence == [reset |-> "desc0", desc0 |-> "reset2", reset2 |-> "addr", addr |-> "desc",
             desc |-> "conf", conf |-> "ready", ready |-> "ready"]

ASSUME RequestsAssumption == MaxPackets \in Nat \ {0} /\ Requests \subseteq (Reads \cup NoData \cup Unsupported) \ {"set_address"}

Flags == {"setup", "out", "nakOut", "in", "stall"}

TypeOK ==
  /\ plugged \in BOOLEAN /\ addrEn \in BOOLEAN /\ read \in BOOLEAN /\ data \in BOOLEAN
  /\ halted \in BOOLEAN /\ usb_connected \in BOOLEAN /\ event \in BOOLEAN
  /\ semphr \in BOOLEAN /\ gaveUp \in BOOLEAN /\ raced \in BOOLEAN
  /\ step \in DOMAIN Sequence /\ stage \in {"none", "setup", "status"}
  /\ want \in 0..MaxPackets /\ left \in 0..MaxPackets
  /\ asks \in Reads \cup NoData \cup Unsupported
  /\ haddr \in {0, 1} /\ uadd \in {0, 1} /\ usb_configuration_nb \in {0, 1}
  /\ ep \in SUBSET Flags
  /\ mode \in {"off", "on", "attached"}
  /\ usb \in {"wait", "delete", "forget", "disable", "enable", "create"}
  /\ dev \in {"none", "sleep", "reset", "setup", "data", "naked", "out", "address",
              "endpoints", "sent"}

-------------------------------------------------------------------------------
(* The bus *)

(* The reset of the bus, in the controller, and its interrupt *)
Cleared == ep' = {} /\ uadd' = 0 /\ addrEn' = FALSE /\ data' = FALSE /\ halted' = FALSE
BusReset ==
  /\ Cleared
  /\ event' = TRUE
  /\ UNCHANGED <<usb_connected, usb_configuration_nb>>

(* The host sees a board that is attached, and resets the bus; it resets it   *)
(* again after the first look at the descriptor.  A reset takes away the flag *)
(* a handler waits for, when it comes before the handler has seen it.         *)
Waiting == dev \in {"data", "naked", "out"}
HostResets ==
  /\ mode = "attached" /\ plugged /\ stage = "none" /\ step \in {"reset", "reset2"}
  /\ BusReset
  /\ step' = Sequence[step]
  /\ haddr' = 0
  /\ UNCHANGED <<plugged, asks, stage, want, read, left, mode, semphr, usb, dev, raced>>
  /\ gaveUp' = (gaveUp \/ (step # "reset" /\ Waiting))

(* A driver may reset a configured board, to start all over. *)
HostResetsDevice ==
  /\ mode = "attached" /\ plugged /\ stage = "none" /\ step = "ready"
  /\ BusReset
  /\ step' = "desc0" /\ haddr' = 0
  /\ UNCHANGED <<plugged, asks, stage, want, read, left, mode, semphr, usb, dev, raced>>
  /\ gaveUp' = (gaveUp \/ Waiting)

Asked(s) ==
  CASE s \in {"desc0", "desc"} -> {"get_descriptor"}
    [] s = "addr" -> {"set_address"}
    [] s = "conf" -> {"set_configuration"}
    [] s = "ready" -> Requests
    [] OTHER -> {}

(* A SETUP the board answers to; until it does the host sends it again. *)
Address == IF addrEn THEN uadd ELSE 0
HostAsks ==
  /\ mode = "attached" /\ plugged /\ stage = "none" /\ haddr = Address
  /\ \E r \in Asked(step) : asks' = r
  /\ \E n \in 1..MaxPackets :
       /\ n > 1 => step \in {"desc", "ready"} /\ asks' = "get_descriptor"
       /\ want' = n
  /\ read' = FALSE
  /\ stage' = "setup"
  /\ ep' = (ep \ {"stall"}) \cup {"setup"}
  /\ UNCHANGED <<plugged, step, haddr, uadd, addrEn, data, halted, left, mode, task, semphr, usb, dev, ghosts>>

HostDone ==
  /\ stage' = "none"
  /\ step' = Sequence[step]
  /\ haddr' = IF asks = "set_address" THEN 1 ELSE haddr

(* IN: a packet of a read (all but a descriptor have one), or the status of a *)
(* request without data                                                       *)
HostIn ==
  /\ stage = "setup" /\ "in" \in ep /\ mode = "attached" /\ haddr = Address
  /\ ep' = ep \ {"in"}
  /\ IF asks \in Reads
     THEN /\ want > 0 /\ want' = want - 1 /\ read' = TRUE
          /\ UNCHANGED <<stage, step, haddr>>
     ELSE HostDone /\ UNCHANGED <<want, read>>
  /\ UNCHANGED <<plugged, asks, uadd, addrEn, data, halted, left, mode, task, semphr, usb, dev, ghosts>>

(* OUT, the status of a read: the controller answers NAK the first time, and  *)
(* drops what was to be sent.  A host may also end a long read early.         *)
HostOut ==
  /\ mode = "attached" /\ haddr = Address
  /\ \/ /\ stage = "setup" /\ asks \in Reads
        /\ want = 0 \/ (step = "ready" /\ read)
        /\ ep' = (ep \ {"in"}) \cup {"nakOut"}
        /\ stage' = "status" /\ UNCHANGED <<step, haddr>>
     \/ /\ stage = "status"
        /\ ep' = ep \cup {"out"}
        /\ HostDone
  /\ UNCHANGED <<plugged, asks, want, read, uadd, addrEn, data, halted, left, mode, task, semphr, usb, dev, ghosts>>

(* The answer is STALL. *)
HostIsRefused ==
  /\ stage = "setup" /\ "stall" \in ep /\ mode = "attached"
  /\ stage' = "none"
  /\ UNCHANGED <<plugged, step, asks, want, read, haddr, ctrl, left, mode, task, semphr, usb, dev, ghosts>>

(* The SETUP came before the device task had seen the reset, and was lost     *)
(* with it: the host gets no answer and asks again.                           *)
Lost ==
  /\ stage = "setup" /\ ep \cap {"setup", "in", "stall"} = {}
  /\ dev \in {"sleep", "reset", "setup"}
HostRetries ==
  /\ Lost
  /\ stage' = "none"
  /\ UNCHANGED <<plugged, step, asks, want, read, haddr, ctrl, left, mode, task, semphr, usb, dev, ghosts>>

(* Any other answer takes too long, and the host abandons the request: it     *)
(* goes on with another one, or resets the bus.                               *)
HostGivesUp ==
  /\ stage # "none" /\ ~gaveUp /\ mode = "attached"
  /\ gaveUp' = TRUE
  /\ stage' = "none"
  /\ \/ UNCHANGED <<step, haddr, ctrl, task>>
     \/ BusReset /\ step' = "desc0" /\ haddr' = 0
  /\ UNCHANGED <<plugged, asks, want, read, left, mode, semphr, usb, dev, raced>>

(* usb_start_device *)
usb_start_device ==
  /\ mode' = "attached"
  /\ usb_connected' = TRUE

(* VBUS goes on.  The interrupt is enabled unless usb_task is at its work.    *)
Plug ==
  /\ ~plugged
  /\ plugged' = TRUE
  /\ step' = "reset"
  /\ IF mode = "off" THEN UNCHANGED <<mode, usb_connected>> ELSE usb_start_device
  /\ raced' = (raced \/ (usb = "disable" /\ mode = "on"))
  /\ gaveUp' = FALSE
  /\ UNCHANGED <<asks, stage, want, read, haddr, ctrl, left, usb_configuration_nb, event, semphr, usb, dev>>

(* Mutant: the interrupt does not wake usb_task.                              *)
MutantUnplug ==
  /\ plugged /\ plugged' = FALSE
  /\ IF mode = "off" THEN UNCHANGED <<mode, task, semphr>>
     ELSE /\ mode' = "on" /\ usb_connected' = FALSE /\ usb_configuration_nb' = 0
          /\ UNCHANGED <<event, semphr>>
  /\ step' = "reset" /\ stage' = "none" /\ haddr' = 0
  /\ gaveUp' = FALSE /\ raced' = (raced /\ mode = "off")
  /\ UNCHANGED <<asks, want, read, ctrl, left, usb, dev>>

Unplug ==
  /\ plugged /\ plugged' = FALSE
  /\ IF mode = "off" THEN UNCHANGED <<mode, task, semphr>>
     ELSE /\ mode' = "on" /\ usb_connected' = FALSE /\ usb_configuration_nb' = 0
          /\ semphr' = TRUE /\ UNCHANGED event
  /\ step' = "reset" /\ stage' = "none" /\ haddr' = 0
  /\ gaveUp' = FALSE /\ raced' = (raced /\ mode = "off")
  /\ UNCHANGED <<asks, want, read, ctrl, left, usb, dev>>

-------------------------------------------------------------------------------
(* usb_task: delete the device task, start the controller again and create a  *)
(* device task                                                                *)

UsbTake ==
  /\ usb = "wait" /\ semphr
  /\ semphr' = FALSE /\ usb' = "delete"
  /\ UNCHANGED <<plugged, host, ctrl, left, mode, task, dev, ghosts>>

UsbDelete ==
  /\ usb = "delete"
  /\ dev' = "none" /\ usb' = "forget"
  /\ UNCHANGED <<plugged, host, ctrl, left, mode, task, semphr, ghosts>>

UsbForget ==
  /\ usb = "forget"
  /\ usb_connected' = FALSE /\ usb_configuration_nb' = 0 /\ usb' = "disable"
  /\ UNCHANGED <<plugged, host, ctrl, left, mode, event, semphr, dev, ghosts>>

UsbDisable ==
  /\ usb = "disable"
  /\ Cleared
  /\ mode' = "off" /\ usb' = "enable"
  /\ step' = "reset" /\ stage' = "none" /\ haddr' = 0
  /\ UNCHANGED <<plugged, asks, want, read, left, task, semphr, dev, ghosts>>

UsbEnable ==
  /\ usb = "enable"
  /\ mode' = "on" /\ usb' = "create"
  /\ UNCHANGED <<plugged, host, ctrl, left, task, semphr, dev, ghosts>>

UsbCreate ==
  /\ usb = "create"
  /\ dev' = "sleep" /\ usb' = "wait"
  /\ UNCHANGED <<plugged, host, ctrl, left, mode, task, semphr, ghosts>>

Usb == UsbTake \/ UsbDelete \/ UsbForget \/ UsbDisable \/ UsbEnable \/ UsbCreate

-------------------------------------------------------------------------------
(* The device task *)

Runs(label) == dev = label /\ usb = "wait" /\ ~semphr

Connect ==
  /\ Runs("sleep")
  /\ dev' = "reset"
  /\ IF ~usb_connected /\ plugged THEN usb_start_device ELSE UNCHANGED <<mode, usb_connected>>
  /\ UNCHANGED <<plugged, host, ctrl, left, usb_configuration_nb, event, semphr, usb, ghosts>>

(* Mutant: the configuration outlives the reset of the bus.                   *)
MutantReset ==
  /\ Runs("reset")
  /\ dev' = "setup"
  /\ event' = FALSE
  /\ ep' = IF event THEN {} ELSE ep
  /\ UNCHANGED <<plugged, host, left, uadd, addrEn, data, halted, mode, usb_connected,
                 usb_configuration_nb, semphr, usb, ghosts>>

Reset ==
  /\ Runs("reset")
  /\ dev' = "setup"
  /\ event' = FALSE
  /\ ep' = IF event THEN {} ELSE ep
  /\ usb_configuration_nb' = IF event THEN 0 ELSE usb_configuration_nb
  /\ UNCHANGED <<plugged, host, left, uadd, addrEn, data, halted, mode, usb_connected, semphr, usb, ghosts>>

NoRequest ==
  /\ Runs("setup") /\ "setup" \notin ep
  /\ dev' = "sleep"
  /\ UNCHANGED <<plugged, host, ctrl, left, mode, task, semphr, usb, ghosts>>

Serves(r) == Runs("setup") /\ "setup" \in ep /\ asks = r
Kept == UNCHANGED <<plugged, host, addrEn, mode, usb_connected, event, semphr, usb, ghosts>>

(* Mutant: a NAK left over from the last read counts as this one's.           *)
MutantGetDescriptor ==
  /\ Serves("get_descriptor")
  /\ ep' = ep \ {"setup"}
  /\ left' = want
  /\ dev' = "data"
  /\ Kept /\ UNCHANGED <<uadd, data, halted, usb_configuration_nb>>

usb_get_descriptor ==
  /\ Serves("get_descriptor")
  /\ ep' = ep \ {"setup", "nakOut"}
  /\ left' = want
  /\ dev' = "data"
  /\ Kept /\ UNCHANGED <<uadd, data, halted, usb_configuration_nb>>

(* The next packet once the last one is read, until the host goes on to the   *)
(* status                                                                     *)
SendData ==
  /\ Runs("data") /\ left > 0 /\ "in" \notin ep /\ "nakOut" \notin ep
  /\ ep' = ep \cup {"in"}
  /\ left' = left - 1
  /\ Kept /\ UNCHANGED <<dev, uadd, data, halted, usb_configuration_nb>>

DataSent ==
  /\ Runs("data") /\ (left = 0 \/ "nakOut" \in ep)
  /\ dev' = "naked"
  /\ Kept /\ UNCHANGED <<left, ep, uadd, data, halted, usb_configuration_nb>>

AwaitNak ==
  /\ Runs("naked") /\ "nakOut" \in ep
  /\ ep' = ep \ {"nakOut"}
  /\ dev' = "out"
  /\ Kept /\ UNCHANGED <<left, uadd, data, halted, usb_configuration_nb>>

AwaitOut ==
  /\ Runs("out") /\ "out" \in ep
  /\ ep' = ep \ {"out"}
  /\ dev' = "sleep"
  /\ Kept /\ UNCHANGED <<left, uadd, data, halted, usb_configuration_nb>>

(* usb_get_configuration, usb_get_status, usb_get_interface *)
ShortRead ==
  /\ \E r \in Reads \ {"get_descriptor"} : Serves(r)
  /\ ep' = (ep \ {"setup"}) \cup {"in"}
  /\ dev' = "out"
  /\ Kept /\ UNCHANGED <<left, uadd, data, halted, usb_configuration_nb>>

(* Mutant: the board does not wait for the status before it uses the address. *)
MutantAddress ==
  /\ Serves("set_address")
  /\ uadd' = 1 /\ ep' = (ep \ {"setup"}) \cup {"in"}
  /\ addrEn' = TRUE /\ dev' = "sleep"
  /\ UNCHANGED <<plugged, host, left, mode, task, data, halted, semphr, usb, ghosts>>

usb_set_address ==
  /\ Serves("set_address")
  /\ uadd' = 1 /\ ep' = (ep \ {"setup"}) \cup {"in"}
  /\ dev' = "address"
  /\ Kept /\ UNCHANGED <<left, data, halted, usb_configuration_nb>>

EnableAddress ==
  /\ Runs("address") /\ "in" \notin ep
  /\ addrEn' = TRUE /\ dev' = "sleep"
  /\ UNCHANGED <<plugged, host, left, ep, uadd, data, halted, mode, task, semphr, usb, ghosts>>

Refuse == ep' = (ep \ {"setup"}) \cup {"stall"}

(* Configuration 1 is the only one; the host may try another.                 *)
Configurations == IF step = "conf" THEN {1} ELSE 0..2

usb_set_configuration ==
  /\ Serves("set_configuration")
  /\ \E n \in Configurations :
       IF n <= 1
       THEN /\ usb_configuration_nb' = n
            /\ ep' = ep \ {"setup"}
            /\ dev' = "endpoints"
       ELSE Refuse /\ dev' = "sleep" /\ UNCHANGED usb_configuration_nb
  /\ Kept /\ UNCHANGED <<left, uadd, data, halted>>

(* usb_user_endpoint_init enables the endpoints of the one configuration,     *)
(* whatever the number.                                                       *)
EndpointInit ==
  /\ Runs("endpoints")
  /\ data' = TRUE
  /\ ep' = ep \cup {"in"}
  /\ dev' = "sleep"
  /\ Kept /\ UNCHANGED <<left, uadd, halted, usb_configuration_nb>>

Feature(r, halt) ==
  /\ Serves(r)
  /\ IF data THEN halted' = halt /\ ep' = (ep \ {"setup"}) \cup {"in"}
             ELSE Refuse /\ UNCHANGED halted
  /\ dev' = "sleep"
  /\ Kept /\ UNCHANGED <<left, uadd, data, usb_configuration_nb>>
usb_set_feature == Feature("set_feature", TRUE)
usb_clear_feature == Feature("clear_feature", FALSE)

(* Waits for its status to be read, unlike the other requests without data *)
usb_set_interface ==
  /\ Serves("set_interface")
  /\ IF usb_configuration_nb = 0
     THEN Refuse /\ dev' = "sleep" /\ UNCHANGED halted
     ELSE ep' = (ep \ {"setup"}) \cup {"in"} /\ dev' = "sent" /\ halted' = FALSE
  /\ Kept /\ UNCHANGED <<left, uadd, data, usb_configuration_nb>>

AwaitSent ==
  /\ Runs("sent") /\ "in" \notin ep
  /\ dev' = "sleep"
  /\ Kept /\ UNCHANGED <<left, ep, uadd, data, halted, usb_configuration_nb>>

usb_user_read_request ==
  /\ Serves("unsupported")
  /\ Refuse /\ dev' = "sleep"
  /\ Kept /\ UNCHANGED <<left, uadd, data, halted, usb_configuration_nb>>

Device ==
  \/ Connect \/ Reset \/ NoRequest
  \/ usb_get_descriptor \/ SendData \/ DataSent \/ AwaitNak \/ AwaitOut \/ ShortRead
  \/ usb_set_address \/ EnableAddress \/ usb_set_configuration \/ EndpointInit
  \/ usb_set_feature \/ usb_clear_feature \/ usb_set_interface \/ AwaitSent
  \/ usb_user_read_request

-------------------------------------------------------------------------------
Host == HostResets \/ HostAsks \/ HostIn \/ HostOut \/ HostIsRefused \/ HostRetries

(* The board starts plugged in or not; usb_task_init has just created the     *)
(* semaphore, full.                                                           *)
Init ==
  /\ plugged \in BOOLEAN /\ step = "reset" /\ asks = "get_descriptor" /\ stage = "none"
  /\ haddr = 0 /\ want = 0 /\ read = FALSE /\ left = 0
  /\ ep = {} /\ uadd = 0 /\ addrEn = FALSE /\ mode = "off" /\ data = FALSE /\ halted = FALSE
  /\ usb_connected = FALSE /\ usb_configuration_nb = 0 /\ event = FALSE
  /\ semphr = TRUE /\ usb = "wait" /\ dev = "none"
  /\ gaveUp = FALSE /\ raced = FALSE

Next == Usb \/ Device \/ Host \/ HostResetsDevice \/ HostGivesUp \/ Plug \/ Unplug

(* Both tasks get the processor again and again (CoreTasks: the tasks above   *)
(* them sleep in every period), and a host goes on with what it has begun.    *)
Fairness == WF_vars(Usb) /\ WF_vars(Device) /\ WF_vars(Host)
Spec == Init /\ [][Next]_vars /\ Fairness
-------------------------------------------------------------------------------
(* Properties *)

(* A board that says it is configured has its endpoints, unless the reset of  *)
(* the bus that took them away, or the request that gives them, is still on   *)
(* its way through the device task: no reset is forgotten between the         *)
(* interrupt, the event and the handlers.                                     *)
EndpointsFollowConfiguration ==
  usb_configuration_nb # 0 /\ ~event /\ dev # "endpoints" => data

(* The board takes its new address when the host does and not before: the     *)
(* status of SET_ADDRESS still comes from address 0.                          *)
AddressAfterStatus ==
  mode = "attached" /\ step # "reset" /\ addrEn /\ ~gaveUp => uadd = haddr

(* A request comes to an end, unless the host abandons one or unplugs: the    *)
(* loops that wait for an IN or an OUT wait for what this host will do,       *)
(* whatever flags the request before has left behind.                         *)
RequestsEnd == stage # "none" ~> (stage = "none" \/ gaveUp)

(* A board that is plugged in gets configured, whatever happened to it while  *)
(* it was plugged in the last time: VBUS going off frees a task that waits    *)
(* for ever, and VBUS coming on is noticed while usb_task starts the          *)
(* controller again, but for the moment before it disables it.                *)
PluggedIsConfigured == plugged ~> (step = "ready" \/ ~plugged \/ gaveUp \/ raced)
===============================================================================
