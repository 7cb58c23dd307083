--------------------------- MODULE UsbDeviceProofs ----------------------------
(* Theorems about UsbDevice, for any requests and any length of descriptors,  *)
(* and about Boot, which comes before it when the board starts.               *)
EXTENDS UsbDevice, Boot, TLAPS

-------------------------------------------------------------------------------
(* The invariant *)

(* A board whose usb_task has work to do is not configured.                   *)
UnconfiguredInv == semphr \/ usb # "wait" => usb_configuration_nb = 0

(* The controller was started again since VBUS last went off, and the device  *)
(* task has not outlived it.                                                  *)
Restarted == ~semphr /\ usb \in {"enable", "create", "wait"}

(* Before the host has reset the bus no request is on its way, and a device   *)
(* task that has just been created has none to answer.                        *)
StartInv ==
  /\ mode # "attached" \/ ~plugged => step = "reset"
  /\ step = "reset" => stage = "none"
  /\ ~plugged => ~gaveUp
  /\ usb = "enable" => mode = "off"
  /\ usb \in {"forget", "disable", "enable", "create"} => dev = "none"
  /\ Restarted /\ step = "reset" =>
        "setup" \notin ep /\ dev \in {"none", "sleep", "reset", "setup"}

(* The flags of the control endpoint belong to the request being served.      *)
FlagsInv ==
  /\ stage = "none" => "in" \notin ep
  /\ "setup" \in ep => stage = "setup" /\ ep \cap {"in", "stall"} = {} /\ want > 0 /\ ~read
  /\ stage = "status" => asks \in Reads /\ "in" \notin ep
  /\ stage = "setup" /\ "stall" \in ep => "in" \notin ep

(* Before usb_task has started the controller again a request is not served.  *)
WindowInv ==
  ~Restarted => /\ step = "desc0" /\ "in" \notin ep /\ "stall" \notin ep /\ stage # "status"
                /\ stage = "setup" => asks = "get_descriptor" /\ want > 0

(* Where the device task stands in the requests that take several steps.      *)
TaskInv ==
  /\ Restarted /\ dev = "endpoints" =>
        /\ stage = "setup" /\ asks = "set_configuration"
        /\ "setup" \notin ep /\ "in" \notin ep /\ "stall" \notin ep
  /\ Restarted /\ dev = "data" =>
        \/ "nakOut" \in ep
        \/ stage = "setup" /\ asks = "get_descriptor" /\ "setup" \notin ep /\ "stall" \notin ep

(* The address: in the board, in the host and on its way.                     *)
AddressInv ==
  /\ stage = "setup" /\ asks = "set_address" => step = "addr"
  /\ step \in {"desc0", "reset2", "addr"} => ~addrEn /\ haddr = 0
  /\ addrEn => uadd = haddr
  /\ Restarted /\ dev = "address" =>
        /\ uadd = 1 /\ ~addrEn /\ "setup" \notin ep
        /\ \/ stage = "setup" /\ asks = "set_address" /\ "in" \in ep /\ step = "addr"
           \/ stage = "none" /\ haddr = 1 /\ step = "desc"
  /\ stage = "setup" /\ "in" \in ep /\ asks = "set_address" => Restarted /\ dev = "address"

(* All that holds while the host has not abandoned a request.                 *)
Live == step # "reset" /\ ~gaveUp
LiveInv == Live => FlagsInv /\ WindowInv /\ TaskInv /\ AddressInv

(* The part of the types that only says what is true or false.                *)
Booleans ==
  /\ plugged \in BOOLEAN /\ addrEn \in BOOLEAN /\ read \in BOOLEAN /\ data \in BOOLEAN
  /\ halted \in BOOLEAN /\ usb_connected \in BOOLEAN /\ event \in BOOLEAN
  /\ semphr \in BOOLEAN /\ gaveUp \in BOOLEAN /\ raced \in BOOLEAN

IInv == TypeOK /\ UnconfiguredInv /\ EndpointsFollowConfiguration /\ StartInv /\ LiveInv
-------------------------------------------------------------------------------
(* The invariant is kept *)

(* The host goes on through the enumeration. *)
LEMMA SequenceSteps ==
  /\ DOMAIN Sequence = {"reset", "desc0", "reset2", "addr", "desc", "conf", "ready"}
  /\ Sequence["reset"] = "desc0" /\ Sequence["desc0"] = "reset2"
  /\ Sequence["reset2"] = "addr" /\ Sequence["addr"] = "desc"
  /\ Sequence["desc"] = "conf" /\ Sequence["conf"] = "ready"
  /\ Sequence["ready"] = "ready"
  BY DEF Sequence

(* What the host asks at each step of the enumeration. *)
LEMMA AskedRange ==
  ASSUME NEW s \in DOMAIN Sequence
  PROVE  /\ Asked(s) \subseteq Reads \cup NoData \cup Unsupported
         /\ s \in {"reset", "reset2"} => Asked(s) = {}
         /\ s \in {"desc0", "desc"} => Asked(s) = {"get_descriptor"}
         /\ s = "addr" => Asked(s) = {"set_address"}
         /\ s \in {"conf", "ready"} => "set_address" \notin Asked(s)
<1>1. CASE s \in {"reset", "reset2"}
  BY <1>1 DEF Asked
<1>2. CASE s \in {"desc0", "desc"}
  BY <1>2 DEF Asked, Reads
<1>3. CASE s = "addr"
  BY <1>3 DEF Asked, NoData
<1>4. CASE s = "conf"
  BY <1>4 DEF Asked, NoData
<1>5. CASE s = "ready"
  BY <1>5, RequestsAssumption DEF Asked
<1> QED BY <1>1, <1>2, <1>3, <1>4, <1>5, SequenceSteps

(* Every step keeps them so. *)
LEMMA StepBooleans == Booleans /\ [Next]_vars => Booleans'
<1> SUFFICES ASSUME Booleans, [Next]_vars PROVE Booleans'
  OBVIOUS
<1> USE DEF Booleans, host, task, ctrl, ghosts, Kept, Runs, Serves
<1>1. CASE UsbTake
  BY <1>1 DEF UsbTake
<1>2. CASE UsbDelete
  BY <1>2 DEF UsbDelete
<1>3. CASE UsbForget
  BY <1>3 DEF UsbForget
<1>4. CASE UsbDisable
  BY <1>4 DEF UsbDisable, Cleared
<1>5. CASE UsbEnable
  BY <1>5 DEF UsbEnable
<1>6. CASE UsbCreate
  BY <1>6 DEF UsbCreate
<1>7. CASE Connect
  BY <1>7 DEF Connect, usb_start_device
<1>8. CASE Reset
  BY <1>8 DEF Reset
<1>9. CASE NoRequest
  BY <1>9 DEF NoRequest
<1>10. CASE usb_get_descriptor
  BY <1>10 DEF usb_get_descriptor
<1>11. CASE SendData
  BY <1>11 DEF SendData
<1>12. CASE DataSent
  BY <1>12 DEF DataSent
<1>13. CASE AwaitNak
  BY <1>13 DEF AwaitNak
<1>14. CASE AwaitOut
  BY <1>14 DEF AwaitOut
<1>15. CASE ShortRead
  BY <1>15 DEF ShortRead
<1>16. CASE usb_set_address
  BY <1>16 DEF usb_set_address
<1>17. CASE EnableAddress
  BY <1>17 DEF EnableAddress
<1>18. CASE usb_set_configuration
  BY <1>18 DEF usb_set_configuration, Refuse, Configurations
<1>19. CASE EndpointInit
  BY <1>19 DEF EndpointInit
<1>20. CASE usb_set_feature
  BY <1>20 DEF usb_set_feature, Feature, Refuse
<1>21. CASE usb_clear_feature
  BY <1>21 DEF usb_clear_feature, Feature, Refuse
<1>22. CASE usb_set_interface
  BY <1>22 DEF usb_set_interface, Refuse
<1>23. CASE AwaitSent
  BY <1>23 DEF AwaitSent
<1>24. CASE usb_user_read_request
  BY <1>24 DEF usb_user_read_request, Refuse
<1>25. CASE HostResets
  BY <1>25 DEF HostResets, BusReset, Cleared, Waiting
<1>26. CASE HostAsks
  BY <1>26 DEF HostAsks, Asked, Address
<1>27. CASE HostIn
  BY <1>27 DEF HostIn, HostDone
<1>28. CASE HostOut
  BY <1>28 DEF HostOut, HostDone
<1>29. CASE HostIsRefused
  BY <1>29 DEF HostIsRefused
<1>30. CASE HostRetries
  BY <1>30 DEF HostRetries, Lost
<1>31. CASE HostResetsDevice
  BY <1>31 DEF HostResetsDevice, BusReset, Cleared, Waiting
<1>32. CASE HostGivesUp
  BY <1>32 DEF HostGivesUp, BusReset, Cleared
<1>33. CASE Plug
  BY <1>33 DEF Plug, usb_start_device
<1>34. CASE Unplug
  BY <1>34 DEF Unplug
<1>35. CASE UNCHANGED vars
  BY <1>35 DEF vars
<1> QED BY <1>1, <1>2, <1>3, <1>4, <1>5, <1>6, <1>7, <1>8, <1>9, <1>10, <1>11,
           <1>12, <1>13, <1>14, <1>15, <1>16, <1>17, <1>18, <1>19, <1>20, <1>21, <1>22,
           <1>23, <1>24, <1>25, <1>26, <1>27, <1>28, <1>29, <1>30, <1>31, <1>32, <1>33,
           <1>34, <1>35
        DEF Next, Usb, Device, Host

(* Every step keeps the types. *)
LEMMA StepTypes == TypeOK /\ [Next]_vars => TypeOK'
<1> SUFFICES ASSUME TypeOK, [Next]_vars PROVE TypeOK'
  OBVIOUS
<1>0. Booleans'
  BY StepBooleans DEF Booleans, TypeOK
<1> USE <1>0 DEF Booleans, Flags, TypeOK, host, task, ctrl, ghosts, Kept, Runs, Serves
<1>1. CASE UsbTake
  BY <1>1 DEF UsbTake
<1>2. CASE UsbDelete
  BY <1>2 DEF UsbDelete
<1>3. CASE UsbForget
  BY <1>3 DEF UsbForget
<1>4. CASE UsbDisable
  BY <1>4, SequenceSteps DEF UsbDisable, Cleared
<1>5. CASE UsbEnable
  BY <1>5 DEF UsbEnable
<1>6. CASE UsbCreate
  BY <1>6 DEF UsbCreate
<1>7. CASE Connect
  BY <1>7 DEF Connect, usb_start_device
<1>8. CASE Reset
  BY <1>8 DEF Reset
<1>9. CASE NoRequest
  BY <1>9 DEF NoRequest
<1>10. CASE usb_get_descriptor
  BY <1>10 DEF usb_get_descriptor
<1>11. CASE SendData
  BY <1>11, RequestsAssumption DEF SendData
<1>12. CASE DataSent
  BY <1>12 DEF DataSent
<1>13. CASE AwaitNak
  BY <1>13 DEF AwaitNak
<1>14. CASE AwaitOut
  BY <1>14 DEF AwaitOut
<1>15. CASE ShortRead
  BY <1>15 DEF ShortRead
<1>16. CASE usb_set_address
  BY <1>16 DEF usb_set_address
<1>17. CASE EnableAddress
  BY <1>17 DEF EnableAddress
<1>18. CASE usb_set_configuration
  <2>1. usb_configuration_nb' \in {0, 1}
    BY <1>18 DEF usb_set_configuration, Configurations
  <2> QED BY <1>18, <2>1 DEF usb_set_configuration, Refuse
<1>19. CASE EndpointInit
  BY <1>19 DEF EndpointInit
<1>20. CASE usb_set_feature
  BY <1>20 DEF usb_set_feature, Feature, Refuse
<1>21. CASE usb_clear_feature
  BY <1>21 DEF usb_clear_feature, Feature, Refuse
<1>22. CASE usb_set_interface
  BY <1>22 DEF usb_set_interface, Refuse
<1>23. CASE AwaitSent
  BY <1>23 DEF AwaitSent
<1>24. CASE usb_user_read_request
  BY <1>24 DEF usb_user_read_request, Refuse
<1>25. CASE HostResets
  BY <1>25, SequenceSteps DEF HostResets, BusReset, Cleared, Waiting
<1>26. CASE HostAsks
  <2>1. asks' \in Reads \cup NoData \cup Unsupported
    BY <1>26, AskedRange DEF HostAsks
  <2>2. PICK n \in 1..MaxPackets : want' = n
    BY <1>26 DEF HostAsks
  <2> QED BY <1>26, <2>1, <2>2, RequestsAssumption DEF HostAsks
<1>27. CASE HostIn
  <2>1. want' \in 0..MaxPackets
    BY <1>27, RequestsAssumption DEF HostIn
  <2> QED BY <1>27, <2>1, SequenceSteps DEF HostIn, HostDone
<1>28. CASE HostOut
  <2>1. ep' \in SUBSET Flags
    BY <1>28 DEF HostOut
  <2>2. stage' \in {"none", "setup", "status"} /\ haddr' \in {0, 1}
    BY <1>28 DEF HostOut, HostDone
  <2>3. step' \in DOMAIN Sequence
    BY <1>28, SequenceSteps DEF HostOut, HostDone
  <2> QED BY <1>28, <2>1, <2>2, <2>3 DEF HostOut
<1>29. CASE HostIsRefused
  BY <1>29 DEF HostIsRefused
<1>30. CASE HostRetries
  BY <1>30 DEF HostRetries, Lost
<1>31. CASE HostResetsDevice
  BY <1>31, SequenceSteps DEF HostResetsDevice, BusReset, Cleared, Waiting
<1>32. CASE HostGivesUp
  BY <1>32, SequenceSteps DEF HostGivesUp, BusReset, Cleared
<1>33. CASE Plug
  BY <1>33, SequenceSteps DEF Plug, usb_start_device
<1>34. CASE Unplug
  BY <1>34, SequenceSteps DEF Unplug
<1>35. CASE UNCHANGED vars
  BY <1>35 DEF vars
<1> QED BY <1>1, <1>2, <1>3, <1>4, <1>5, <1>6, <1>7, <1>8, <1>9, <1>10, <1>11,
           <1>12, <1>13, <1>14, <1>15, <1>16, <1>17, <1>18, <1>19, <1>20, <1>21, <1>22,
           <1>23, <1>24, <1>25, <1>26, <1>27, <1>28, <1>29, <1>30, <1>31, <1>32, <1>33,
           <1>34, <1>35
        DEF Next, Usb, Device, Host

(* Every step leaves a board at work on its controller unconfigured. *)
LEMMA StepUnconfigured == IInv /\ [Next]_vars => UnconfiguredInv'
<1> SUFFICES ASSUME IInv, [Next]_vars PROVE UnconfiguredInv'
  OBVIOUS
<1> USE DEF IInv, UnconfiguredInv, host, task, ctrl, ghosts, Kept, Runs, Serves
<1>1. CASE UsbTake
  BY <1>1 DEF UsbTake
<1>2. CASE UsbDelete
  BY <1>2 DEF UsbDelete
<1>3. CASE UsbForget
  BY <1>3 DEF UsbForget
<1>4. CASE UsbDisable
  BY <1>4 DEF UsbDisable, Cleared
<1>5. CASE UsbEnable
  BY <1>5 DEF UsbEnable
<1>6. CASE UsbCreate
  BY <1>6 DEF UsbCreate
<1>7. CASE Connect
  BY <1>7 DEF Connect, usb_start_device
<1>8. CASE Reset
  BY <1>8 DEF Reset
<1>9. CASE NoRequest
  BY <1>9 DEF NoRequest
<1>10. CASE usb_get_descriptor
  BY <1>10 DEF usb_get_descriptor
<1>11. CASE SendData
  BY <1>11 DEF SendData
<1>12. CASE DataSent
  BY <1>12 DEF DataSent
<1>13. CASE AwaitNak
  BY <1>13 DEF AwaitNak
<1>14. CASE AwaitOut
  BY <1>14 DEF AwaitOut
<1>15. CASE ShortRead
  BY <1>15 DEF ShortRead
<1>16. CASE usb_set_address
  BY <1>16 DEF usb_set_address
<1>17. CASE EnableAddress
  BY <1>17 DEF EnableAddress
<1>18. CASE usb_set_configuration
  BY <1>18 DEF usb_set_configuration, Refuse, Configurations
<1>19. CASE EndpointInit
  BY <1>19 DEF EndpointInit
<1>20. CASE usb_set_feature
  BY <1>20 DEF usb_set_feature, Feature, Refuse
<1>21. CASE usb_clear_feature
  BY <1>21 DEF usb_clear_feature, Feature, Refuse
<1>22. CASE usb_set_interface
  BY <1>22 DEF usb_set_interface, Refuse
<1>23. CASE AwaitSent
  BY <1>23 DEF AwaitSent
<1>24. CASE usb_user_read_request
  BY <1>24 DEF usb_user_read_request, Refuse
<1>25. CASE HostResets
  BY <1>25 DEF HostResets, BusReset, Cleared, Waiting
<1>26. CASE HostAsks
  BY <1>26 DEF HostAsks, Asked, Address
<1>27. CASE HostIn
  BY <1>27 DEF HostIn, HostDone
<1>28. CASE HostOut
  BY <1>28 DEF HostOut, HostDone
<1>29. CASE HostIsRefused
  BY <1>29 DEF HostIsRefused
<1>30. CASE HostRetries
  BY <1>30 DEF HostRetries, Lost
<1>31. CASE HostResetsDevice
  BY <1>31 DEF HostResetsDevice, BusReset, Cleared, Waiting
<1>32. CASE HostGivesUp
  BY <1>32 DEF HostGivesUp, BusReset, Cleared
<1>33. CASE Plug
  BY <1>33 DEF Plug, usb_start_device
<1>34. CASE Unplug
  BY <1>34 DEF Unplug
<1>35. CASE UNCHANGED vars
  BY <1>35 DEF vars
<1> QED BY <1>1, <1>2, <1>3, <1>4, <1>5, <1>6, <1>7, <1>8, <1>9, <1>10, <1>11,
           <1>12, <1>13, <1>14, <1>15, <1>16, <1>17, <1>18, <1>19, <1>20, <1>21, <1>22,
           <1>23, <1>24, <1>25, <1>26, <1>27, <1>28, <1>29, <1>30, <1>31, <1>32, <1>33,
           <1>34, <1>35
        DEF Next, Usb, Device, Host

(* Every step that takes the endpoints away says so. *)
LEMMA StepEndpoints == IInv /\ [Next]_vars => EndpointsFollowConfiguration'
<1> SUFFICES ASSUME IInv, [Next]_vars PROVE EndpointsFollowConfiguration'
  OBVIOUS
<1> USE DEF IInv, UnconfiguredInv, EndpointsFollowConfiguration, host, task, ctrl, ghosts, Kept, Runs, Serves
<1>1. CASE UsbTake
  BY <1>1 DEF UsbTake
<1>2. CASE UsbDelete
  BY <1>2 DEF UsbDelete
<1>3. CASE UsbForget
  BY <1>3 DEF UsbForget
<1>4. CASE UsbDisable
  BY <1>4 DEF UsbDisable, Cleared
<1>5. CASE UsbEnable
  BY <1>5 DEF UsbEnable
<1>6. CASE UsbCreate
  BY <1>6 DEF UsbCreate
<1>7. CASE Connect
  BY <1>7 DEF Connect, usb_start_device
<1>8. CASE Reset
  BY <1>8 DEF Reset
<1>9. CASE NoRequest
  BY <1>9 DEF NoRequest
<1>10. CASE usb_get_descriptor
  BY <1>10 DEF usb_get_descriptor
<1>11. CASE SendData
  BY <1>11 DEF SendData
<1>12. CASE DataSent
  BY <1>12 DEF DataSent
<1>13. CASE AwaitNak
  BY <1>13 DEF AwaitNak
<1>14. CASE AwaitOut
  BY <1>14 DEF AwaitOut
<1>15. CASE ShortRead
  BY <1>15 DEF ShortRead
<1>16. CASE usb_set_address
  BY <1>16 DEF usb_set_address
<1>17. CASE EnableAddress
  BY <1>17 DEF EnableAddress
<1>18. CASE usb_set_configuration
  BY <1>18 DEF usb_set_configuration, Refuse, Configurations
<1>19. CASE EndpointInit
  BY <1>19 DEF EndpointInit
<1>20. CASE usb_set_feature
  BY <1>20 DEF usb_set_feature, Feature, Refuse
<1>21. CASE usb_clear_feature
  BY <1>21 DEF usb_clear_feature, Feature, Refuse
<1>22. CASE usb_set_interface
  BY <1>22 DEF usb_set_interface, Refuse
<1>23. CASE AwaitSent
  BY <1>23 DEF AwaitSent
<1>24. CASE usb_user_read_request
  BY <1>24 DEF usb_user_read_request, Refuse
<1>25. CASE HostResets
  BY <1>25 DEF HostResets, BusReset, Cleared, Waiting
<1>26. CASE HostAsks
  BY <1>26 DEF HostAsks, Asked, Address
<1>27. CASE HostIn
  BY <1>27 DEF HostIn, HostDone
<1>28. CASE HostOut
  BY <1>28 DEF HostOut, HostDone
<1>29. CASE HostIsRefused
  BY <1>29 DEF HostIsRefused
<1>30. CASE HostRetries
  BY <1>30 DEF HostRetries, Lost
<1>31. CASE HostResetsDevice
  BY <1>31 DEF HostResetsDevice, BusReset, Cleared, Waiting
<1>32. CASE HostGivesUp
  BY <1>32 DEF HostGivesUp, BusReset, Cleared
<1>33. CASE Plug
  BY <1>33 DEF Plug, usb_start_device
<1>34. CASE Unplug
  BY <1>34 DEF Unplug
<1>35. CASE UNCHANGED vars
  BY <1>35 DEF vars
<1> QED BY <1>1, <1>2, <1>3, <1>4, <1>5, <1>6, <1>7, <1>8, <1>9, <1>10, <1>11,
           <1>12, <1>13, <1>14, <1>15, <1>16, <1>17, <1>18, <1>19, <1>20, <1>21, <1>22,
           <1>23, <1>24, <1>25, <1>26, <1>27, <1>28, <1>29, <1>30, <1>31, <1>32, <1>33,
           <1>34, <1>35
        DEF Next, Usb, Device, Host

(* Every step leaves nothing on its way before the reset of the bus. *)
LEMMA StepStart == IInv /\ [Next]_vars => StartInv'
<1> SUFFICES ASSUME IInv, [Next]_vars PROVE StartInv'
  OBVIOUS
<1> USE DEF IInv, TypeOK, StartInv, Restarted, Flags, host, task, ctrl, ghosts, Kept, Runs, Serves
<1>1. CASE UsbTake
  BY <1>1 DEF UsbTake
<1>2. CASE UsbDelete
  BY <1>2 DEF UsbDelete
<1>3. CASE UsbForget
  BY <1>3 DEF UsbForget
<1>4. CASE UsbDisable
  BY <1>4 DEF UsbDisable, Cleared
<1>5. CASE UsbEnable
  BY <1>5 DEF UsbEnable
<1>6. CASE UsbCreate
  BY <1>6 DEF UsbCreate
<1>7. CASE Connect
  BY <1>7 DEF Connect, usb_start_device
<1>8. CASE Reset
  BY <1>8 DEF Reset
<1>9. CASE NoRequest
  BY <1>9 DEF NoRequest
<1>10. CASE usb_get_descriptor
  BY <1>10 DEF usb_get_descriptor
<1>11. CASE SendData
  BY <1>11 DEF SendData
<1>12. CASE DataSent
  BY <1>12 DEF DataSent
<1>13. CASE AwaitNak
  BY <1>13 DEF AwaitNak
<1>14. CASE AwaitOut
  BY <1>14 DEF AwaitOut
<1>15. CASE ShortRead
  BY <1>15 DEF ShortRead
<1>16. CASE usb_set_address
  BY <1>16 DEF usb_set_address
<1>17. CASE EnableAddress
  BY <1>17 DEF EnableAddress
<1>18. CASE usb_set_configuration
  BY <1>18 DEF usb_set_configuration, Refuse, Configurations
<1>19. CASE EndpointInit
  BY <1>19 DEF EndpointInit
<1>20. CASE usb_set_feature
  BY <1>20 DEF usb_set_feature, Feature, Refuse
<1>21. CASE usb_clear_feature
  BY <1>21 DEF usb_clear_feature, Feature, Refuse
<1>22. CASE usb_set_interface
  BY <1>22 DEF usb_set_interface, Refuse
<1>23. CASE AwaitSent
  BY <1>23 DEF AwaitSent
<1>24. CASE usb_user_read_request
  BY <1>24 DEF usb_user_read_request, Refuse
<1>25. CASE HostResets
  BY <1>25, SequenceSteps DEF HostResets, BusReset, Cleared, Waiting
<1>26. CASE HostAsks
  BY <1>26, AskedRange DEF HostAsks, Asked, Address
<1>27. CASE HostIn
  BY <1>27, SequenceSteps DEF HostIn, HostDone
<1>28. CASE HostOut
  BY <1>28, SequenceSteps DEF HostOut, HostDone
<1>29. CASE HostIsRefused
  BY <1>29 DEF HostIsRefused
<1>30. CASE HostRetries
  BY <1>30 DEF HostRetries, Lost
<1>31. CASE HostResetsDevice
  BY <1>31, SequenceSteps DEF HostResetsDevice, BusReset, Cleared, Waiting
<1>32. CASE HostGivesUp
  BY <1>32, SequenceSteps DEF HostGivesUp, BusReset, Cleared
<1>33. CASE Plug
  BY <1>33 DEF Plug, usb_start_device
<1>34. CASE Unplug
  BY <1>34 DEF Unplug
<1>35. CASE UNCHANGED vars
  BY <1>35 DEF vars
<1> QED BY <1>1, <1>2, <1>3, <1>4, <1>5, <1>6, <1>7, <1>8, <1>9, <1>10, <1>11,
           <1>12, <1>13, <1>14, <1>15, <1>16, <1>17, <1>18, <1>19, <1>20, <1>21, <1>22,
           <1>23, <1>24, <1>25, <1>26, <1>27, <1>28, <1>29, <1>30, <1>31, <1>32, <1>33,
           <1>34, <1>35
        DEF Next, Usb, Device, Host

(* A host that has not abandoned a request had not before, and only its reset *)
(* of the bus begins the enumeration.                                         *)
LEMMA LiveBefore == IInv /\ Live' /\ [Next]_vars => Live \/ (HostResets /\ step = "reset")
<1> SUFFICES ASSUME IInv, Live', [Next]_vars 
         PROVE  Live \/ (HostResets /\ step = "reset")
  OBVIOUS
<1> USE DEF IInv, TypeOK, StartInv, Live, host, task, ctrl, ghosts, Kept
<1>1. CASE UsbTake
  BY <1>1 DEF UsbTake
<1>2. CASE UsbDelete
  BY <1>2 DEF UsbDelete
<1>3. CASE UsbForget
  BY <1>3 DEF UsbForget
<1>4. CASE UsbDisable
  BY <1>4 DEF UsbDisable, Cleared
<1>5. CASE UsbEnable
  BY <1>5 DEF UsbEnable
<1>6. CASE UsbCreate
  BY <1>6 DEF UsbCreate
<1>7. CASE Connect
  BY <1>7 DEF Connect, usb_start_device
<1>8. CASE Reset
  BY <1>8 DEF Reset
<1>9. CASE NoRequest
  BY <1>9 DEF NoRequest
<1>10. CASE usb_get_descriptor
  BY <1>10 DEF usb_get_descriptor
<1>11. CASE SendData
  BY <1>11 DEF SendData
<1>12. CASE DataSent
  BY <1>12 DEF DataSent
<1>13. CASE AwaitNak
  BY <1>13 DEF AwaitNak
<1>14. CASE AwaitOut
  BY <1>14 DEF AwaitOut
<1>15. CASE ShortRead
  BY <1>15 DEF ShortRead
<1>16. CASE usb_set_address
  BY <1>16 DEF usb_set_address
<1>17. CASE EnableAddress
  BY <1>17 DEF EnableAddress
<1>18. CASE usb_set_configuration
  BY <1>18 DEF usb_set_configuration, Refuse, Configurations
<1>19. CASE EndpointInit
  BY <1>19 DEF EndpointInit
<1>20. CASE usb_set_feature
  BY <1>20 DEF usb_set_feature, Feature, Refuse
<1>21. CASE usb_clear_feature
  BY <1>21 DEF usb_clear_feature, Feature, Refuse
<1>22. CASE usb_set_interface
  BY <1>22 DEF usb_set_interface, Refuse
<1>23. CASE AwaitSent
  BY <1>23 DEF AwaitSent
<1>24. CASE usb_user_read_request
  BY <1>24 DEF usb_user_read_request, Refuse
<1>25. CASE HostResets
  BY <1>25 DEF HostResets, BusReset, Cleared, Waiting
<1>26. CASE HostAsks
  BY <1>26 DEF HostAsks, Asked, Address
<1>27. CASE HostIn
  BY <1>27 DEF HostIn, HostDone
<1>28. CASE HostOut
  BY <1>28 DEF HostOut, HostDone
<1>29. CASE HostIsRefused
  BY <1>29 DEF HostIsRefused
<1>30. CASE HostRetries
  BY <1>30 DEF HostRetries, Lost
<1>31. CASE HostResetsDevice
  BY <1>31 DEF HostResetsDevice, BusReset, Cleared, Waiting
<1>32. CASE HostGivesUp
  BY <1>32 DEF HostGivesUp, BusReset, Cleared
<1>33. CASE Plug
  BY <1>33 DEF Plug, usb_start_device
<1>34. CASE Unplug
  BY <1>34 DEF Unplug
<1>35. CASE UNCHANGED vars
  BY <1>35 DEF vars
<1> QED BY <1>1, <1>2, <1>3, <1>4, <1>5, <1>6, <1>7, <1>8, <1>9, <1>10, <1>11,
           <1>12, <1>13, <1>14, <1>15, <1>16, <1>17, <1>18, <1>19, <1>20, <1>21, <1>22,
           <1>23, <1>24, <1>25, <1>26, <1>27, <1>28, <1>29, <1>30, <1>31, <1>32, <1>33,
           <1>34, <1>35
        DEF Next, Usb, Device, Host

(* Every step leaves the flags to the request being served. *)
LEMMA StepFlags == IInv /\ Live' /\ [Next]_vars => FlagsInv'
<1> SUFFICES ASSUME IInv, Live', [Next]_vars PROVE FlagsInv'
  OBVIOUS
<1>0. Live \/ (HostResets /\ step = "reset")
  BY LiveBefore
<1> USE <1>0 DEF Live, LiveInv, FlagsInv, IInv, StartInv, TypeOK, Flags, Restarted, host, task, ctrl, ghosts, Kept, Runs, Serves, TaskInv, Reads, NoData, Unsupported
<1>1. CASE UsbTake
  BY <1>1 DEF UsbTake
<1>2. CASE UsbDelete
  BY <1>2 DEF UsbDelete
<1>3. CASE UsbForget
  BY <1>3 DEF UsbForget
<1>4. CASE UsbDisable
  BY <1>4 DEF UsbDisable, Cleared
<1>5. CASE UsbEnable
  BY <1>5 DEF UsbEnable
<1>6. CASE UsbCreate
  BY <1>6 DEF UsbCreate
<1>7. CASE Connect
  BY <1>7 DEF Connect, usb_start_device
<1>8. CASE Reset
  BY <1>8 DEF Reset
<1>9. CASE NoRequest
  BY <1>9 DEF NoRequest
<1>10. CASE usb_get_descriptor
  BY <1>10 DEF usb_get_descriptor
<1>11. CASE SendData
  BY <1>11 DEF SendData
<1>12. CASE DataSent
  BY <1>12 DEF DataSent
<1>13. CASE AwaitNak
  BY <1>13 DEF AwaitNak
<1>14. CASE AwaitOut
  BY <1>14 DEF AwaitOut
<1>15. CASE ShortRead
  BY <1>15 DEF ShortRead
<1>16. CASE usb_set_address
  BY <1>16 DEF usb_set_address
<1>17. CASE EnableAddress
  BY <1>17 DEF EnableAddress
<1>18. CASE usb_set_configuration
  BY <1>18 DEF usb_set_configuration, Refuse, Configurations
<1>19. CASE EndpointInit
  BY <1>19 DEF EndpointInit
<1>20. CASE usb_set_feature
  BY <1>20 DEF usb_set_feature, Feature, Refuse
<1>21. CASE usb_clear_feature
  BY <1>21 DEF usb_clear_feature, Feature, Refuse
<1>22. CASE usb_set_interface
  BY <1>22 DEF usb_set_interface, Refuse
<1>23. CASE AwaitSent
  BY <1>23 DEF AwaitSent
<1>24. CASE usb_user_read_request
  BY <1>24 DEF usb_user_read_request, Refuse
<1>25. CASE HostResets
  BY <1>25 DEF HostResets, BusReset, Cleared, Waiting
<1>26. CASE HostAsks
  BY <1>26, AskedRange DEF HostAsks, Asked, Address
<1>27. CASE HostIn
  BY <1>27 DEF HostIn, HostDone
<1>28. CASE HostOut
  BY <1>28 DEF HostOut, HostDone
<1>29. CASE HostIsRefused
  BY <1>29 DEF HostIsRefused
<1>30. CASE HostRetries
  BY <1>30 DEF HostRetries, Lost
<1>31. CASE HostResetsDevice
  BY <1>31 DEF HostResetsDevice, BusReset, Cleared, Waiting
<1>32. CASE HostGivesUp
  BY <1>32 DEF HostGivesUp, BusReset, Cleared
<1>33. CASE Plug
  BY <1>33 DEF Plug, usb_start_device
<1>34. CASE Unplug
  BY <1>34 DEF Unplug
<1>35. CASE UNCHANGED vars
  BY <1>35 DEF vars
<1> QED BY <1>1, <1>2, <1>3, <1>4, <1>5, <1>6, <1>7, <1>8, <1>9, <1>10, <1>11,
           <1>12, <1>13, <1>14, <1>15, <1>16, <1>17, <1>18, <1>19, <1>20, <1>21, <1>22,
           <1>23, <1>24, <1>25, <1>26, <1>27, <1>28, <1>29, <1>30, <1>31, <1>32, <1>33,
           <1>34, <1>35
        DEF Next, Usb, Device, Host

(* Every step serves requests after the restart only. *)
LEMMA StepWindow == IInv /\ Live' /\ [Next]_vars => WindowInv'
<1> SUFFICES ASSUME IInv, Live', [Next]_vars PROVE WindowInv'
  OBVIOUS
<1>0. Live \/ (HostResets /\ step = "reset")
  BY LiveBefore
<1> USE <1>0 DEF Live, LiveInv, FlagsInv, IInv, StartInv, TypeOK, Flags, Restarted, host, task, ctrl, ghosts, Kept, Runs, Serves, WindowInv, Reads, NoData, Unsupported
<1>1. CASE UsbTake
  BY <1>1 DEF UsbTake
<1>2. CASE UsbDelete
  BY <1>2 DEF UsbDelete
<1>3. CASE UsbForget
  BY <1>3 DEF UsbForget
<1>4. CASE UsbDisable
  BY <1>4 DEF UsbDisable, Cleared
<1>5. CASE UsbEnable
  BY <1>5 DEF UsbEnable
<1>6. CASE UsbCreate
  BY <1>6 DEF UsbCreate
<1>7. CASE Connect
  BY <1>7 DEF Connect, usb_start_device
<1>8. CASE Reset
  BY <1>8 DEF Reset
<1>9. CASE NoRequest
  BY <1>9 DEF NoRequest
<1>10. CASE usb_get_descriptor
  BY <1>10 DEF usb_get_descriptor
<1>11. CASE SendData
  BY <1>11 DEF SendData
<1>12. CASE DataSent
  BY <1>12 DEF DataSent
<1>13. CASE AwaitNak
  BY <1>13 DEF AwaitNak
<1>14. CASE AwaitOut
  BY <1>14 DEF AwaitOut
<1>15. CASE ShortRead
  BY <1>15 DEF ShortRead
<1>16. CASE usb_set_address
  BY <1>16 DEF usb_set_address
<1>17. CASE EnableAddress
  BY <1>17 DEF EnableAddress
<1>18. CASE usb_set_configuration
  BY <1>18 DEF usb_set_configuration, Refuse, Configurations
<1>19. CASE EndpointInit
  BY <1>19 DEF EndpointInit
<1>20. CASE usb_set_feature
  BY <1>20 DEF usb_set_feature, Feature, Refuse
<1>21. CASE usb_clear_feature
  BY <1>21 DEF usb_clear_feature, Feature, Refuse
<1>22. CASE usb_set_interface
  BY <1>22 DEF usb_set_interface, Refuse
<1>23. CASE AwaitSent
  BY <1>23 DEF AwaitSent
<1>24. CASE usb_user_read_request
  BY <1>24 DEF usb_user_read_request, Refuse
<1>25. CASE HostResets
  BY <1>25, SequenceSteps DEF HostResets, BusReset, Cleared, Waiting
<1>26. CASE HostAsks
  BY <1>26, AskedRange DEF HostAsks, Asked, Address
<1>27. CASE HostIn
  BY <1>27 DEF HostIn, HostDone
<1>28. CASE HostOut
  BY <1>28 DEF HostOut, HostDone
<1>29. CASE HostIsRefused
  BY <1>29 DEF HostIsRefused
<1>30. CASE HostRetries
  BY <1>30 DEF HostRetries, Lost
<1>31. CASE HostResetsDevice
  BY <1>31 DEF HostResetsDevice, BusReset, Cleared, Waiting
<1>32. CASE HostGivesUp
  BY <1>32 DEF HostGivesUp, BusReset, Cleared
<1>33. CASE Plug
  BY <1>33 DEF Plug, usb_start_device
<1>34. CASE Unplug
  BY <1>34 DEF Unplug
<1>35. CASE UNCHANGED vars
  BY <1>35 DEF vars
<1> QED BY <1>1, <1>2, <1>3, <1>4, <1>5, <1>6, <1>7, <1>8, <1>9, <1>10, <1>11,
           <1>12, <1>13, <1>14, <1>15, <1>16, <1>17, <1>18, <1>19, <1>20, <1>21, <1>22,
           <1>23, <1>24, <1>25, <1>26, <1>27, <1>28, <1>29, <1>30, <1>31, <1>32, <1>33,
           <1>34, <1>35
        DEF Next, Usb, Device, Host

(* Every step of a request follows the one before. *)
LEMMA StepTask == IInv /\ Live' /\ [Next]_vars => TaskInv'
<1> SUFFICES ASSUME IInv, Live', [Next]_vars PROVE TaskInv'
  OBVIOUS
<1>0. Live \/ (HostResets /\ step = "reset")
  BY LiveBefore
<1> USE <1>0 DEF Live, LiveInv, FlagsInv, IInv, StartInv, TypeOK, Flags, Restarted, host, task, ctrl, ghosts, Kept, Runs, Serves, WindowInv, TaskInv, AddressInv, Reads, NoData, Unsupported
<1>1. CASE UsbTake
  BY <1>1 DEF UsbTake
<1>2. CASE UsbDelete
  BY <1>2 DEF UsbDelete
<1>3. CASE UsbForget
  BY <1>3 DEF UsbForget
<1>4. CASE UsbDisable
  BY <1>4 DEF UsbDisable, Cleared
<1>5. CASE UsbEnable
  BY <1>5 DEF UsbEnable
<1>6. CASE UsbCreate
  BY <1>6 DEF UsbCreate
<1>7. CASE Connect
  BY <1>7 DEF Connect, usb_start_device
<1>8. CASE Reset
  BY <1>8 DEF Reset
<1>9. CASE NoRequest
  BY <1>9 DEF NoRequest
<1>10. CASE usb_get_descriptor
  BY <1>10 DEF usb_get_descriptor
<1>11. CASE SendData
  BY <1>11 DEF SendData
<1>12. CASE DataSent
  BY <1>12 DEF DataSent
<1>13. CASE AwaitNak
  BY <1>13 DEF AwaitNak
<1>14. CASE AwaitOut
  BY <1>14 DEF AwaitOut
<1>15. CASE ShortRead
  BY <1>15 DEF ShortRead
<1>16. CASE usb_set_address
  BY <1>16 DEF usb_set_address
<1>17. CASE EnableAddress
  BY <1>17 DEF EnableAddress
<1>18. CASE usb_set_configuration
  BY <1>18 DEF usb_set_configuration, Refuse, Configurations
<1>19. CASE EndpointInit
  BY <1>19 DEF EndpointInit
<1>20. CASE usb_set_feature
  BY <1>20 DEF usb_set_feature, Feature, Refuse
<1>21. CASE usb_clear_feature
  BY <1>21 DEF usb_clear_feature, Feature, Refuse
<1>22. CASE usb_set_interface
  BY <1>22 DEF usb_set_interface, Refuse
<1>23. CASE AwaitSent
  BY <1>23 DEF AwaitSent
<1>24. CASE usb_user_read_request
  BY <1>24 DEF usb_user_read_request, Refuse
<1>25. CASE HostResets
  BY <1>25, SequenceSteps DEF HostResets, BusReset, Cleared, Waiting
<1>26. CASE HostAsks
  BY <1>26, AskedRange DEF HostAsks, Asked, Address
<1>27. CASE HostIn
  BY <1>27 DEF HostIn, HostDone
<1>28. CASE HostOut
  BY <1>28 DEF HostOut, HostDone
<1>29. CASE HostIsRefused
  BY <1>29 DEF HostIsRefused
<1>30. CASE HostRetries
  BY <1>30 DEF HostRetries, Lost
<1>31. CASE HostResetsDevice
  BY <1>31 DEF HostResetsDevice, BusReset, Cleared, Waiting
<1>32. CASE HostGivesUp
  BY <1>32 DEF HostGivesUp, BusReset, Cleared
<1>33. CASE Plug
  BY <1>33 DEF Plug, usb_start_device
<1>34. CASE Unplug
  BY <1>34 DEF Unplug
<1>35. CASE UNCHANGED vars
  BY <1>35 DEF vars
<1> QED BY <1>1, <1>2, <1>3, <1>4, <1>5, <1>6, <1>7, <1>8, <1>9, <1>10, <1>11,
           <1>12, <1>13, <1>14, <1>15, <1>16, <1>17, <1>18, <1>19, <1>20, <1>21, <1>22,
           <1>23, <1>24, <1>25, <1>26, <1>27, <1>28, <1>29, <1>30, <1>31, <1>32, <1>33,
           <1>34, <1>35
        DEF Next, Usb, Device, Host

(* Every step keeps the addresses together. *)
LEMMA StepAddress == IInv /\ Live' /\ [Next]_vars => AddressInv'
<1> SUFFICES ASSUME IInv, Live', [Next]_vars PROVE AddressInv'
  OBVIOUS
<1>0. Live \/ (HostResets /\ step = "reset")
  BY LiveBefore
<1> USE <1>0 DEF Live, LiveInv, FlagsInv, IInv, StartInv, TypeOK, Flags, Restarted, host, task, ctrl, ghosts, Kept, Runs, Serves, WindowInv, TaskInv, AddressInv, Reads, NoData, Unsupported
<1>1. CASE UsbTake
  BY <1>1 DEF UsbTake
<1>2. CASE UsbDelete
  BY <1>2 DEF UsbDelete
<1>3. CASE UsbForget
  BY <1>3 DEF UsbForget
<1>4. CASE UsbDisable
  BY <1>4 DEF UsbDisable, Cleared
<1>5. CASE UsbEnable
  BY <1>5 DEF UsbEnable
<1>6. CASE UsbCreate
  BY <1>6 DEF UsbCreate
<1>7. CASE Connect
  BY <1>7 DEF Connect, usb_start_device
<1>8. CASE Reset
  BY <1>8 DEF Reset
<1>9. CASE NoRequest
  BY <1>9 DEF NoRequest
<1>10. CASE usb_get_descriptor
  BY <1>10 DEF usb_get_descriptor
<1>11. CASE SendData
  BY <1>11 DEF SendData
<1>12. CASE DataSent
  BY <1>12 DEF DataSent
<1>13. CASE AwaitNak
  BY <1>13 DEF AwaitNak
<1>14. CASE AwaitOut
  BY <1>14 DEF AwaitOut
<1>15. CASE ShortRead
  BY <1>15 DEF ShortRead
<1>16. CASE usb_set_address
  BY <1>16 DEF usb_set_address
<1>17. CASE EnableAddress
  BY <1>17 DEF EnableAddress
<1>18. CASE usb_set_configuration
  BY <1>18 DEF usb_set_configuration, Refuse, Configurations
<1>19. CASE EndpointInit
  BY <1>19 DEF EndpointInit
<1>20. CASE usb_set_feature
  BY <1>20 DEF usb_set_feature, Feature, Refuse
<1>21. CASE usb_clear_feature
  BY <1>21 DEF usb_clear_feature, Feature, Refuse
<1>22. CASE usb_set_interface
  BY <1>22 DEF usb_set_interface, Refuse
<1>23. CASE AwaitSent
  BY <1>23 DEF AwaitSent
<1>24. CASE usb_user_read_request
  BY <1>24 DEF usb_user_read_request, Refuse
<1>25. CASE HostResets
  BY <1>25, SequenceSteps DEF HostResets, BusReset, Cleared, Waiting
<1>26. CASE HostAsks
  BY <1>26, AskedRange DEF HostAsks, Asked, Address
<1>27. CASE HostIn
  BY <1>27, SequenceSteps DEF HostIn, HostDone
<1>28. CASE HostOut
  BY <1>28, SequenceSteps DEF HostOut, HostDone
<1>29. CASE HostIsRefused
  BY <1>29 DEF HostIsRefused
<1>30. CASE HostRetries
  BY <1>30 DEF HostRetries, Lost
<1>31. CASE HostResetsDevice
  BY <1>31 DEF HostResetsDevice, BusReset, Cleared, Waiting
<1>32. CASE HostGivesUp
  BY <1>32 DEF HostGivesUp, BusReset, Cleared
<1>33. CASE Plug
  BY <1>33 DEF Plug, usb_start_device
<1>34. CASE Unplug
  BY <1>34 DEF Unplug
<1>35. CASE UNCHANGED vars
  BY <1>35 DEF vars
<1> QED BY <1>1, <1>2, <1>3, <1>4, <1>5, <1>6, <1>7, <1>8, <1>9, <1>10, <1>11,
           <1>12, <1>13, <1>14, <1>15, <1>16, <1>17, <1>18, <1>19, <1>20, <1>21, <1>22,
           <1>23, <1>24, <1>25, <1>26, <1>27, <1>28, <1>29, <1>30, <1>31, <1>32, <1>33,
           <1>34, <1>35
        DEF Next, Usb, Device, Host

(* Every step keeps the invariant. *)
LEMMA StepIInv == IInv /\ [Next]_vars => IInv'
<1>1. IInv /\ [Next]_vars => LiveInv'
  BY StepFlags, StepWindow, StepTask, StepAddress DEF LiveInv
<1> QED BY <1>1, StepTypes, StepUnconfigured, StepEndpoints, StepStart DEF IInv

(* The invariant holds at start-up. *)
LEMMA InitIInv == Init => IInv
<1> SUFFICES ASSUME Init PROVE IInv
  OBVIOUS
<1>1. Booleans
  BY DEF Init, Booleans
<1>2. TypeOK
  BY <1>1, SequenceSteps, RequestsAssumption
     DEF Init, TypeOK, Booleans, Reads, NoData, Unsupported, Flags
<1>3. /\ UnconfiguredInv /\ EndpointsFollowConfiguration /\ StartInv /\ LiveInv
  BY DEF Init, UnconfiguredInv, EndpointsFollowConfiguration, StartInv, LiveInv, Live, Restarted
<1> QED BY <1>2, <1>3 DEF IInv

(* The invariant holds in every behaviour.                                    *)
LEMMA Invariant == Spec => []IInv
  BY InitIInv, StepIInv, PTL DEF Spec

-------------------------------------------------------------------------------
(* Theorems *)

(* Every variable keeps its type. *)
THEOREM TypeCorrect == Spec => []TypeOK
  BY Invariant, PTL DEF IInv

(* usb_device_task.c: no reset of the bus is forgotten between the interrupt, *)
(* the event and the handlers, whatever the host asks.                        *)
THEOREM EndpointsFollow == Spec => []EndpointsFollowConfiguration
  BY Invariant, PTL DEF IInv

(* usb_set_address: board and host go over to the new address together, for   *)
(* descriptors of any length and whatever the requests.                       *)
THEOREM AddressFollows == Spec => []AddressAfterStatus
<1>1. IInv => AddressAfterStatus
  BY DEF IInv, LiveInv, Live, AddressInv, AddressAfterStatus
<1> QED BY <1>1, Invariant, PTL

-------------------------------------------------------------------------------
(* Boot: the counter in flash counts the errors in a row, for any number of  *)
(* resets, at any moment, of any kind. Its behaviours and those of UsbDevice  *)
(* are independent.                                                          *)

\* The fuse is only set while the firmware leaves, so a firmware that runs
\* finds it clear and one that waits for its last reset finds it set.
FuseInv ==
    /\ pc \in {"check", "init", "run", "fuse"} => ~fuse
    /\ pc = "wait" => fuse
    /\ pc \in {"erase", "write"} => (fuse <=> next = "wait")
    /\ pc \in {"hung", "handler"} /\ fuse => torn

\* The watchdog runs during the writes asked for by a task only.
WatchdogInv ==
    /\ pc \in {"reset", "bootloader", "check", "init"} => ~watchdog
    /\ pc \in {"erase", "write"} /\ next = "init" => ~watchdog

\* What the counter is worth at each point, unless a return to the bootloader
\* was cut: the errors in a row while the firmware runs, the same without the
\* present start before it is counted, nothing once the firmware has left.
CounterInv ==
    ~torn =>
        /\ pc \in {"init", "run", "hung", "handler"} => counter = unstable
        /\ pc = "fuse" /\ watchdog => counter = unstable
        /\ pc = "check" /\ Unstable(cause) => counter + 1 = unstable
        /\ pc \in {"wait", "bootloader"} => counter = 0
        /\ pc = "reset" /\ fuse => counter = 0
        /\ pc = "reset" /\ ~fuse /\ Unstable(cause) => counter = unstable

\* What set_reset_nb is about to write.
ResetCallInv ==
    /\ pc \in Writing /\ next = "wait" => nb = 0
    /\ pc \in {"erase", "write"} /\ next = "init" /\ ~torn => nb = unstable
    /\ pc \in {"erase", "write"} /\ next = "init" /\ torn => nb # 0
    /\ pc = "fuse" => next = "wait"
    /\ pc = "check" /\ ~Unstable(cause) => unstable = 0

BootInv == BootTypeOK /\ FuseInv /\ WatchdogInv /\ CounterInv /\ ResetCallInv

\* The board as programmed satisfies the invariant.
LEMMA InitBoot == BootInit => BootInv
<1> SUFFICES ASSUME BootInit PROVE BootInv
  OBVIOUS
<1>1. BootTypeOK
  <2>1. /\ fuse \in BOOLEAN /\ watchdog \in BOOLEAN /\ broken \in BOOLEAN /\ torn \in BOOLEAN
    BY Zenon DEF BootInit
  <2>2. counter \in Byte /\ nb \in Byte /\ unstable \in Nat
    BY DEF BootInit, Byte
  <2> QED BY <2>1, <2>2 DEF BootInit, BootTypeOK
<1>2. FuseInv /\ WatchdogInv /\ ResetCallInv
  BY DEF BootInit, FuseInv, WatchdogInv, ResetCallInv, Writing, Unstable
<1>3. CounterInv
  BY DEF BootInit, CounterInv, Unstable
<1> QED BY <1>1, <1>2, <1>3 DEF BootInv

\* Every step keeps it: a reset or an error in the middle of a write is the
\* only one that breaks the count, and torn records it.
LEMMA StepBoot == BootInv /\ [BootNext]_bootVars => BootInv'
<1> SUFFICES ASSUME BootInv, [BootNext]_bootVars PROVE BootInv'
  OBVIOUS
<1> USE DEF BootInv, BootTypeOK, FuseInv, WatchdogInv, CounterInv, ResetCallInv, Byte, Writing, Unstable
<1>1. CASE Boot
  BY <1>1 DEF Boot, flash, call
<1>2. CASE CheckBuggyFirmware
  BY <1>2 DEF CheckBuggyFirmware, CallResetToBootloader, CallSetResetNb, Limit, flash, call
<1>3. CASE SetFuse
  BY <1>3 DEF SetFuse, call
<1>4. CASE ErasePage
  BY <1>4 DEF ErasePage, call
<1>5. CASE WritePage
  <2>1. CASE next = "wait"
    BY <1>5, <2>1 DEF WritePage, call
  <2>2. CASE next = "init"
    <3>1. /\ pc = "write" /\ pc' = "init" /\ counter' = nb /\ ~watchdog /\ ~watchdog'
          /\ ~fuse /\ ~fuse' /\ (torn' <=> torn /\ nb # 0)
          /\ UNCHANGED <<cause, nb, next, broken, unstable>>
      BY <1>5, <2>2 DEF WritePage, call
    <3>2. torn' <=> torn
      BY <2>2, <3>1
    <3>3. ~torn' => counter' = unstable'
      BY <2>2, <3>1, <3>2
    <3>4. counter' \in Byte
      BY <3>1
    <3>5. BootTypeOK'
      <4>1. torn' \in BOOLEAN /\ watchdog' \in BOOLEAN
        BY Zenon, <1>5 DEF WritePage
      <4>2. UNCHANGED fuse
        BY <1>5 DEF WritePage
      <4> QED BY <2>2, <3>1, <3>4, <4>1, <4>2
    <3>6. FuseInv' /\ WatchdogInv' /\ ResetCallInv'
      BY <2>2, <3>1
    <3>7. CounterInv'
      BY <3>1, <3>3
    <3> QED BY <3>5, <3>6, <3>7
  <2> QED BY <2>1, <2>2
<1>6. CASE StartScheduler
  BY <1>6 DEF StartScheduler, flash, call
<1>7. CASE HandlerEnd
  BY <1>7 DEF HandlerEnd, flash, call
<1>8. CASE WatchdogReset
  BY <1>8 DEF WatchdogReset, flash, call
<1>9. CASE Hang
  BY <1>9 DEF Hang, Scheduled, Interrupted, flash, call
<1>10. CASE Exception
  BY <1>10 DEF Exception, Scheduled, Interrupted, flash, call
<1>11. CASE CpuError
  BY <1>11 DEF CpuError, Scheduled, Interrupted, flash, call
<1>12. CASE Request
  BY <1>12 DEF Request, CallResetToBootloader, flash, call
<1>13. CASE Program
  BY <1>13 DEF Program, flash, call
<1>14. CASE ClearFuse
  BY <1>14 DEF ClearFuse, call
<1>15. CASE Leave
  BY <1>15 DEF Leave, flash, call
<1>16. CASE ColdReset
  <2>1. pc' = "reset" /\ cause' = "cold" /\ counter' \in Byte
    BY <1>16 DEF ColdReset
  <2>2. CASE pc \in {"erase", "write"}
    <3>1. fuse => torn'
      BY <1>16, <2>2 DEF ColdReset, Interrupted
    <3> QED BY <1>16, <2>1, <2>2, <3>1 DEF ColdReset, Interrupted, call
  <2>3. CASE pc \notin {"erase", "write"}
    <3>1. counter' = counter /\ (torn' <=> torn)
      BY <1>16, <2>3 DEF ColdReset, Interrupted
    <3> QED BY <1>16, <2>1, <2>3, <3>1 DEF ColdReset, Interrupted, call
  <2> QED BY <2>2, <2>3
<1>17. CASE UNCHANGED bootVars
  BY <1>17 DEF bootVars
<1> QED
  BY <1>1, <1>2, <1>3, <1>4, <1>5, <1>6, <1>7, <1>8, <1>9, <1>10, <1>11, <1>12,
     <1>13, <1>14, <1>15, <1>16, <1>17 DEF BootNext, Proceed, Fault

\* The invariant holds of every behaviour.
LEMMA BootInvariant == BootSpec => []BootInv
  BY InitBoot, StepBoot, PTL DEF BootSpec

\* Whatever byte a cut write leaves, the counter never leaves its byte: the
\* addition of system.c:58 does not overflow.
THEOREM BootTypeCorrect == BootSpec => []BootTypeOK
<1>1. BootInv => BootTypeOK
  BY DEF BootInv
<1> QED BY <1>1, BootInvariant, PTL

\* A firmware goes to the bootloader of its own accord only after more than
\* three errors in a row, whatever resets happen and when (system.c:35).
THEOREM StableFirmwareStays == BootSpec => OnlyUnstableFirmwareIsLeft
<1>1. BootInv /\ [BootNext]_bootVars => [pc = "check" /\ pc' = "fuse" => unstable > Limit \/ torn]_bootVars
  <2> SUFFICES ASSUME BootInv, BootNext, pc = "check", pc' = "fuse"
               PROVE  unstable > Limit \/ torn
    OBVIOUS
  <2>1. CheckBuggyFirmware
    BY DEF BootNext, Proceed, Boot, SetFuse, ErasePage, WritePage, StartScheduler, HandlerEnd,
           WatchdogReset, Fault, Hang, Exception, CpuError, Request, Program, ClearFuse, Leave,
           ColdReset, bootVars, Scheduled, Writing
  <2> QED
    BY <2>1 DEF CheckBuggyFirmware, CallSetResetNb, BootInv, BootTypeOK, CounterInv, Byte, Limit, Unstable
<1> QED
  BY <1>1, BootInvariant, PTL DEF BootSpec, OnlyUnstableFirmwareIsLeft

===============================================================================
