------------------------------ MODULE HostApi -------------------------------
(***************************************************************************)
(* The host library and its dialogue with the board (openscb.c,            *)
(* openscb_utils.c, openscb_usb.c; pc_comm.c on the board).                *)
(*                                                                         *)
(* A program calls the library from one thread.  A write sends an array in *)
(* as many packets as it takes.  A read sends a request and takes packets  *)
(* from the board until it has counted the items asked for.  Each transfer *)
(* has a timeout.  The board handles packets one at a time, in order, and  *)
(* cuts an array into packets too.  Nothing ties a packet to the request   *)
(* it answers but a module and a command, the kind of a packet here: what  *)
(* one call leaves in the endpoint, the next finds.                        *)
(*                                                                         *)
(* An item is abstracted to its kind and to a version, which grows each    *)
(* time it is written, by the host or by the board itself.                 *)
(***************************************************************************)
EXTENDS Naturals, Sequences, FiniteSetsExt

CONSTANTS
    BoardNb,        \* items of an array of the board
    PerPacket,      \* of these in a packet, for the wider ones
    Banks,          \* packets an endpoint holds
    Calls,          \* calls the program may make
    MaxCalls,       \* bound: calls in a behaviour
    MaxVersion      \* bound: writes of an array by the board

\* "conf" is an array of sys_conf that the host writes, "calib" the one of the
\* input calibrations, which the board writes, "value" an array of fixed-point
\* numbers, which fits a packet, and "active" the bitmask of active outputs.
Kind == {"conf", "calib", "value", "active"}

ItemNb(kind) == IF kind = "active" THEN 1 ELSE BoardNb
PacketItems(kind) ==
    IF kind \in {"conf", "calib"} THEN PerPacket ELSE ItemNb(kind)

\* The functions of the library, by the array they read or write.
ConfCalls == [op : {"set", "get"}, kind : {"conf"}, nb : Nat \ {0}]
CalibCalls == [op : {"get"}, kind : {"calib"}, nb : Nat \ {0}]
ValueCalls == [op : {"get"}, kind : {"value"}, nb : Nat \ {0}]
ActiveCalls == [op : {"set", "get"}, kind : {"active"}, nb : {1}]

ASSUME LayoutAssumption == {BoardNb, PerPacket, Banks} \subseteq Nat \ {0}

ASSUME CallsAssumption ==
    /\ \A c \in Calls : c \in ConfCalls \cup CalibCalls \cup ValueCalls \cup ActiveCalls
    /\ Calls # {} /\ IsFiniteSet(Calls)
    /\ {MaxCalls, MaxVersion} \subseteq Nat

VARIABLES
    call,           \* call in progress, or the last one
    step,           \* "idle", "send", "receive", "ok" or "error"
    ind,            \* items sent, or counted in the packets received
    data,           \* array of the caller
    out, in,        \* packets in the endpoints, to the board and from it
    reply,          \* packets the board has yet to send
    mem,            \* versions of the items of the board
    connected       \* the board has not been reset since it was opened

\* History, read by the properties and by the bounds.
VARIABLES
    since,          \* versions the items have reached when the call begins
    failed,         \* a call has failed since the board was opened
    short,          \* a read has left packets of its reply unread
    calls

host == <<call, ind, data, since, calls>>
board == <<reply, mem>>
vars == <<call, step, ind, data, out, in, board, connected, since, failed, short, calls>>

NoItem == [kind |-> "none", version |-> 0]
MaxNb == Max({c.nb : c \in Calls})
MaxItem == Max({MaxNb, BoardNb})
Smaller(a, b) == IF a < b THEN a ELSE b

-----------------------------------------------------------------------------
(* Packets *)

PacketNb(kind) == (ItemNb(kind) + PacketItems(kind) - 1) \div PacketItems(kind)

LastIndex(kind) == (PacketNb(kind) - 1) * PacketItems(kind)

\* A packet of a reply; an index counts from 0.
Fragment(kind, first) ==
    [kind |-> kind, index |-> first,
     versions |-> SubSeq(mem[kind], first + 1,
                         Smaller(first + PacketItems(kind), ItemNb(kind)))]

\* The packets of a reply.
Fragments(kind) ==
    [j \in 1..PacketNb(kind) |-> Fragment(kind, (j - 1) * PacketItems(kind))]

Command(op, kind, index, len) ==
    [op |-> op, kind |-> kind, index |-> index, len |-> len]

Writes(command, kind, i) ==
    /\ command.op = "set" /\ command.kind = kind
    /\ i \in (command.index + 1)..(command.index + command.len)

\* A bug: the items are stored from the start of the array.
MutantStore(command) ==
    [i \in 1..ItemNb(command.kind) |->
        mem[command.kind][i] + (IF i <= command.len THEN 1 ELSE 0)]

\* The array of the board after a packet, whose items it stores one by one as
\* long as they are within the array.
Store(command) ==
    [i \in 1..ItemNb(command.kind) |->
        mem[command.kind][i] + (IF Writes(command, command.kind, i) THEN 1 ELSE 0)]

\* The number of items a read counts in a packet.  scb_defragment_data
\* compares its sizes as unsigned numbers.
DefragmentCount(packet) ==
    IF packet.index <= call.nb
    THEN Smaller(Len(packet.versions), call.nb - packet.index)
    ELSE Len(packet.versions)

\* scb_parse_dsp16_packet divides the size of the whole packet, with its
\* header, which is as long as two items.
ParseCount(packet) ==
    IF packet.index <= call.nb
    THEN Smaller(Len(packet.versions) + 2, call.nb - packet.index)
    ELSE 0

Counted(packet) ==
    CASE call.kind \in {"conf", "calib"} -> DefragmentCount(packet)
      [] call.kind = "value" -> ParseCount(packet)
      [] call.kind = "active" -> 1

\* What a packet leaves in the array of the caller; beyond its own items it
\* is whatever the buffer holds.
Stored(packet) ==
    [i \in 1..MaxNb |->
        IF i <= packet.index \/ i > packet.index + Counted(packet) THEN data[i]
        ELSE IF i > packet.index + Len(packet.versions) THEN NoItem
        ELSE [kind |-> packet.kind, version |-> packet.versions[i - packet.index]]]

-----------------------------------------------------------------------------
(* The library *)

InCall == step \in {"send", "receive"}

\* Writes of an item the board has not handled yet.
WritesIn(commands, kind, i) ==
    Cardinality({j \in DOMAIN commands : Writes(commands[j], kind, i)})
Pending(kind, i) == WritesIn(out, kind, i)

\* The program makes a call.
Call ==
    /\ ~InCall /\ calls < MaxCalls
    /\ call' \in Calls
    /\ step' = "send" /\ ind' = 0
    /\ data' = [i \in 1..MaxNb |-> NoItem]
    /\ since' = [i \in 1..MaxItem |->
                   IF i > ItemNb(call'.kind) THEN 0
                   ELSE mem[call'.kind][i] + Pending(call'.kind, i)]
    /\ calls' = calls + 1
    /\ UNCHANGED <<out, in, board, connected, failed, short>>

\* One packet of a write.
SendData ==
    /\ step = "send" /\ call.op = "set"
    /\ connected /\ Len(out) < Banks
    /\ LET len == Smaller(PacketItems(call.kind), call.nb - ind) IN
       /\ out' = Append(out, Command("set", call.kind, ind, len))
       /\ ind' = ind + len
    /\ step' = IF ind' < call.nb THEN "send" ELSE "ok"
    /\ UNCHANGED <<call, data, since, calls, in, board, connected, failed, short>>

SendRequest ==
    /\ step = "send" /\ call.op = "get"
    /\ connected /\ Len(out) < Banks
    /\ out' = Append(out, Command("get", call.kind, 0, 0))
    /\ step' = "receive"
    /\ UNCHANGED <<host, in, board, connected, failed, short>>

\* A bug: the size of the packet includes its header.
MutantReceive ==
    /\ step = "receive" /\ connected /\ in # <<>>
    /\ LET packet == Head(in) IN
       IF call.kind \in {"active", packet.kind}
       THEN /\ data' = Stored(packet)
            /\ ind' = ind + Counted(packet) + 1
            /\ step' = IF ind' < call.nb THEN "receive" ELSE "ok"
       ELSE UNCHANGED <<data, ind, step>>
    /\ in' = Tail(in)
    /\ short' = (short \/ (step' = "ok" /\ call.nb <= LastIndex(call.kind)))
    /\ UNCHANGED <<call, out, board, connected, since, failed, calls>>

\* A packet that is not of the kind asked for is skipped, except by
\* scb_get_out_enabled, which takes any.
Receive ==
    /\ step = "receive" /\ connected /\ in # <<>>
    /\ LET packet == Head(in) IN
       IF call.kind \in {"active", packet.kind}
       THEN /\ data' = Stored(packet)
            /\ ind' = ind + Counted(packet)
            /\ step' = IF ind' < call.nb THEN "receive" ELSE "ok"
       ELSE UNCHANGED <<data, ind, step>>
    /\ in' = Tail(in)
    /\ short' = (short \/ (step' = "ok" /\ call.nb <= LastIndex(call.kind)))
    /\ UNCHANGED <<call, out, board, connected, since, failed, calls>>

\* A bug: a timeout of 0, which libusb takes for none.
MutantTimeout ==
    /\ InCall /\ ~connected
    /\ step' = "error"
    /\ failed' = TRUE
    /\ UNCHANGED <<host, out, in, board, connected, short>>

\* A transfer fails: nothing came or went for DEFAULT_TIMEOUT, or the board is
\* no longer there.
Timeout ==
    /\ InCall
    /\ connected => \/ step = "send" /\ Len(out) = Banks
                    \/ step = "receive" /\ in = <<>>
    /\ step' = "error"
    /\ failed' = TRUE
    /\ UNCHANGED <<host, out, in, board, connected, short>>

\* The program opens the board again, whose endpoints are new.
Connect ==
    /\ ~InCall /\ ~connected
    /\ connected' = TRUE /\ failed' = FALSE /\ short' = FALSE
    /\ step' = "idle"
    /\ UNCHANGED <<host, out, in, board>>

-----------------------------------------------------------------------------
(* The board *)

\* comm_task takes a command: a write, or a request it answers.
Handle ==
    /\ connected /\ reply = <<>> /\ out # <<>>
    /\ out' = Tail(out)
    /\ LET command == Head(out) IN
       IF command.op = "set"
       THEN mem' = [mem EXCEPT ![command.kind] = Store(command)] /\ UNCHANGED reply
       ELSE reply' = Fragments(command.kind) /\ UNCHANGED mem
    /\ UNCHANGED <<host, step, in, connected, failed, short>>

\* avr32_usb_dev_send waits for a free bank.
SendPacket ==
    /\ connected /\ reply # <<>> /\ Len(in) < Banks
    /\ in' = Append(in, Head(reply))
    /\ reply' = Tail(reply)
    /\ UNCHANGED <<host, step, out, mem, connected, failed, short>>

SysconfHeld == reply # <<>> /\ Head(reply).kind # "value"

\* The core task writes an array: the outputs, or the calibration of an input
\* unless the mutex is held for a reply.
Change(kind) ==
    /\ mem[kind][1] < MaxVersion
    /\ kind = "value" \/ ~SysconfHeld
    /\ mem' = [mem EXCEPT ![kind] = [i \in DOMAIN @ |-> @[i] + 1]]
    /\ UNCHANGED <<host, step, out, in, reply, connected, failed, short>>

Start == [kind \in Kind |-> [i \in 1..ItemNb(kind) |-> 0]]

\* Nobody reads: the communication task waits until the watchdog resets the
\* board, whose arrays start anew; the program's handle is of no more use.
WatchdogReset ==
    /\ connected /\ reply # <<>> /\ Len(in) = Banks /\ step # "receive"
    /\ connected' = FALSE
    /\ out' = <<>> /\ in' = <<>> /\ reply' = <<>>
    /\ mem' = Start
    /\ UNCHANGED <<host, step, failed, short>>

-----------------------------------------------------------------------------

Init ==
    /\ call = (CHOOSE c \in Calls : TRUE)
    /\ step = "idle"
    /\ ind = 0 /\ data = [i \in 1..MaxNb |-> NoItem]
    /\ out = <<>> /\ in = <<>> /\ reply = <<>>
    /\ mem = Start
    /\ connected = TRUE
    /\ since = [i \in 1..MaxItem |-> 0] /\ failed = FALSE /\ short = FALSE /\ calls = 0

Library == SendData \/ SendRequest \/ Receive \/ Timeout

Next ==
    \/ Call \/ Library \/ Connect
    \/ Handle \/ SendPacket \/ WatchdogReset
    \/ \E kind \in {"calib", "value"} : Change(kind)

\* A call goes on by itself.  Nothing is assumed of the board.
Spec == Init /\ [][Next]_vars /\ WF_vars(Library)

-----------------------------------------------------------------------------
(* Properties *)

\* Every variable keeps its type; in particular no packet is written over one
\* the host has not read (pc_comm_usb.c:41).
TypeOK ==
    /\ call \in Calls
    /\ step \in {"idle", "send", "receive", "ok", "error"}
    /\ ind \in 0..(MaxNb + PerPacket)
    /\ data \in [1..MaxNb -> [kind : Kind \cup {"none"}, version : 0..(MaxVersion + MaxCalls)]]
    /\ Len(out) <= Banks /\ \A j \in DOMAIN out : out[j].index + out[j].len <= MaxNb
    /\ Len(in) <= Banks
    /\ \A kind \in Kind :
          mem[kind] \in [1..ItemNb(kind) -> 0..(MaxVersion + MaxCalls)]
    /\ since \in [1..MaxItem -> 0..(MaxVersion + MaxCalls)]
    /\ {connected, failed, short} \subseteq BOOLEAN

Current(i) == data[i].kind = call.kind /\ data[i].version >= since[i]

\* openscb_utils.c:231 and 266: as long as every call succeeded and read every
\* packet of its reply, a read that succeeds has filled the whole array of the
\* caller, with what the board held when it was called or later, writes the
\* program had just made included; and it leaves the endpoints empty, so that the
\* board waits for nobody, which would otherwise end in a watchdog reset.
ReadsAreCurrent ==
    ~failed /\ ~short =>
        /\ step = "ok" /\ call.op = "get" => \A i \in 1..call.nb : Current(i)
        /\ connected
        /\ ~InCall => /\ in = <<>> /\ reply = <<>>
                      /\ \A i \in DOMAIN out : out[i].op = "set"

\* openscb_utils.c:78: a write that succeeds reaches every item of the board
\* once, one that times out the items of the packets it has sent and no other:
\* the array is then new up to some packet and old from there on.  It never
\* writes beyond the array or over a packet that has not been read (TypeOK).
WritesArePrefixes ==
    /\ TypeOK
    /\ connected /\ step # "idle" /\ call.op = "set" =>
          \A i \in 1..ItemNb(call.kind) :
              mem[call.kind][i] + Pending(call.kind, i)
                  = since[i] + (IF i <= ind THEN 1 ELSE 0)

\* openscb_dev.h:29: every call returns, whatever is left in the endpoints and
\* whether or not the board has as many items as are asked for.
CallsEnd == InCall ~> ~InCall

\* openscb_advanced.h:150, "Get current output calibration": a read that
\* succeeds gives current values, if no call has failed before.
SuccessIsCurrent ==
    ~failed /\ step = "ok" /\ call.op = "get" => \A i \in 1..call.nb : Current(i)
=============================================================================
