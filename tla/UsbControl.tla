----------------------------- MODULE UsbControl -----------------------------
(***************************************************************************)
(* Control transfers on endpoint 0: the TinyUSB port (sw_services/usb/     *)
(* portable/dcd_xcore.c) over the USB driver (drivers/usb/src/rtos_usb.c). *)
(*                                                                         *)
(* The interrupt handler runs for every packet and queues events; the USB  *)
(* task takes them and starts the next transfer.  lib_xud accepts a packet *)
(* on OUT only into the buffer it was last given, and says of each packet  *)
(* whether it is a SETUP packet.  The host and TinyUSB are external: the   *)
(* host runs one request after the other, with one data packet at most;    *)
(* TinyUSB answers a request or stalls it.  Bus resets are left out.       *)
(***************************************************************************)
EXTENDS Integers, Sequences

CONSTANTS UsbRequests,  \* how many requests the host makes
          UsbInLengths  \* the lengths of the data TinyUSB answers with

ASSUME UsbAssumption == UsbRequests \in Nat /\ UsbInLengths \subseteq Nat

UsbKinds == {"in", "out", "none"}

VARIABLES
  usbOut,            \* what EP0 OUT is ready for: "no", "setup" or "data"
  usbIn,             \* what EP0 IN is to send: -1 nothing, else a length
  waiting_for_setup,
  dest_ctrl_buffer,  \* the request the awaited OUT data is for, 0 if NULL
  setup_packet,      \* the request in the buffer for SETUP packets
  usbEvents,         \* the queue from the interrupt handler to the task
  usbHost,           \* the request the host makes, and its stage
  usbStack           \* the request TinyUSB is at, and its stage

usbVars == <<usbOut, usbIn, waiting_for_setup, dest_ctrl_buffer, setup_packet,
             usbEvents, usbHost, usbStack>>

NoRequest == [no |-> 0, kind |-> "none", stage |-> "idle"]

\* The endpoints have been found ready and the handler has prepared for the
\* first SETUP packet.
UsbInit ==
  /\ usbOut = "setup" /\ usbIn = -1
  /\ waiting_for_setup = TRUE
  /\ dest_ctrl_buffer = 0
  /\ setup_packet = [no |-> 0, kind |-> "none"]
  /\ usbEvents = << >>
  /\ usbHost = NoRequest
  /\ usbStack = NoRequest

prepare_setup ==
  /\ waiting_for_setup' = TRUE
  /\ usbOut' = "setup"

dcd_event(e) == usbEvents' = Append(usbEvents, e)

UsbAt(stage) == [usbHost EXCEPT !.stage = stage]

(***************************************************************************)
(* The interrupt handler: usb_isr and dcd_xcore_int_handler.               *)
(***************************************************************************)
\* A SETUP packet.  It goes to the buffer that EP0 OUT was given, but the
\* event is always made of setup_packet.
SetupPacket ==
  /\ usbHost.stage = "idle"
  /\ usbHost.no < UsbRequests
  /\ usbOut # "no"
  /\ usbOut' = "no"
  /\ waiting_for_setup' = FALSE
  /\ \E k \in UsbKinds :
       LET r == [no |-> usbHost.no + 1, kind |-> k] IN
       /\ usbHost' = [no |-> r.no, kind |-> k,
                      stage |-> CASE k = "in" -> "data_in" [] k = "out" -> "data_out"
                                  [] k = "none" -> "status_in"]
       /\ setup_packet' = IF usbOut = "setup" THEN r ELSE setup_packet
       /\ dcd_event([ep |-> "setup", request |-> setup_packet'])
  /\ UNCHANGED <<usbIn, dest_ctrl_buffer, usbStack>>

\* Mutant: ready for the next SETUP packet as soon as data has been sent.
InPacketReady_any(len) == prepare_setup

\* After an empty packet, taken for the end of the request, the handler
\* prepares for the next SETUP packet, and not before.
InPacketReady(len) ==
  IF len = 0 THEN prepare_setup ELSE UNCHANGED <<usbOut, waiting_for_setup>>

InPacket ==
  /\ usbHost.stage \in {"data_in", "status_in"}
  /\ usbIn # -1
  /\ InPacketReady(usbIn)
  /\ usbIn' = -1
  /\ dcd_event([ep |-> "in", request |-> setup_packet])
  /\ usbHost' = UsbAt(IF usbHost.stage = "data_in" THEN "status_out" ELSE "idle")
  /\ UNCHANGED <<dest_ctrl_buffer, setup_packet, usbStack>>

\* The empty packet that ends an IN request.
OutStatus ==
  /\ usbHost.stage = "status_out"
  /\ usbOut # "no"
  /\ prepare_setup
  /\ dcd_event([ep |-> "out", request |-> setup_packet])
  /\ usbHost' = UsbAt("idle")
  /\ UNCHANGED <<usbIn, dest_ctrl_buffer, setup_packet, usbStack>>

\* The data of an OUT request.
OutData ==
  /\ usbHost.stage = "data_out"
  /\ usbOut = "data"
  /\ usbOut' = "no"
  /\ dest_ctrl_buffer' = 0
  /\ dcd_event([ep |-> "out", request |-> setup_packet])
  /\ usbHost' = UsbAt("status_in")
  /\ UNCHANGED <<usbIn, waiting_for_setup, setup_packet, usbStack>>

\* Data that arrives when a SETUP packet is awaited is dropped.
OutDataDropped ==
  /\ usbHost.stage = "data_out"
  /\ usbOut = "setup" /\ waiting_for_setup
  /\ prepare_setup
  /\ usbHost' = UsbAt("idle")
  /\ UNCHANGED <<usbIn, dest_ctrl_buffer, setup_packet, usbEvents, usbStack>>

(***************************************************************************)
(* The USB task.                                                           *)
(***************************************************************************)
dcd_edpt_xfer_in(len) ==
  /\ usbIn' = len
  /\ UNCHANGED <<usbOut, waiting_for_setup, dest_ctrl_buffer>>

dcd_edpt_xfer_out(request) ==
  /\ usbOut' = "data"
  /\ dest_ctrl_buffer' = request
  /\ UNCHANGED <<usbIn, waiting_for_setup>>

\* The host, which waits for the request to go on, learns that it will not,
\* or its data is already on the way.
dcd_edpt_stall ==
  /\ IF waiting_for_setup THEN UNCHANGED <<usbOut, waiting_for_setup>>
     ELSE prepare_setup
  /\ usbStack' = NoRequest
  /\ \/ usbHost' = UsbAt("idle")
     \/ usbHost.stage = "data_out" /\ UNCHANGED usbHost
  /\ UNCHANGED <<usbIn, dest_ctrl_buffer>>

StackAt(request, stage) ==
  usbStack' = [no |-> request.no, kind |-> request.kind, stage |-> stage]

TakeSetup ==
  /\ usbEvents # << >> /\ Head(usbEvents).ep = "setup"
  /\ LET r == Head(usbEvents).request IN
     \/ /\ r.kind = "in"
        /\ \E len \in UsbInLengths : dcd_edpt_xfer_in(len)
        /\ StackAt(r, "data")
        /\ UNCHANGED usbHost
     \/ /\ r.kind = "out"
        /\ dcd_edpt_xfer_out(r.no)
        /\ StackAt(r, "data")
        /\ UNCHANGED usbHost
     \/ /\ r.kind = "none"
        /\ dcd_edpt_xfer_in(0)
        /\ StackAt(r, "status")
        /\ UNCHANGED usbHost
     \/ dcd_edpt_stall
  /\ usbEvents' = Tail(usbEvents)
  /\ UNCHANGED setup_packet

\* The data stage is over: the status stage goes the other way.  The end
\* of that ends the request.
TakeTransfer ==
  /\ usbEvents # << >> /\ Head(usbEvents).ep # "setup"
  /\ \/ /\ usbStack.stage = "data" /\ Head(usbEvents).ep = usbStack.kind
        /\ IF usbStack.kind = "in" THEN dcd_edpt_xfer_out(usbStack.no)
           ELSE dcd_edpt_xfer_in(0)
        /\ StackAt(usbStack, "status")
     \/ /\ usbStack.stage = "data" => Head(usbEvents).ep # usbStack.kind
        /\ usbStack' = [usbStack EXCEPT !.stage = "idle"]
        /\ UNCHANGED <<usbOut, usbIn, waiting_for_setup, dest_ctrl_buffer>>
  /\ usbEvents' = Tail(usbEvents)
  /\ UNCHANGED <<setup_packet, usbHost>>

UsbDone ==
  /\ usbHost.no = UsbRequests /\ usbHost.stage = "idle" /\ usbEvents = << >>
  /\ UNCHANGED usbVars

UsbNext ==
  \/ SetupPacket \/ InPacket \/ OutStatus \/ OutData \/ OutDataDropped
  \/ TakeSetup \/ TakeTransfer
  \/ UsbDone

UsbSpec == UsbInit /\ [][UsbNext]_usbVars

(***************************************************************************)
(* Properties.                                                             *)
(***************************************************************************)
\* The comments at lines 155 and 167 of dcd_xcore.c are about this.  A
\* request is handed to TinyUSB only when the one before has ended, as the
\* last it will hear of; what it is handed is what the host sent; and when
\* the host sends data, the buffer the handler copies it to is that
\* request's own (the xassert at line 184).
UsbRequestsInTurn ==
  /\ usbEvents # << >> /\ Head(usbEvents).ep = "setup" => usbStack.stage = "idle"
  /\ \A i \in DOMAIN usbEvents : usbEvents[i].ep = "setup" =>
       \A j \in DOMAIN usbEvents : j > i => usbEvents[j].ep # "setup"
  /\ \A i \in DOMAIN usbEvents : usbEvents[i].ep = "setup" =>
       usbEvents[i].request = [no |-> usbHost.no, kind |-> usbHost.kind]
  /\ usbHost.stage = "data_out" /\ usbOut = "data" => dest_ctrl_buffer = usbHost.no
=============================================================================
