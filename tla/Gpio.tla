-------------------------------- MODULE Gpio --------------------------------
(***************************************************************************)
(* Interrupts of the GPIO driver (drivers/gpio/src/rtos_gpio.c), for one   *)
(* port.  The port raises an interrupt while its trigger is enabled and    *)
(* its pins differ from the trigger's value.  Disabling only leaves a note *)
(* for the routine, which disables the trigger when it next runs; a note   *)
(* may be withdrawn by enabling again before that.                         *)
(*                                                                         *)
(* The user's callback is a local one, or the one that forwards the value  *)
(* to a client on the other tile (drivers/gpio/src/rtos_gpio_rpc.c), whose *)
(* interrupt routine calls the client's.  What is inside                   *)
(* rtos_osal_critical_enter and _exit is one step.                         *)
(***************************************************************************)
EXTENDS Integers, Sequences

CONSTANTS
    GpioPins,    \* values of the port
    GpioChanLen  \* values the channel to the client holds

VARIABLES
    gpioPins,    \* the value on the pins
    gpioTrigger, \* the port's trigger: enabled or not, and its value
    gpioInfo,    \* isr_info: whether it was allocated, and its enabled field
    gpioIsr,     \* the interrupt routine, and the value it has read
    gpioRemote,  \* the callback forwards to a client
    gpioChan,    \* rpc_interrupt_c
    gpioSeen     \* the last value given to the callback, or the value when the
                 \* interrupt was last enabled

gpioVars == <<gpioPins, gpioTrigger, gpioInfo, gpioIsr, gpioRemote, gpioChan, gpioSeen>>

GpioInit ==
    /\ gpioPins \in GpioPins
    /\ gpioTrigger = [on |-> FALSE, value |-> gpioPins]
    /\ gpioInfo = [set |-> FALSE, enabled |-> "DISABLED"]
    /\ gpioIsr = [pc |-> "idle", value |-> gpioPins]
    /\ gpioRemote \in BOOLEAN /\ gpioChan = <<>> /\ gpioSeen = gpioPins

GpioPinsChange ==
    /\ \E v \in GpioPins \ {gpioPins} : gpioPins' = v
    /\ UNCHANGED <<gpioTrigger, gpioInfo, gpioIsr, gpioRemote, gpioChan, gpioSeen>>

gpio_local_isr_callback_set ==
    /\ ~gpioInfo.set
    /\ gpioInfo' = [set |-> TRUE, enabled |-> "DISABLED"]
    /\ UNCHANGED <<gpioPins, gpioTrigger, gpioIsr, gpioRemote, gpioChan, gpioSeen>>

\* The pins may change between the peek and the setting of the trigger, which
\* then is raised at once: one step.  The code reads isr_info even when it has
\* not been allocated; the callback has to be set before.
gpio_local_interrupt_enable ==
    /\ gpioInfo.set
    /\ IF gpioInfo.enabled = "DISABLED"
       THEN /\ gpioTrigger' = [on |-> TRUE, value |-> gpioPins]
            /\ gpioSeen' = gpioPins
       ELSE UNCHANGED <<gpioTrigger, gpioSeen>>
    /\ gpioInfo' = [gpioInfo EXCEPT !.enabled = "ENABLED"]
    /\ UNCHANGED <<gpioPins, gpioIsr, gpioRemote, gpioChan>>

gpio_local_interrupt_disable ==
    /\ gpioInfo.set /\ gpioInfo.enabled # "DISABLED"
    /\ gpioInfo' = [gpioInfo EXCEPT !.enabled = "DISABLE_PENDING"]
    /\ UNCHANGED <<gpioPins, gpioTrigger, gpioIsr, gpioRemote, gpioChan, gpioSeen>>

-----------------------------------------------------------------------------
\* rtos_gpio_isr, its critical section.
GpioIsrRead ==
    /\ gpioIsr.pc = "idle" /\ gpioTrigger.on /\ gpioPins # gpioTrigger.value
    /\ IF gpioInfo.enabled = "DISABLE_PENDING"
       THEN /\ gpioTrigger' = [gpioTrigger EXCEPT !.on = FALSE]
            /\ gpioInfo' = [gpioInfo EXCEPT !.enabled = "DISABLED"]
            /\ UNCHANGED gpioIsr
       ELSE /\ gpioIsr' = [pc |-> "callback", value |-> gpioPins]
            /\ UNCHANGED <<gpioTrigger, gpioInfo>>
    /\ UNCHANGED <<gpioPins, gpioRemote, gpioChan, gpioSeen>>

\* The callback: the user's, or rtos_gpio_rpc_host_isr.
GpioIsrCallback ==
    /\ gpioIsr.pc = "callback"
    /\ IF gpioRemote
       THEN Len(gpioChan) < GpioChanLen /\ gpioChan' = Append(gpioChan, gpioIsr.value)
       ELSE UNCHANGED gpioChan
    /\ gpioSeen' = gpioIsr.value
    /\ gpioIsr' = [gpioIsr EXCEPT !.pc = "trigger"]
    /\ UNCHANGED <<gpioPins, gpioTrigger, gpioInfo, gpioRemote>>

\* Mutant: the trigger is set to what the pins are now.
GpioIsrTriggerNow ==
    /\ gpioIsr.pc = "trigger"
    /\ gpioTrigger' = [gpioTrigger EXCEPT !.value = gpioPins]
    /\ gpioIsr' = [gpioIsr EXCEPT !.pc = "idle"]
    /\ UNCHANGED <<gpioPins, gpioInfo, gpioRemote, gpioChan, gpioSeen>>

GpioIsrTrigger ==
    /\ gpioIsr.pc = "trigger"
    /\ gpioTrigger' = [gpioTrigger EXCEPT !.value = gpioIsr.value]
    /\ gpioIsr' = [gpioIsr EXCEPT !.pc = "idle"]
    /\ UNCHANGED <<gpioPins, gpioInfo, gpioRemote, gpioChan, gpioSeen>>

rtos_gpio_rpc_client_isr ==
    /\ gpioChan # <<>>
    /\ gpioChan' = Tail(gpioChan)
    /\ UNCHANGED <<gpioPins, gpioTrigger, gpioInfo, gpioIsr, gpioRemote, gpioSeen>>

-----------------------------------------------------------------------------
GpioIsrCode == GpioIsrRead \/ GpioIsrCallback \/ GpioIsrTrigger

GpioNext ==
    \/ GpioPinsChange \/ gpio_local_isr_callback_set
    \/ gpio_local_interrupt_enable \/ gpio_local_interrupt_disable
    \/ GpioIsrCode \/ rtos_gpio_rpc_client_isr

\* Interrupts are served, on both tiles.
GpioFairness == WF_gpioVars(GpioIsrCode) /\ WF_gpioVars(rtos_gpio_rpc_client_isr)

GpioSpec == GpioInit /\ [][GpioNext]_gpioVars /\ GpioFairness

GpioTypeOK ==
    /\ gpioPins \in GpioPins /\ gpioSeen \in GpioPins
    /\ gpioTrigger \in [on : BOOLEAN, value : GpioPins]
    /\ gpioInfo \in [set : BOOLEAN, enabled : {"DISABLED", "ENABLED", "DISABLE_PENDING"}]
    /\ gpioIsr \in [pc : {"idle", "callback", "trigger"}, value : GpioPins]
    /\ Len(gpioChan) <= GpioChanLen

\* While the interrupt is enabled, or its disabling still pending, the port waits
\* for a value other than the last one handed on: no change is missed, however
\* enabling, disabling, changes and the routine follow on one another.
GpioNoChangeMissed ==
    /\ gpioTrigger.on <=> gpioInfo.enabled # "DISABLED"
    /\ gpioTrigger.on /\ gpioIsr.pc = "idle" => gpioTrigger.value = gpioSeen

\* A value on the pins has yet to be handed on.
GpioUnseen(v) == gpioPins = v /\ gpioInfo.enabled = "ENABLED" /\ gpioSeen # v
=============================================================================
